\* Finding: a round that overlaps another empties the replica of heads.
CONSTANTS
  r1 = r1  r2 = r2
  p1 = p1  p2 = p2
  Repos = {r1, r2}
  Procs = {p1, p2}
  Home <- OwnHome
  Server = Server
  None = None
  MaxOps = 3
  MaxEdits = 2
  MaxOverlap = 3
  MaxFailures = 0
  EditWhileSyncing = FALSE
  DropPhases = {"normalize", "swap", "scan"}
SPECIFICATION Spec
INVARIANT ReplicaHasHead
CHECK_DEADLOCK FALSE
