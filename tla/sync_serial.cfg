\* Rounds one at a time, edits between rounds, one failure anywhere.
CONSTANTS
  r1 = r1  r2 = r2
  p1 = p1  p2 = p2
  Repos = {r1, r2}
  Procs = {p1, p2}
  Home <- OwnHome
  Server = Server
  None = None
  MaxOps = 7
  MaxEdits = 3
  MaxOverlap = 1
  MaxFailures = 1
  EditWhileSyncing = FALSE
  DropPhases = {"normalize", "swap", "scan"}
SPECIFICATION FairSpec
INVARIANTS TypeOK ReplicaOpens RoundSettles
PROPERTY Converges
