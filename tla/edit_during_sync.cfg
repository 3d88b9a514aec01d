\* Finding: an edit made while a round is under way is lost.
CONSTANTS
  r1 = r1  r2 = r2
  p1 = p1  p2 = p2
  Repos = {r1, r2}
  Procs = {p1, p2}
  Home <- OwnHome
  Server = Server
  None = None
  MaxOps = 3
  MaxEdits = 2
  MaxOverlap = 1
  MaxFailures = 0
  EditWhileSyncing = TRUE
  DropPhases = {"normalize", "swap", "scan"}
SPECIFICATION Spec
INVARIANT NoEditLost
CHECK_DEADLOCK FALSE
