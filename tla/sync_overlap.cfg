\* Two replicas, rounds and handlers overlapping freely, edits between rounds.
CONSTANTS
  r1 = r1  r2 = r2
  p1 = p1  p2 = p2
  Repos = {r1, r2}
  Procs = {p1, p2}
  Home <- OwnHome
  Server = Server
  None = None
  MaxOps = 4
  MaxEdits = 2
  MaxOverlap = 3
  MaxFailures = 1
  EditWhileSyncing = FALSE
  DropPhases = {"scan"}
SPECIFICATION Spec
SYMMETRY Symmetry
INVARIANTS MirrorClosed NoEditLost PublishedAvailable
PROPERTIES HistoryKept ImplementsSharedHistory
CHECK_DEADLOCK FALSE
