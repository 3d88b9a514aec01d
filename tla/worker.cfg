\* Commands overlap, are interrupted, and workers die.
CONSTANTS
  Commands = {c1, c2}
  Pids = {p1, p2, p3}
  None = None
  MaxCommands = 3
  MaxFailures = 1
SPECIFICATION Spec
INVARIANTS TypeOK OneWorker EnableRestarts
PROPERTY DisabledStops
CHECK_DEADLOCK FALSE
