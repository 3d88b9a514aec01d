\* Finding: create cannot always be run again.
CONSTANTS
  Dojos = {d1, d2, d3}
  None = None
  Files = 2
  MaxCrashes = 1
  MaxCommands = 2
SPECIFICATION Spec
INVARIANT SafeToRerun
CHECK_DEADLOCK FALSE
