\* Create and undojjo, run again and again, cut short anywhere.
CONSTANTS
  Dojos = {d1, d2, d3}
  None = None
  Files = 2
  MaxCrashes = 3
  MaxCommands = 5
SPECIFICATION Spec
INVARIANTS TypeOK RepoKept ConfigMeansPublished RerunCompletes
CHECK_DEADLOCK FALSE
