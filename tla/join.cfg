\* Joins on two machines overlap, fail or are killed.
CONSTANTS
  Machines = {m0, m1}
  Creator = m0
  CreatorName = n1
  Joins = {j1, j2}
  Names = {n1, n2}
  None = None
  MaxStarts = 2
  MaxRounds = 2
  MaxFailures = 1
SPECIFICATION Spec
INVARIANTS TypeOK WorkspacesUsable NamesApart
PROPERTIES IndexKept JoinCompletes JoinsEnd
CHECK_DEADLOCK FALSE
