\* The dojo of a, which b may join; a commit by either after those it began with.
CONSTANTS
  Machines = {a, b}
  Creator = a
  Commits = {c1, c2}
  Created = {c1}
  MaxTears = 2
  MaxCuts = 1
SPECIFICATION FairSpec
INVARIANTS TypeOK CommitsBeforeOps ReplicaWhole AuthorKeeps
PROPERTIES Heals Arrives
