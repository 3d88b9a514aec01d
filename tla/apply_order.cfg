\* Every graph on three operations, every source and every complete target.
CONSTANTS
  Operations = {2, 3, 4}
  Damaged = {5}
  Others = {1, 6}
  LayerOf <- MCLayerOf
  Refs <- MCRefs
SPECIFICATION Spec
INVARIANTS TypeOK InOrder TargetComplete FailsIfBroken DoneIsWhole
PROPERTIES Ends
CHECK_DEADLOCK FALSE
