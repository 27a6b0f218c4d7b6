\* Any allocation may fail.
SPECIFICATION Spec
CONSTANTS
  Scalars = {"x"}
  Strings = {"s"}
  Containers = {"object"}
  NULL = NULL
  Junk = Junk
  InitCap = 1
  AllocFails = TRUE
  MaxBlocks = 5
  MaxItems = 3
INVARIANTS IndInv
PROPERTIES HandlesStable ImplementsSequence
CHECK_DEADLOCK FALSE
