\* Any allocation may fail: what survives of the structure.
SPECIFICATION Spec
CONSTANTS
  Keys = {"k1", "k2", "k3"}
  Hash <- MCHash
  Scalars = {"x"}
  Strings = {"s"}
  Containers = {"subresource"}
  Versions = {1}
  NULL = NULL
  InitBuckets = 3
  AllocFails = TRUE
  MaxBlocks = 3
INVARIANTS IndInv
PROPERTIES HandlesStable ImplementsMap
CHECK_DEADLOCK FALSE
