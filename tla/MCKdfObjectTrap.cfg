\* The allocator fails: a call that cannot report it traps.
SPECIFICATION Spec
CONSTANTS
  Keys = {"k1", "k2", "k3"}
  Hash <- MCHash
  Scalars = {"x"}
  Strings = {"s"}
  Containers = {"subresource"}
  Versions = {1}
  NULL = NULL
  InitBuckets = 3
  AllocFails = TRUE
  MaxBlocks = 3
INVARIANTS NoFault
CHECK_DEADLOCK FALSE
