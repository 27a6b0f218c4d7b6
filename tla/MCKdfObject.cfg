\* Allocations succeed: everything the object promises.
SPECIFICATION Spec
CONSTANTS
  Keys = {"k1", "k2", "k3"}
  Hash <- MCHash
  Scalars = {"x"}
  Strings = {}
  Containers = {"object"}
  Versions = {}
  NULL = NULL
  InitBuckets = 3
  AllocFails = FALSE
  MaxBlocks = 5
INVARIANTS ChainsSound DestroyFreesAll NoFault LoadBounded
PROPERTIES CallsImplementTheirNames
CHECK_DEADLOCK FALSE
