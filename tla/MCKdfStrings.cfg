\* A property and the pool its strings are in, with an allocator that may fail.
SPECIFICATION StringsSpec
CONSTANTS
  Contents = {"a", "b", "c", "d"}
  Hash <- MCHash
  NULL = NULL
  PoolBuckets = 2
  AllocFails = TRUE
  MaxBlocks = 6
  Width = 2
  Floats <- MCFloats
  Texts = {"a", "b", "c", "d"}
  Opaque = {"vec2"}
  Missing = NULL
INVARIANTS IndInv IntegersAgree TruthIsNonZero StringsStand
PROPERTIES PointersStable ImplementsTable
CHECK_DEADLOCK FALSE
