SPECIFICATION Spec
CONSTANTS
  Keys = {k1, k2}
  NULL = NULL
  AllocFails = TRUE
  MaxBlocks = 3
  MaxMembers = 2
SYMMETRY Symmetry
INVARIANTS IndInv OwnedOnce AllReached 
PROPERTY HandlesStable OnlyReadersLeak
CHECK_DEADLOCK FALSE
