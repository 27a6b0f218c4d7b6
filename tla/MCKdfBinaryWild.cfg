SPECIFICATION Spec
CONSTANTS
  Values <- MCValues
  Documents <- MCDocuments
  Depth <- MCDepth
  Contents = {"a", "b", "k", ""}
  EMPTY = ""
  NULL = NULL
  Junk = Junk
  TableCap = 1
  AllocFails = FALSE
INVARIANT NoWildFree
CHECK_DEADLOCK FALSE
