SPECIFICATION Spec
CONSTANTS
  Values <- MCValues
  Documents <- MCDocuments
  Depth <- MCDepth
  Contents = {"a", "b", "k", ""}
  EMPTY = ""
  NULL = NULL
  Junk = Junk
  TableCap = 1
  AllocFails = TRUE
INVARIANTS TypeOK WriterHonest TornStreamRefused RoundTrip
PROPERTY ReadEnds
CHECK_DEADLOCK FALSE
