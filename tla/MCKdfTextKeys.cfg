SPECIFICATION Spec
CONSTANTS
  Values <- MCValues
  Depth <- MCDepth
  Contents = {"a", "b", "a = 1 b", "a{}b"}
  Characters = {"a"}
  Documents <- MCDocuments
  Identifiers = {"a", "b"}
  Spelling <- MCSpelling
  Chunks = {64}
  Width = 5
  NULL = NULL
INVARIANT OnlyWhatWasWritten
CHECK_DEADLOCK FALSE
