SPECIFICATION Spec
CONSTANTS
  Values <- MCValues
  Depth <- MCDepth
  Contents = {"k", "b", "null", "my key"}
  Characters <- MCCharacters
  Documents <- MCDocuments
  Identifiers = {"k", "b", "null"}
  Spelling <- MCSpelling
  Chunks = {2, 5, 64}
  Width = 5
  NULL = NULL
INVARIANTS TypeOK WriterHonest RoundTrip 
PROPERTY ParseEnds
CHECK_DEADLOCK FALSE
