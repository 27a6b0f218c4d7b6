SPECIFICATION Spec
CONSTANTS
  Bytes = {"m", "p", "q", "r"}
  Junk = Junk
  NULL = NULL
  Capacities = {2, 4, 8}
  Documents = {"d1", "d2", "d3"}
  Other = Other
  BytesOf <- MCBytesOf
  Reads <- MCReads
  Pieces <- MCPieces
  ReadSizes = {0, 1, 3, 8}
  Offsets <- MCOffsets
  Width = 4
  AllocFails = TRUE
  FilesFail = TRUE
CONSTRAINT Bounded
INVARIANT IndInv
PROPERTY ImplementsStream
