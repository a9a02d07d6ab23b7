SPECIFICATION Spec
CONSTANTS
  NSectors = 3
  Data = {"x", "y"}
  MaxCount = 3
  MaxChunk = 2
  Lba28 = 3
  Slow = FALSE
  ReadErrors = TRUE
  WriteErrors = FALSE
  WriteCache = FALSE
  NoData = NoData
  NoRequest = NoRequest
INVARIANT TypeOK InStep
PROPERTY ImplementsBlockDevice
