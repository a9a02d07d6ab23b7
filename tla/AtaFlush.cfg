SPECIFICATION Spec
CONSTANTS
  NSectors = 2
  Data = {"x", "y"}
  MaxCount = 2
  MaxChunk = 2
  Lba28 = 2
  Slow = FALSE
  ReadErrors = FALSE
  WriteErrors = FALSE
  WriteCache = TRUE
  NoData = NoData
  NoRequest = NoRequest
PROPERTY OkWriteIsDurable
