SPECIFICATION FairSpec
CONSTANTS
  NSectors = 2
  Data = {"x", "y"}
  MaxCount = 2
  MaxChunk = 2
  Lba28 = 2
  Slow = TRUE
  ReadErrors = TRUE
  WriteErrors = TRUE
  WriteCache = TRUE
  NoData = NoData
  NoRequest = NoRequest
PROPERTY EveryRequestReturns
