SPECIFICATION Spec
CONSTANTS
  n_fatent = 7
  csize = 2
  SS = 2
  FatPer = 4
  DirPer = 2
  Typed <- MCTyped
  ShortName <- MCShortName
  Invalid = "invalid"
  Paths <- MCPaths
  Texts <- MCTexts
  Prepared <- MCPrepared
  CatMax = 3
  TailMax = 2
  Careful = TRUE
INVARIANT TypeOK CrashSafe NothingLost DoneUnlessFull ShowsTheTree
PROPERTY ImplementsFileTree
CHECK_DEADLOCK FALSE
