SPECIFICATION Spec
CONSTANTS
  Typed <- MCTyped
  ShortName <- MCShortName
  Invalid = "invalid"
  SymbolLen <- MCSymbolLen
  PathMax = 9
  SegMax = 5
  BufMax = 2
  TailMax = 4
  LinesMax = 2
  Lines <- MCLines
  Paths <- MCPaths
  Texts <- MCTexts
  Prepared <- MCPrepared
VIEW View
INVARIANT TypeOK
PROPERTY DoesAsSaid GoesAsSaid StaleCwdIsHarmless ShowsLines CountsWords ImplementsFileTree
CHECK_DEADLOCK FALSE
