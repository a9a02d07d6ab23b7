SPECIFICATION Spec
CONSTANTS
  Shifts = {"lshift"}
  CapsKeys = {"caps"}
  Letters = {"a"}
  Symbols = {}
  DeadKeys = {}
  Typematic = {"a"}
  Size = 3
  WireMax = 2
  EarlyKeys = TRUE
  TimerRunning = TRUE
  NoChar = NoChar
INVARIANT TypeOK
PROPERTY ImplementsQueue DropsOnlyWhenFull TypedAsMeant FaultsOnlyInRemap
CHECK_DEADLOCK FALSE
