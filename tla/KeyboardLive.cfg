SPECIFICATION FairSpec
CONSTANTS
  Shifts = {"lshift"}
  CapsKeys = {}
  Letters = {"a"}
  Symbols = {}
  DeadKeys = {}
  Typematic = {"a"}
  Size = 3
  WireMax = 2
  EarlyKeys = FALSE
  TimerRunning = FALSE
  NoChar = NoChar
PROPERTY EveryByteRead EveryCharReturned
