SPECIFICATION Spec
CONSTANTS
  Strings = {"s", "t"}
  NoString = "none"
  Sources <- MCSources
  Foreign <- MCForeign
  SourceMax = 19
  BufMax = 7
  NOTC_MAX_CODE = 8
  NOTC_MAX_STRINGS = 3
  NOTC_MAX_STRING_LEN = 256
  KernelStack = 32768
  StackMax = 1
INVARIANT TypeOK CompilesTheSource ShortNeverRuns PrintsTheSource
PROPERTY RefusesOnlyNonPrograms
