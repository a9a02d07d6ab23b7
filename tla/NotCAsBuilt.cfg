SPECIFICATION Spec
CONSTANTS
  Strings = {"s", "t"}
  NoString = "none"
  Sources <- MCSources
  Foreign <- MCForeign
  SourceMax = 8191
  BufMax = 7
  NOTC_MAX_CODE = 4096
  NOTC_MAX_STRINGS = 256
  NOTC_MAX_STRING_LEN = 256
  KernelStack = 32768
  StackMax = 64
INVARIANT CompilerStaysOnStack
