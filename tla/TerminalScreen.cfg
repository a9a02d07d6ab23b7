SPECIFICATION Spec
CONSTANTS
  Cols = 4
  Rows = 3
  Columns32 = 16
  LineMax = 4
  NameMax = 2
  HistMax = 2
  Glyphs = {"a", "o", "l", "p", "i", "w", "h", "$", " "}
  Typed = {"a"}
  PrintedMax = 4
  BootText <- MCBootText
  LoginPrompt <- MCLoginPrompt
  PasswordPrompt <- MCPasswordPrompt
  Incorrect <- MCIncorrect
  Welcome <- MCWelcome
  Halting <- MCHalting
  Prompt <- MCPrompt
  Outputs <- MCOutputs
CHECK_DEADLOCK FALSE
INVARIANT TypeOK ScreenShowsText
PROPERTY HistoryIsLastLines
