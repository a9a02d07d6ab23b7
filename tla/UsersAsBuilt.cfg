SPECIFICATION Spec
CONSTANTS
  Names <- MCNames2
  Passes <- MCPass
  Colon = {}
  MaxUsers = 2
  RootName = "root"
  RootPass = "root"
  NoUser = NoUser
  NoCard = NoCard
  InitialCards <- MCInitialCards
  EditedCards <- MCNoEdits
  LongNames = FALSE
  Faults = {}
PROPERTY FallbackOnlyWithoutCard
