SPECIFICATION Spec
CONSTANTS
  Names <- MCNames3
  Passes <- MCPass
  Colon = {"eve"}
  MaxUsers = 2
  RootName = "root"
  RootPass = "root"
  NoUser = NoUser
  NoCard = NoCard
  InitialCards <- MCInitialCards
  EditedCards <- MCEditedCards
  LongNames = TRUE
  Faults = {"mount", "read", "write", "full"}
INVARIANT TypeOK SessionMatchesTable AdminRemains
PROPERTY ImplementsAccounts
