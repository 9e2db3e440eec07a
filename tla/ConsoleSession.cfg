SPECIFICATION FairSpec
CONSTANTS
  Accounts <- ThreeAccounts
  NoAccount = none
  MaxTokens = 3
  MaxTasks = 2
  MaxFailures = 1
INVARIANTS
  TypeOK
  ShowsWhoItIs
  SessionsHoldTheirTokens
  StaysSignedOut
  SpinnerHasCause
PROPERTIES
  NobodyWaitsForever
CHECK_DEADLOCK FALSE
