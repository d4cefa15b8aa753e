SPECIFICATION PartsSpec
CONSTANTS
  p1 = p1
  p2 = p2
  u1 = u1
  u2 = u2
  a1 = a1
  a2 = a2
  None = None
  Paths <- TwoPaths
  MaxRetries = 2
  Revokes = TRUE
  MaxQueue = 4
  Users <- TwoUsers
  Starter = Starter
  MaxGrants = 3
  MaxRestarts = 1
  FileCount = 3
  Accounts <- TwoAccounts
  NoAccount = NoAccount
INVARIANTS
  QueueSound
  
  StartSound
PROPERTIES
  RefreshesEnd
CHECK_DEADLOCK FALSE
