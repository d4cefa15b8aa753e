SPECIFICATION StoresSpec
CONSTANTS
  k1 = k1
  k2 = k2
  k3 = k3
  a1 = a1
  r1 = r1
  r2 = r2
  None = None
  NoEntry = NoEntry
  Keys <- ThreeKeys
  Accounts <- OneAccount
  Requests <- TwoRequests
  Forms <- TwoForms
  Removals = {1}
  MaxCharge = 1
  MaxDay = 2
  MaxTokens = 2
  MaxEdits = 6
  CacheKeys <- TwoCacheKeys
  MemoryTTL = 1
  DiskTTL = 2
  MaxStores = 3
  MaxQueue = 2
  MaxTime = 4
  Endpoints = 2
  Parts <- ChunkParts
  Usages <- SomeUsages
  Unsaid = Unsaid
  MaxChunks = 2
INVARIANTS
  BudgetsHold
  KeysSound
  
  StreamSound
PROPERTIES
  CacheSound
SYMMETRY Interchangeable
CHECK_DEADLOCK FALSE
