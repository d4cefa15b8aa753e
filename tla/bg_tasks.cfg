SPECIFICATION BackgroundSpec
CONSTANTS
  a = a
  big = big
  Texts <- AllTexts
  SizeOf <- Sizes
  Budget = 7
  Tools = 2
  SummarySize = 1
  Margin = 2
  KeepTail = 5
  RefreshMin = 2
  MinKeep = 2
  Cooldown = 1
  SummaryCap = 1
  CacheMax = 2
  MaxLength = 5
  MaxForks = 1
  LastTick = 1
  MaxTasks = 2
  Creds = {cred1, cred2}
  Concurrency = 1
INVARIANTS
  
  PollingSound
PROPERTIES
  BackgroundGoesOn
CHECK_DEADLOCK FALSE
