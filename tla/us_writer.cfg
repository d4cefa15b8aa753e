SPECIFICATION PartsSpec
CONSTANTS
  Nil = Nil
  Debounce = 2
  RetryInterval = 3
  DiskFails = TRUE
  Reloads = TRUE
  LastTime = 7
  MaxVersion = 4
  w1 = w1
  w2 = w2
  gr = gr
  WinModels <- TwoModels
  Group = gr
  NoTime <- NoneTime
  Duration = 2
  Day = 2
  ResetHour = 1
  WeekDays = 2
  CapOf <- Caps
  CapCooldown = 1
  ApiLimit = 2
  MaxInFlight = 1
  MaxSent = 2
  WinMaxTime = 3
INVARIANTS
  UpdatesReachWriter
PROPERTIES
  EverythingSaved
  WindowsSound
CHECK_DEADLOCK FALSE
