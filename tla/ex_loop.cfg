SPECIFICATION SetupSpec
CONSTANTS
  c1 = c1
  c2 = c2
  c3 = c3
  t1 = t1
  t2 = t2
  Creds <- ThreeCreds
  Tasks <- TwoTasks
  MaxConcurrent <- OneSlot
  None = None
  Streaming <- Mixed
  MaxRetries = 2
  Budget = 3
  Errors <- AllErrors
  TransientDelay = 1
  RetryThreshold = 2
  MaxPause = 3
  RetryReasoning = TRUE
  MaxTime = 4
INVARIANTS
  HeldInsideBlock
  LoopSound
PROPERTIES
  OutcomeRecorded
  PolicyFollowed
  EveryRequestEnds
CHECK_DEADLOCK FALSE
