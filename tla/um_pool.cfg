SPECIFICATION PoolSpec
CONSTANTS
  c1 = c1
  c2 = c2
  t1 = t1
  t2 = t2
  t3 = t3
  m1 = m1
  g = g
  Creds <- TwoCreds
  Tasks <- ThreeTasks
  Models <- OneModel
  Sessions <- NoSessions
  GroupOf <- Ungrouped
  None = None
  Global = Global
  MaxConcurrent <- OneSlot
  OptimalConcurrent <- SoftOneNoHard
  Priority <- TwoTiers
  Sequential = FALSE
  FairCycle = FALSE
  CrossTier = FALSE
  PerCredential = FALSE
  CycleDuration = 10
  ResetCooldownThreshold = 1
  ExhaustionThreshold = 2
  QuotaThreshold <- NoQuota
  HookSuspends = TRUE
  WaitSlice = 1
  SleepMargin = 1
  Outcomes <- PoolOutcomes
  CandidateSets <- Untried
  Exclusions <- NoExclusion
  Budgets <- ShortOrLong
  AdminCooldowns <- NoAdmin
  MaxTime = 5
  MaxRequests = 3
  Requests <- GeminiRequests
  Startup = "start"
  Unknown = Unknown
  MaxPolls = 2
  MaxReboots = 1
INVARIANTS
  TypeOK
  SlotsKept
PROPERTIES
  PoolContract
  WaitsSound
  
SYMMETRY TaskSymmetry
CHECK_DEADLOCK FALSE
