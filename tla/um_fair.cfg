SPECIFICATION SetupSpec
CONSTANTS
  c1 = c1
  c2 = c2
  t1 = t1
  t2 = t2
  m1 = m1
  g = g
  Creds <- TwoCreds
  Tasks <- TwoTasks
  Models <- OneModel
  Sessions <- NoSessions
  GroupOf <- OnlyInGroup
  None = None
  Global = Global
  MaxConcurrent <- OneSlot
  OptimalConcurrent <- NoSoft
  Priority <- SameTier
  Sequential = TRUE
  FairCycle = TRUE
  CrossTier = FALSE
  PerCredential = FALSE
  CycleDuration = 1
  ResetCooldownThreshold = 1
  ExhaustionThreshold = 2
  QuotaThreshold <- QuotaTwo
  HookSuspends = FALSE
  WaitSlice = 1
  SleepMargin = 1
  Outcomes <- FairOutcomes
  CandidateSets <- AllCands
  Exclusions <- NoExclusion
  Budgets <- LongBudget
  AdminCooldowns <- NoAdmin
  MaxTime = 5
  MaxRequests = 5
PROPERTIES
  CycleKept
  EveryoneAnswered
CHECK_DEADLOCK FALSE
