SPECIFICATION FairSpec
CONSTANTS
  t1 = t1
  t2 = t2
  t3 = t3
  Requests <- ThreeRequests
  Cap = 1
  SummaryCap = 1
  MaxIters = 2
  Configs <- AnyConfig
  Profiles <- AnyProfile
INVARIANTS
  SlotsSound
  
PROPERTIES
  Served
CHECK_DEADLOCK FALSE
