SPECIFICATION FairSpec
CONSTANTS
  alice = alice
  root = root
  i1 = i1
  i2 = i2
  i3 = i3
  small = small
  large = large
  None = None
  Clients <- TwoClients
  Root = root
  Requests <- FourRequests
  ClientOf <- Askers
  InputsOf <- Inputs
  Items <- ThreeItems
  ModelOf <- Models
  BatchSize = 2
  PerMinute = 2
  Burst = 1
  Minute = 2
  Second = 0
  ActiveSpan = 1
  MaxActive = 1
  Pause = 2
  MaxTime = 3

  
PROPERTIES
  Answered
CHECK_DEADLOCK FALSE
