SPECIFICATION FairSpec
CONSTANTS
  Producers <- MCLiveProducers
  Ctl = "app"
  Cells <- MCLiveCells
  PoolOf <- MCLivePoolOf
  Pts <- MCLivePts
  IoFault = TRUE
  Sigs = 1
  NoFrame = NoFrame
  NoCell = NoCell
CHECK_DEADLOCK FALSE
PROPERTIES QueueDrains StopClosesFile DestroyReturns
