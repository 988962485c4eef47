SPECIFICATION FairSpec
CONSTANTS
  Users = {rec, preview, live}
  Slots <- MCSlots
  CreateFails = TRUE
  BindFails = TRUE
  None = None
CHECK_DEADLOCK FALSE
INVARIANTS EveryUserServedOnce ChannelOutlivesThread
PROPERTIES StopReturns
