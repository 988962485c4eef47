SPECIFICATION Spec
CONSTANTS
  Users <- MCUsers
  Kind <- MCKind
  Lineups <- MCLineups
  Cfg <- MCCfg
  RecPaths <- MCRecPaths
  ThumbOf <- MCThumbOf
  Ai <- MCAi
  Aenc <- MCAenc
  Vo <- MCVo
  Chans <- MCChans
  Pairs <- MCPairs
  Capacity <- MCCapacity
  Faults <- MCFaults
  Locals <- MCLocals
CHECK_DEADLOCK FALSE
INVARIANTS Accounted OpenPathWorks CallbacksHaveOwners CloseSucceeds
