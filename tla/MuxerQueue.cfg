SPECIFICATION Spec
CONSTANTS
  Producers <- MCProducers
  Ctl = "app"
  Cells <- MCCells
  PoolOf <- MCPoolOf
  Pts <- MCPts
  IoFault = TRUE
  Sigs = 1
  NoFrame = NoFrame
  NoCell = NoCell
CHECK_DEADLOCK FALSE
INVARIANTS NoLostWakeup CellOwnership BufferCount ListSorted NothingHeldAtEnd
