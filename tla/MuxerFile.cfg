SPECIFICATION Spec
CONSTANTS
  RecTypes = {"NORMAL", "LAPSE", "AOV_LAPSE"}
  Fps = 2
  Duration = 3
  SplitDurs = {2}
  Wrap = 16
  MaxClock = 5
  NoCell = NoCell
CHECK_DEADLOCK FALSE
INVARIANTS NormalFileIsFull
PROPERTIES FileEventsHold PtsInOrder
