SPECIFICATION FairSpec
CONSTANTS
  VideoLen = 3
  AudioLen = 3
  Duration = 3
  VideoRoom = 2
  AudioRoom = 1
  Waterline = 0
  Targets = {2}
  Files <- MCFiles
  Enabled = {"v", "a"}
  Eos = 1000
  MaxOps = 5
CHECK_DEADLOCK FALSE
INVARIANTS NoUseAfterRelease NothingKept
PROPERTIES ShownInOrder SeekEnds StopReturns
