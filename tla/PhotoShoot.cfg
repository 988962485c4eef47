SPECIFICATION FairSpec
CONSTANTS
  Counts = {1, 2}
  Slices = 2
  StartFails = {"main", "thumb"}
  MaxShots = 3
  MaxInits = 1
  MaxResets = 1
  None = None
CHECK_DEADLOCK FALSE
INVARIANTS PicturesCounted ThumbOfShot OneSizePerShot
PROPERTIES ShotEnds
