SPECIFICATION FairSpec
CONSTANTS
  NumFolders = 3
  Files <- MCLiveFiles
  FolderOf <- MCLiveFolderOf
  NumLimit <- MCLiveNumLimit
  Limit <- MCLiveLimit
  SpaceOf <- MCLiveSpaceOf
  Capacity = 7
  DelMin = 4
  DelMax = 5
  RepairNum = 2
  Damaged = {"f1"}
  Times <- MCLiveTimes
  MaxWrites = 1
  Absent = Absent
  NoFile = NoFile
CHECK_DEADLOCK FALSE
PROPERTY CleansUp
