SPECIFICATION Spec
CONSTANTS
  NumFolders = 2
  Files <- MCFiles
  FolderOf <- MCFolderOf
  NumLimit <- MCNumLimit
  Limit <- MCLimit
  SpaceOf <- MCSpaceOf
  Capacity = 3
  DelMin = 1
  DelMax = 2
  RepairNum = 2
  Damaged = {"f1", "f2"}
  Times <- MCTimes
  MaxWrites = 1
  Absent = Absent
  NoFile = NoFile
CHECK_DEADLOCK FALSE
INVARIANTS ListedIsReal AllListed
PROPERTIES RecordingKept
