SPECIFICATION ParamSpec
CONSTANTS
  Threads = {"t1", "t2"}
  Streams <- Streams1106
  Direct <- Direct1106
  Resizable <- Direct1106
  Nodes <- Nodes1106
  Serves <- Serves1106
  Sizes = {1, 2}
  MaxSize = 2
  Values = {1, 2}
  Version = 1
  Defaults <- Values1
  BuiltIn <- Built1
  FirstFiles <- First
  Careful = TRUE
  MaxOps = 4
  MaxCrashes = 2
INVARIANTS SavedIsMemory Survives NodesFitStreams
CHECK_DEADLOCK FALSE
