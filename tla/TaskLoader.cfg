SPECIFICATION LoaderSpec
CONSTANTS
  NumInputTrits = 3
  NumOutputTrits = 1
  NumPairs = 3
  Population = 8
  NumNeighbors = 3
  TritsPerByte = 2
  MaxByte = 15
  WindowWidth = 2
  MaxOverwrites = 2
  Tasks <- MCTasks
  OtherFiles <- MCOtherFiles
INVARIANTS LoadedIsOneTask RolesFitTopology
CHECK_DEADLOCK FALSE
