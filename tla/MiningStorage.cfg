SPECIFICATION MCSpec
CONSTANTS
  Messages <- MCMessages
  Solutions = {s1, s2}
  Ticks = {1, 2}
  Transactions <- MCTransactions
  MaxNumTasks = 2
  MaxNumSolutionsPerTask = 1
  OracleQueryMaxNumTries = 3
  AdditionalDataSize = 2
  TargetBytes = 4
  Byte = 4
  MaxIds = 3
INVARIANTS TasksAsAdded AnswersCountOnce
PROPERTIES ImplementsLedger WalkIsComplete
CHECK_DEADLOCK FALSE
