SPECIFICATION FairSpec
CONSTANTS
  JobSeq <- MCJobSeq
  Idle = Idle
  LocalTask = "t1"
  Live = TRUE
  Shares <- MCShares
  InboxCap = 1
  StdinCap = 1
  None = None
INVARIANTS OneConnection SubmitsLoadedTaskOnly
PROPERTY SilentConnectionReplaced
CHECK_DEADLOCK FALSE
