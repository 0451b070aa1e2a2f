SPECIFICATION Spec
CONSTANTS
  Seeds = {"s1", "s2"}
  PubKeys = {"pA", "pB", "pC"}
  Cohort = 1
  NumSteps = 1
  NonceSpace = 3
  INF <- MCINF
  Score0 <- MCScore0
  StepScore <- MCStepScore
  DiffMod = 16
  PipeCap = 1
  None = None
  JobSeq <- Harder
  Idle = Idle
  LocalTask = "t1"
  Live = TRUE
  InboxCap = 1
  StdinCap = 2
INVARIANT SubmissionsValid
CHECK_DEADLOCK FALSE
