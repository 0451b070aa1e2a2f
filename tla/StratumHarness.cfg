SPECIFICATION FairSpec
CONSTANTS
  Seeds = {"s1", "s2"}
  PubKeys = {"pA", "pB"}
  JobLines <- MCLines
  Cohort = 2
  NumSteps = 2
  NonceSpace = 4
  INF <- MCINF
  Score0 <- MCScore0
  StepScore <- MCStepScore
  DiffMod = 16
  None = None
  PipeCap = 2
  MaxLines = 3
INVARIANTS TypeOK CohortSetUp SharesValid SharesNameOneJob
PROPERTIES NewJobTakenUp StopRequestEnds
CHECK_DEADLOCK FALSE
