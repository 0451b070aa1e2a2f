SPECIFICATION Spec
CONSTANTS
  l1 = l1
  l2 = l2
  Lines = {l1, l2}
  NumSteps = 2
  MaxL = 2
  Cohort = 2
  Scores <- MCScores
  Landscapes <- MCLandscapes
  SeedTables <- MCSeedTables
  RawLs <- MCRawLs
INVARIANTS ReportIsSound
PROPERTIES ImplementsClimb
CHECK_DEADLOCK FALSE
