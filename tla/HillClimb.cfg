SPECIFICATION Spec
CONSTANTS
  l1 = l1
  l2 = l2
  Lines = {l1, l2}
  NumSteps = 2
  MaxL = 2
  Scores <- MCScores
  Landscapes <- MCLandscapes
  SeedTables <- MCSeedTables
  RawLs <- MCRawLs
INVARIANTS TypeOK CurMatchesTable BestMatchesBestANN NeverLeavesBest
PROPERTY ImplementsClimb
CHECK_DEADLOCK FALSE
