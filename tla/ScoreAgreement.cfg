SPECIFICATION FairSpec
CONSTANTS
  Neurons = {0, 1, 2, 3, 4, 5}
  InputNeurons = {1, 3}
  Output = 2
  Signal = 4
  Neighbours <- MCNeighbours
  NumWindows = 5
  Width = 4
  MaxTicks = 10
  Inputs <- MCInputs
  Outputs <- MCOutputs
  Luts <- MCLuts
  NumLanes = 2
  RelMax = 1
  Saturated = 3
  InputPosition <- MCInputPosition
  NumLanes2 = 3
  Draws <- MCDraws
  MutationSeeds <- MCSeeds
INVARIANTS MinerTickIsSynchronous PlanesSynchronous FeedExact ScoresAgree
PROPERTY Terminates
CHECK_DEADLOCK FALSE
