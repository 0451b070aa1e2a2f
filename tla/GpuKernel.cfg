SPECIFICATION FairSpec
CONSTANTS
  in = in
  out1 = out1
  sig = sig
  Neurons = {in, out1, sig}
  InputNeurons = {in}
  Output = out1
  Signal = sig
  Neighbours <- MCNeighbours
  NumWindows = 3
  Width = 2
  MaxTicks = 5
  Inputs <- MCInputs
  Outputs <- MCOutputs
  Luts <- MCLuts
  Cohort = 2
  TgSizes <- MCTgSizes
  PipelineMax = 3
  SimdWidth = 2
  MaxDispatches = 2
INVARIANTS RowsStagedBeforeUse ReadsBackScores
PROPERTY DispatchEnds
CHECK_DEADLOCK FALSE
