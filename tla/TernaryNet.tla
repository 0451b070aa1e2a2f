------------------------------ MODULE TernaryNet ------------------------------
(***************************************************************************)
(* The recurrent ternary network both scorers run, and what the score of   *)
(* a lookup table is: the common reference of the CPU scorer (WindowScore) *)
(* and the Metal kernel (GpuKernel).                                       *)
(*                                                                         *)
(* A window feeds Width samples to the input neurons, one whenever the     *)
(* signal neuron is UNKNOWN; between samples the inputs are UNKNOWN.  When *)
(* all are fed and the signal is UNKNOWN again the output is compared with *)
(* the sample after the window.                                            *)
(***************************************************************************)
EXTENDS Integers, FiniteSets

CONSTANTS
  Neurons,     \* the population
  InputNeurons,
  Output, Signal,
  Neighbours,  \* Neighbours[n]: the three neurons n reads, in order
  NumWindows, Width, MaxTicks,
  Inputs,      \* Inputs[t][i]: trit of input neuron i in sample t
  Outputs,     \* Outputs[t]: expected trit of sample t
  Luts         \* the lookup tables considered

Trit == 0..2
UNKNOWN == 2
Updated == Neurons \ InputNeurons
LUT == [Updated -> [0..26 -> Trit]]
Windows == 0..(NumWindows - 1)
Samples == 0..(NumWindows + Width - 1)

\* What validateTopology and the static_asserts of the miner guarantee.
ASSUME NetAssumption ==
  /\ IsFiniteSet(Neurons) /\ InputNeurons \subseteq Neurons
  /\ Output \in Updated /\ Signal \in Neurons \ InputNeurons /\ Signal # Output
  /\ Neighbours \in [Neurons -> [0..2 -> Neurons]]
  /\ NumWindows \in Nat \ {0} /\ Width \in Nat \ {0, 1}
  /\ MaxTicks \in Nat /\ MaxTicks > Width
  /\ Inputs \in [Samples -> [InputNeurons -> Trit]]
  /\ Outputs \in [Samples -> Trit]
  /\ Luts \subseteq LUT

Timeout == 3        \* a window that ran out of ticks has no output
INF == NumWindows + 1   \* INFINITE_ERROR, beyond every failure count

Values == [Neurons -> Trit]
AllUnknown == [n \in Neurons |-> UNKNOWN]

\* What neuron n looks up when the network shows v.
LookUp(lut, v, n) ==
  lut[n][v[Neighbours[n][0]] + 3 * v[Neighbours[n][1]] + 9 * v[Neighbours[n][2]]]

\* The inputs show sample t, or nothing.
Fed(v, t)  == [n \in Neurons |-> IF n \in InputNeurons THEN Inputs[t][n] ELSE v[n]]
Masked(v)  == [n \in Neurons |-> IF n \in InputNeurons THEN UNKNOWN ELSE v[n]]

\* All updated neurons change at once.
Synchronous(lut, v) ==
  [n \in Neurons |-> IF n \in InputNeurons THEN v[n] ELSE LookUp(lut, v, n)]

-----------------------------------------------------------------------------
(* The reference: the network of window w after so many ticks.             *)

Run(lut, w) ==
  LET after[t \in 0..MaxTicks] ==
        IF t = 0 THEN [v |-> AllUnknown, fed |-> 0]
        ELSE LET now == after[t - 1]
             IN  IF now.v[Signal] # UNKNOWN
                 THEN [v |-> Synchronous(lut, Masked(now.v)), fed |-> now.fed]
                 ELSE IF now.fed < Width
                 THEN [v |-> Synchronous(lut, Fed(now.v, w + now.fed)), fed |-> now.fed + 1]
                 ELSE now   \* settled: nothing changes any more
  IN  after

Settled(state) == state.fed = Width /\ state.v[Signal] = UNKNOWN

\* The trit window w is graded by, or Timeout: it has to settle before the last tick.
Prediction(lut, w) ==
  LET last == Run(lut, w)[MaxTicks - 1]
  IN  IF Settled(last) THEN last.v[Output] ELSE Timeout

\* The predictions of the tables considered, once for all.
Predictions == [lut \in Luts |-> [w \in Windows |-> Prediction(lut, w)]]

ScoreOf(lut) ==
  LET predicted == Predictions[lut]
  IN  IF \E w \in Windows : predicted[w] = Timeout
      THEN INF
      ELSE Cardinality({w \in Windows : predicted[w] # Outputs[w + Width]})
=============================================================================
