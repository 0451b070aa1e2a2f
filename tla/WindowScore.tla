----------------------------- MODULE WindowScore -----------------------------
(***************************************************************************)
(* Miner::score and processTick of score_bpp9000.h: window after window,   *)
(* tick after tick, neuron after neuron.  A tick first computes the next   *)
(* value of every neuron, then writes them; the network's values live in   *)
(* one array that the feeding, the update and the grading share.           *)
(***************************************************************************)
EXTENDS TernaryNet

VARIABLES
  lut,              \* currentANN.lut, fixed during a score
  pc,
  window, tick, feedCounter,
  value,            \* currentANN.neurons[].value
  next,             \* nextNeuronValue
  todo,             \* neurons of the current phase of processTick still to visit
  failures, result

vars == <<lut, pc, window, tick, feedCounter, value, next, todo, failures, result>>

\* The arrays hold what the previous score left in them; 0 stands for it.
Init ==
  /\ lut \in Luts
  /\ pc = "window" /\ window = 0
  /\ tick = 0 /\ feedCounter = 0
  /\ value = [n \in Neurons |-> 0] /\ next = value /\ todo = {}
  /\ failures = 0 /\ result = 0

\* A window starts from an all-UNKNOWN network.
StartWindow ==
  /\ pc = "window" /\ window < NumWindows
  /\ feedCounter' = 0 /\ tick' = 0
  /\ value' = AllUnknown
  /\ pc' = "tick"
  /\ UNCHANGED <<lut, window, next, todo, failures, result>>

BeginTick ==
  /\ todo' = Neurons
  /\ pc' = "look up"
  /\ UNCHANGED <<lut, window, tick, next, failures, result>>

\* The signal is UNKNOWN and a sample is left: feed it.
Feed ==
  /\ pc = "tick" /\ tick < MaxTicks
  /\ value[Signal] = UNKNOWN /\ feedCounter < Width
  /\ value' = Fed(value, window + feedCounter)
  /\ feedCounter' = feedCounter + 1
  /\ BeginTick

\* The network is busy: the inputs show nothing.
Mask ==
  /\ pc = "tick" /\ tick < MaxTicks
  /\ value[Signal] # UNKNOWN
  /\ value' = Masked(value)
  /\ UNCHANGED feedCounter
  /\ BeginTick

\* Mutant: a neuron's new value is visible to the neurons after it.
LookUpInPlace(n) ==
  /\ pc = "look up" /\ n \in todo
  /\ next' = [next EXCEPT ![n] = IF n \in InputNeurons THEN value[n] ELSE LookUp(lut, value, n)]
  /\ value' = [value EXCEPT ![n] = next'[n]]
  /\ IF todo = {n} THEN todo' = Neurons /\ pc' = "write"
                   ELSE todo' = todo \ {n} /\ pc' = pc
  /\ UNCHANGED <<lut, window, tick, feedCounter, failures, result>>

\* processTick, first loop (in ascending order in the code, in any order here).
LookUpNeuron(n) ==
  /\ pc = "look up" /\ n \in todo
  /\ next' = [next EXCEPT ![n] = IF n \in InputNeurons THEN value[n] ELSE LookUp(lut, value, n)]
  /\ IF todo = {n} THEN todo' = Neurons /\ pc' = "write"
                   ELSE todo' = todo \ {n} /\ pc' = pc
  /\ UNCHANGED <<lut, window, tick, feedCounter, value, failures, result>>

\* Mutant: a tick is counted only while samples are left.
WriteNeuronSettling(n) ==
  /\ pc = "write" /\ n \in todo
  /\ value' = IF n \in InputNeurons THEN value ELSE [value EXCEPT ![n] = next[n]]
  /\ todo' = todo \ {n}
  /\ IF todo = {n}
     THEN pc' = "tick" /\ tick' = IF feedCounter < Width THEN tick + 1 ELSE tick
     ELSE UNCHANGED <<pc, tick>>
  /\ UNCHANGED <<lut, window, feedCounter, next, failures, result>>

\* processTick, second loop; after it the next tick.
WriteNeuron(n) ==
  /\ pc = "write" /\ n \in todo
  /\ value' = IF n \in InputNeurons THEN value ELSE [value EXCEPT ![n] = next[n]]
  /\ todo' = todo \ {n}
  /\ IF todo = {n} THEN pc' = "tick" /\ tick' = tick + 1 ELSE UNCHANGED <<pc, tick>>
  /\ UNCHANGED <<lut, window, feedCounter, next, failures, result>>

\* Settled in time: grade against the sample after the last one fed.
Grade ==
  /\ pc = "tick" /\ tick < MaxTicks
  /\ value[Signal] = UNKNOWN /\ feedCounter >= Width
  /\ failures' = IF value[Output] # Outputs[window + feedCounter] THEN failures + 1 ELSE failures
  /\ window' = window + 1
  /\ pc' = "window"
  /\ UNCHANGED <<lut, tick, feedCounter, value, next, todo, result>>

\* Out of ticks: the whole table fails.
RunOut ==
  /\ pc = "tick" /\ tick = MaxTicks
  /\ result' = INF
  /\ pc' = "done"
  /\ UNCHANGED <<lut, window, tick, feedCounter, value, next, todo, failures>>

Return ==
  /\ pc = "window" /\ window = NumWindows
  /\ result' = failures
  /\ pc' = "done"
  /\ UNCHANGED <<lut, window, tick, feedCounter, value, next, todo, failures>>

Next ==
  \/ StartWindow \/ Feed \/ Mask
  \/ \E n \in Neurons : LookUpNeuron(n) \/ WriteNeuron(n)
  \/ Grade \/ RunOut \/ Return

-----------------------------------------------------------------------------
\* Between ticks the network is where the synchronous network of this window is:
\* no neuron has read a value its tick has already written, no input shows a sample
\* that is not due, nothing is left over from the window before.
TickIsSynchronous ==
  pc = "tick" =>
    LET reference == Run(lut, window)[tick]
    IN  value = reference.v /\ feedCounter = reference.fed

=============================================================================
