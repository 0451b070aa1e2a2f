------------------------------ MODULE NodeScore ------------------------------
(***************************************************************************)
(* The node's own scorer, ScoreBpp9000 of qubic/core in its AVX-512 build: *)
(* 2 * NumLanes windows at a time, one plane of lanes per neuron, two      *)
(* planes that swap at every tick.  Only the neurons that can reach the    *)
(* signal or the output are computed; the planes' rows are numbered live   *)
(* neurons first, and tables are kept by position, not by neuron.          *)
(***************************************************************************)
EXTENDS NodeFeed

CONSTANT InputPosition  \* InputPosition[n]: where n stands in inputNeuronIndices

\* The neurons are numbered; the input list holds each of them once.
ASSUME NodeAssumption ==
  /\ Neurons = 0..(Cardinality(Neurons) - 1)
  /\ InputPosition \in [InputNeurons -> 0..(Cardinality(InputNeurons) - 1)]
  /\ \A m, n \in InputNeurons : InputPosition[m] = InputPosition[n] => m = n

-----------------------------------------------------------------------------
(* What deriveNeuronRoles makes of the topology.                           *)

\* The position of n among the neurons of S in the order of a key.
Place(S, key, n) == Cardinality({m \in S : key[m] < key[n]})
Number == [n \in Neurons |-> n]

\* updatedNeuronIndices, and back: the position of an updated neuron's table row.
TableRow == [n \in Updated |-> Place(Updated, Number, n)]
UpdatedAt == [k \in 0..(Cardinality(Updated) - 1) |-> CHOOSE n \in Updated : TableRow[n] = k]

\* The cone of influence: what signal and output depend on, inputs being leaves.
Cone ==
  LET reached[k \in 0..Cardinality(Neurons)] ==
        IF k = 0 THEN {Signal, Output}
        ELSE reached[k - 1] \cup {Neighbours[n][j] : n \in reached[k - 1] \ InputNeurons, j \in 0..2}
  IN  reached[Cardinality(Neurons)]

Live == Updated \cap Cone
LiveInputs == InputNeurons \cap Cone

\* simdRowOf: live updated neurons, dead ones, live inputs, dead inputs.
RowOf ==
  [n \in Neurons |->
     CASE n \in Live                -> Place(Live, Number, n)
       [] n \in Updated \ Live      -> Cardinality(Live) + Place(Updated \ Live, Number, n)
       [] n \in LiveInputs          -> Cardinality(Updated) + Place(LiveInputs, InputPosition, n)
       [] n \in InputNeurons \ Cone -> Cardinality(Updated \cup LiveInputs)
                                         + Place(InputNeurons \ Cone, InputPosition, n)]

\* A table row spread to base 4 per trit; the slots in between are 0.
Packed(row) ==
  [x \in 0..63 |->
     LET a == x % 4  b == (x \div 4) % 4  c == x \div 16
     IN  IF 3 \in {a, b, c} THEN 0 ELSE row[a + 3 * b + 9 * c]]

-----------------------------------------------------------------------------
VARIABLES
  dense,      \* currentANN.lut: table rows by position of the updated neuron
  pc,
  first,      \* the batch's first window
  tick,
  cur, nxt,   \* simdCur, simdNxt: [row][half][lane]
  predicted,  \* simdPredicted, simdPredictedHi
  failures, result

nodeVars == <<dense, pc, first, tick, cur, nxt, predicted, failures, result, feedVars>>

AllLanes(trit) == [h \in Halves |-> [l \in Lanes |-> trit]]
Plane(trit) == [row \in Neurons |-> AllLanes(trit)]

Origin(h) == IF h = "lo" THEN first ELSE first + NumLanes
\* Lanes of a half that hold a window of this batch.
Active(h) == {l \in Lanes : Origin(h) + l < NumWindows}

\* The planes start with whatever the previous score left; 0 stands for it.
NodeInit ==
  /\ pc = "batch" /\ first = 0 /\ tick = 0
  /\ cur = Plane(0) /\ nxt = Plane(0)
  /\ predicted = AllLanes(UNKNOWN)
  /\ failures = 0 /\ result = 0
  /\ FeedInit

\* Mutant: the planes are cleared only before the first batch.
StartWindowsOnOldPlane ==
  /\ pc = "batch" /\ first < NumWindows
  /\ StartBatch([h \in Halves |-> Active(h)])
  /\ cur' = IF first = 0 THEN Plane(UNKNOWN) ELSE cur
  /\ predicted' = AllLanes(UNKNOWN)
  /\ tick' = 0 /\ pc' = "sense"
  /\ UNCHANGED <<dense, first, nxt, failures, result>>

StartWindows ==
  /\ pc = "batch" /\ first < NumWindows
  /\ StartBatch([h \in Halves |-> Active(h)])
  /\ cur' = Plane(UNKNOWN)
  /\ predicted' = AllLanes(UNKNOWN)
  /\ tick' = 0 /\ pc' = "sense"
  /\ UNCHANGED <<dense, first, nxt, failures, result>>

Unknown(h) == {l \in Lanes : cur[RowOf[Signal]][h][l] = UNKNOWN}

\* Capture the outputs of the lanes that are through; leave when none is left.
Capture ==
  /\ pc = "sense" /\ tick < MaxTicks
  /\ LET finishing == [h \in Halves |-> Finishing(h, Unknown(h))]
     IN  /\ Finish(finishing)
         /\ predicted' = [h \in Halves |-> [l \in Lanes |->
              IF l \in finishing[h] THEN cur[RowOf[Output]][h][l] ELSE predicted[h][l]]]
  /\ pc' = IF \A h \in Halves : done'[h] = Lanes THEN "grade" ELSE "feed lo"
  /\ UNCHANGED <<dense, first, tick, cur, nxt, failures, result>>

FeedLo ==
  /\ pc = "feed lo"
  /\ FeedHalf("lo", Feeding("lo", Unknown("lo")))
  /\ pc' = "feed hi"
  /\ UNCHANGED <<dense, first, tick, cur, nxt, predicted, failures, result>>

FeedHi ==
  /\ pc = "feed hi"
  /\ FeedHalf("hi", Feeding("hi", Unknown("hi")))
  /\ pc' = "show"
  /\ UNCHANGED <<dense, first, tick, cur, nxt, predicted, failures, result>>

\* The rows of the live inputs show the samples read, or UNKNOWN.
ShowSamples ==
  /\ pc = "show"
  /\ LET rowOfInput == {RowOf[n] : n \in LiveInputs}
         input(row) == CHOOSE n \in LiveInputs : RowOf[n] = row
     IN  cur' = [row \in Neurons |->
           IF row \notin rowOfInput THEN cur[row]
           ELSE [h \in Halves |-> [l \in Lanes |->
                  IF show[h][l] = Nothing THEN UNKNOWN
                  ELSE Inputs[Origin(h) + show[h][l]][input(row)]]]]
  /\ pc' = "tick"
  /\ UNCHANGED <<dense, first, tick, nxt, predicted, failures, result, feedVars>>

\* tickNeuron: one live neuron's row of the next plane.
NextRow(n) ==
  [h \in Halves |-> [l \in Lanes |->
     LET trit(j) == cur[RowOf[Neighbours[n][j]]][h][l]
     IN  Packed(dense[TableRow[n]])[trit(0) + 4 * trit(1) + 16 * trit(2)]]]

\* processTickSIMD and the swap: rows not computed keep what they held two ticks ago.
TickLanes ==
  /\ pc = "tick"
  /\ LET live == [row \in {RowOf[n] : n \in Live} |-> CHOOSE n \in Live : RowOf[n] = row]
     IN  cur' = [row \in Neurons |-> IF row \in DOMAIN live THEN NextRow(live[row]) ELSE nxt[row]]
  /\ nxt' = cur
  /\ tick' = tick + 1 /\ pc' = "sense"
  /\ UNCHANGED <<dense, first, predicted, failures, result, feedVars>>

OutOfTicks ==
  /\ pc = "sense" /\ tick = MaxTicks
  /\ result' = INF /\ pc' = "done"
  /\ UNCHANGED <<dense, first, tick, cur, nxt, predicted, failures, feedVars>>

GradeLanes ==
  /\ pc = "grade"
  /\ failures' = failures + Cardinality({hl \in Halves \X Lanes :
       /\ hl[2] \in Active(hl[1])
       /\ predicted[hl[1]][hl[2]] # Outputs[Origin(hl[1]) + hl[2] + Width]})
  /\ first' = first + 2 * NumLanes /\ pc' = "batch"
  /\ UNCHANGED <<dense, tick, cur, nxt, predicted, result, feedVars>>

ReturnFailures ==
  /\ pc = "batch" /\ first >= NumWindows
  /\ result' = failures /\ pc' = "done"
  /\ UNCHANGED <<dense, first, tick, cur, nxt, predicted, failures, feedVars>>

NodeNext ==
  \/ StartWindows \/ Capture \/ FeedLo \/ FeedHi \/ ShowSamples \/ TickLanes
  \/ OutOfTicks \/ GradeLanes \/ ReturnFailures

-----------------------------------------------------------------------------
\* The table the dense rows stand for, by neuron.
Table == [n \in Updated |-> dense[TableRow[n]]]

\* Between ticks every lane still running shows, in the rows of the cone, the network
\* of its own window as if it ran alone and in full: no lane sees a sample of its
\* neighbour, a neuron left out never mattered, and nothing survives in a plane from
\* two ticks or a batch before.
PlanesSynchronous ==
  pc = "sense" =>
    \A h \in Halves : \A l \in Lanes \ done[h] :
      LET alone == Run(Table, Origin(h) + l)[tick]
      IN  /\ \A n \in Live : cur[RowOf[n]][h][l] = alone.v[n]
          /\ fed[h][l] = alone.fed
=============================================================================
