---------------------------- MODULE NodeScoreAvx2 ----------------------------
(***************************************************************************)
(* The same scorer in the node's AVX2 build: one window per lane, every    *)
(* updated neuron computed, rows numbered as the neurons, each lane with   *)
(* its own counter and flag.                                               *)
(***************************************************************************)
EXTENDS TernaryNet

CONSTANT NumLanes2  \* SIMD_LANES of this build (32)

VARIABLES
  table,      \* currentANN.lut, by neuron
  pc, first, tick, lane,
  cur, nxt,   \* simdCur, simdNxt: [neuron][lane]
  counter,    \* simdFeedCounter
  predicted, done, remaining,
  failures, result

vars == <<table, pc, first, tick, lane, cur, nxt, counter, predicted, done, remaining,
          failures, result>>

Lanes == 0..(NumLanes2 - 1)
Batch == IF NumWindows - first < NumLanes2 THEN NumWindows - first ELSE NumLanes2
AllLanes(trit) == [n \in Neurons |-> [l \in Lanes |-> trit]]

Init ==
  /\ pc = "batch" /\ first = 0 /\ tick = 0 /\ lane = 0
  /\ cur = AllLanes(0) /\ nxt = AllLanes(0)
  /\ counter = [l \in Lanes |-> 0] /\ predicted = counter
  /\ done = {} /\ remaining = 0
  /\ failures = 0 /\ result = 0

StartWindows ==
  /\ pc = "batch" /\ first < NumWindows
  /\ cur' = AllLanes(UNKNOWN)
  /\ counter' = [l \in Lanes |-> 0] /\ predicted' = [l \in Lanes |-> UNKNOWN]
  /\ done' = {l \in Lanes : l >= Batch} /\ remaining' = Batch
  /\ tick' = 0 /\ lane' = 0 /\ pc' = "sense"
  /\ UNCHANGED <<table, first, nxt, failures, result>>

Sensing == pc = "sense" /\ tick < MaxTicks /\ lane < Batch

\* The inputs of lane l show these trits.
Shown(l, sample) ==
  [n \in Neurons |-> IF n \in InputNeurons THEN [cur[n] EXCEPT ![l] = sample[n]] ELSE cur[n]]

SkipLane ==
  /\ Sensing /\ lane \in done
  /\ lane' = lane + 1
  /\ UNCHANGED <<table, pc, first, tick, cur, nxt, counter, predicted, done, remaining, failures, result>>

FinishLane ==
  /\ Sensing /\ lane \notin done
  /\ cur[Signal][lane] = UNKNOWN /\ counter[lane] >= Width
  /\ predicted' = [predicted EXCEPT ![lane] = cur[Output][lane]]
  /\ done' = done \cup {lane} /\ remaining' = remaining - 1
  /\ lane' = lane + 1
  /\ UNCHANGED <<table, pc, first, tick, cur, nxt, counter, failures, result>>

FeedLane ==
  /\ Sensing /\ lane \notin done
  /\ cur[Signal][lane] = UNKNOWN /\ counter[lane] < Width
  /\ cur' = Shown(lane, Inputs[first + lane + counter[lane]])
  /\ counter' = [counter EXCEPT ![lane] = @ + 1]
  /\ lane' = lane + 1
  /\ UNCHANGED <<table, pc, first, tick, nxt, predicted, done, remaining, failures, result>>

MaskLane ==
  /\ Sensing /\ lane \notin done
  /\ cur[Signal][lane] # UNKNOWN
  /\ cur' = Shown(lane, [n \in InputNeurons |-> UNKNOWN])
  /\ lane' = lane + 1
  /\ UNCHANGED <<table, pc, first, tick, nxt, counter, predicted, done, remaining, failures, result>>

\* processTickSIMD over the updated neurons, then the planes swap.
TickLanes ==
  /\ pc = "sense" /\ tick < MaxTicks /\ lane = Batch /\ remaining # 0
  /\ cur' = [n \in Neurons |->
       IF n \in InputNeurons THEN nxt[n]
       ELSE [l \in Lanes |-> LookUp(table, [m \in Neurons |-> cur[m][l]], n)]]
  /\ nxt' = cur
  /\ tick' = tick + 1 /\ lane' = 0
  /\ UNCHANGED <<table, pc, first, counter, predicted, done, remaining, failures, result>>

OutOfTicks ==
  /\ pc = "sense" /\ tick = MaxTicks
  /\ result' = INF /\ pc' = "done"
  /\ UNCHANGED <<table, first, tick, lane, cur, nxt, counter, predicted, done, remaining, failures>>

\* The windows of the batch are through: grade them and go on.
GradeLanes ==
  /\ pc = "sense" /\ tick < MaxTicks /\ lane = Batch /\ remaining = 0
  /\ failures' = failures + Cardinality({l \in 0..(Batch - 1) :
                                           predicted[l] # Outputs[first + l + Width]})
  /\ first' = first + NumLanes2 /\ pc' = "batch"
  /\ UNCHANGED <<table, tick, lane, cur, nxt, counter, predicted, done, remaining, result>>

ReturnFailures ==
  /\ pc = "batch" /\ first >= NumWindows
  /\ result' = failures /\ pc' = "done"
  /\ UNCHANGED <<table, first, tick, lane, cur, nxt, counter, predicted, done, remaining, failures>>

Next ==
  \/ StartWindows \/ SkipLane \/ FinishLane \/ FeedLane \/ MaskLane \/ TickLanes
  \/ OutOfTicks \/ GradeLanes \/ ReturnFailures
=============================================================================
