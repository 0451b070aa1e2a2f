------------------------------ MODULE GpuKernel ------------------------------
(***************************************************************************)
(* GpuScorer of harness.mm and the kernel of kernel.metal: one dispatch    *)
(* scores a cohort of lookup tables, one thread per window, one            *)
(* threadgroup per TgSize windows of a candidate.  The threads of a group  *)
(* stage the candidate's rows in threadgroup memory, wait for each other,  *)
(* run their windows, and add up their failures by SIMD group in the       *)
(* candidate's result slot, which the host cleared before and reads after. *)
(*                                                                         *)
(* Inside a window a thread has only state of its own, so its tick loop is *)
(* one step, with the outcome of the reference network (the packing of     *)
(* trits in words is not modelled).  A command buffer may fail midway.     *)
(***************************************************************************)
EXTENDS TernaryNet, Sequences

CONSTANTS
  Cohort,        \* C, candidates of a dispatch
  TgSizes,       \* threadgroup sizes to try, in order
  PipelineMax,   \* maxTotalThreadsPerThreadgroup of the compiled pipeline
  SimdWidth,     \* threads of a SIMD group
  MaxDispatches  \* bound: dispatches of a behaviour

Cands == 1..Cohort

\* init keeps the first size the compiled pipeline supports.
Viable == {k \in 1..Len(TgSizes) : TgSizes[k] <= PipelineMax}
TgSize == TgSizes[CHOOSE k \in Viable : \A j \in Viable : k <= j]

ASSUME KernelAssumption ==
  /\ Cohort \in Nat \ {0} /\ SimdWidth \in Nat \ {0} /\ MaxDispatches \in Nat
  /\ TgSizes \in Seq(Nat \ {0}) /\ PipelineMax \in Nat
  /\ Viable # {}   \* otherwise init reports "no viable threadgroup size"

NumGroups == (NumWindows + TgSize - 1) \div TgSize
Groups == Cands \X (0..(NumGroups - 1))
Lanes == 0..(TgSize - 1)
NumUpdated == Cardinality(Updated)
Rows == 0..(NumUpdated - 1)   \* dense numbering of the updated neurons

WindowOf(g, lane) == g[2] * TgSize + lane
SimdGroup(i) == {lane \in Lanes : lane \div SimdWidth = i}
SimdGroups == {lane \div SimdWidth : lane \in Lanes}

VARIABLES
  pc,         \* the host: "idle" or "waiting" for the command buffer
  count,      \* dispatches so far
  batch,      \* lutBuf: the candidates' tables
  slots,      \* resBuf: per candidate failures and timeout flag
  thread,     \* position of every thread of the dispatch
  staged,     \* per threadgroup: rows of threadgroup memory that were written
  predicted,  \* per thread: what its window settled on
  out, ok     \* the last scores read back; score() returned true

vars == <<pc, count, batch, slots, thread, staged, predicted, out, ok>>

NothingPredicted == [g \in Groups |-> [lane \in Lanes |-> Timeout]]
Cleared == [c \in Cands |-> [failures |-> 0, timeout |-> FALSE]]

Init ==
  /\ pc = "idle" /\ count = 0
  /\ batch \in [Cands -> Luts]
  /\ slots = Cleared
  /\ thread = [g \in Groups |-> [lane \in Lanes |-> "done"]]
  /\ staged = [g \in Groups |-> {}]
  /\ predicted = NothingPredicted
  /\ out = [c \in Cands |-> 0] /\ ok = FALSE

-----------------------------------------------------------------------------
(* The host.                                                               *)

\* Pack the tables and commit.  Threadgroup memory starts undefined; the caller's
\* results mean nothing until the buffer has completed.
Commit(tables) ==
  /\ pc = "idle" /\ count < MaxDispatches
  /\ batch' = tables
  /\ thread' = [g \in Groups |-> [lane \in Lanes |-> "stage"]]
  /\ staged' = [g \in Groups |-> {}]
  /\ predicted' = NothingPredicted
  /\ out' = [c \in Cands |-> 0] /\ ok' = FALSE
  /\ pc' = "waiting" /\ count' = count + 1

\* Mutant: the result slots are not cleared.
DispatchOnOldSlots(tables) == Commit(tables) /\ UNCHANGED slots

\* score: the slots are cleared before the commit.
Dispatch(tables) == Commit(tables) /\ slots' = Cleared

\* The command buffer completed: read the slots.
Complete ==
  /\ pc = "waiting"
  /\ \A g \in Groups, lane \in Lanes : thread[g][lane] = "done"
  /\ out' = [c \in Cands |-> IF slots[c].timeout THEN INF ELSE slots[c].failures]
  /\ ok' = TRUE
  /\ pc' = "idle"
  /\ UNCHANGED <<count, batch, slots, thread, staged, predicted>>

\* The command buffer failed (watchdog): its threads are gone, its writes remain.
Fail ==
  /\ pc = "waiting"
  /\ ok' = FALSE
  /\ thread' = [g \in Groups |-> [lane \in Lanes |-> "done"]]
  /\ pc' = "idle"
  /\ UNCHANGED <<count, batch, slots, staged, predicted, out>>

-----------------------------------------------------------------------------
(* The threads.                                                            *)

MoveTo(g, lane, place) == thread' = [thread EXCEPT ![g][lane] = place]

\* Mutant: threads without a window return at once.
StageOrReturn(g, lane) ==
  /\ thread[g][lane] = "stage"
  /\ staged' = IF lane \in Rows THEN [staged EXCEPT ![g] = @ \cup {lane}] ELSE staged
  /\ MoveTo(g, lane, IF WindowOf(g, lane) >= NumWindows THEN "done" ELSE "barrier")
  /\ UNCHANGED <<pc, count, batch, slots, predicted, out, ok>>

\* Thread lane writes row lane, if there is such a row, and waits.
Stage(g, lane) ==
  /\ thread[g][lane] = "stage"
  /\ staged' = IF lane \in Rows THEN [staged EXCEPT ![g] = @ \cup {lane}] ELSE staged
  /\ MoveTo(g, lane, "barrier")
  /\ UNCHANGED <<pc, count, batch, slots, predicted, out, ok>>

\* Mutant: no thread waits for the others.
PassBarrierAlone(g) ==
  /\ \E lane \in Lanes :
       /\ thread[g][lane] = "barrier"
       /\ MoveTo(g, lane, IF WindowOf(g, lane) >= NumWindows THEN "done" ELSE "run")
  /\ UNCHANGED <<pc, count, batch, slots, staged, predicted, out, ok>>

\* All threads of the group are at the barrier; those beyond the last window return.
PassBarrier(g) ==
  /\ \A lane \in Lanes : thread[g][lane] = "barrier"
  /\ thread' = [thread EXCEPT ![g] =
       [lane \in Lanes |-> IF WindowOf(g, lane) >= NumWindows THEN "done" ELSE "run"]]
  /\ UNCHANGED <<pc, count, batch, slots, staged, predicted, out, ok>>

\* The tick loop.  A row that was never staged is uninitialised memory: any outcome.
RunWindow(g, lane) ==
  /\ thread[g][lane] = "run"
  /\ \E trit \in IF staged[g] = Rows THEN {Predictions[batch[g[1]]][WindowOf(g, lane)]}
                 ELSE 0..Timeout :
       predicted' = [predicted EXCEPT ![g][lane] = trit]
  /\ MoveTo(g, lane, IF predicted'[g][lane] = Timeout THEN "time out" ELSE "reduce")
  /\ UNCHANGED <<pc, count, batch, slots, staged, out, ok>>

\* atomic_store of the timeout flag.
FlagTimeout(g, lane) ==
  /\ thread[g][lane] = "time out"
  /\ slots' = [slots EXCEPT ![g[1]].timeout = TRUE]
  /\ MoveTo(g, lane, "done")
  /\ UNCHANGED <<pc, count, batch, staged, predicted, out, ok>>

\* What the lanes of group g add to the failures of their candidate.
Failed(g, lanes) == {lane \in lanes : predicted[g][lane] # Outputs[WindowOf(g, lane) + Width]}

\* simd_sum over the lanes of SIMD group i that are active together, added by the
\* first of them.  Which lanes reconverge after the tick loop is not assumed.
Reduce(g, i) ==
  \E active \in (SUBSET {lane \in SimdGroup(i) : thread[g][lane] = "reduce"}) \ {{}} :
    /\ slots' = [slots EXCEPT ![g[1]].failures = @ + Cardinality(Failed(g, active))]
    /\ thread' = [thread EXCEPT ![g] =
         [lane \in Lanes |-> IF lane \in active THEN "done" ELSE thread[g][lane]]]
    /\ UNCHANGED <<pc, count, batch, staged, predicted, out, ok>>

\* The threads run while the host waits for them.
Threads ==
  \E g \in Groups :
    \/ \E lane \in Lanes : Stage(g, lane) \/ RunWindow(g, lane) \/ FlagTimeout(g, lane)
    \/ PassBarrier(g)
    \/ \E i \in SimdGroups : Reduce(g, i)

Next ==
  \/ \E tables \in [Cands -> Luts] : Dispatch(tables)
  \/ Complete \/ Fail \/ Threads

Spec == Init /\ [][Next]_vars

\* The GPU makes progress, and the host sees the end of the command buffer.
FairSpec == Spec /\ WF_vars(Threads) /\ WF_vars(Complete)

-----------------------------------------------------------------------------
\* kernel.metal: the rows are "staged once per threadgroup".  No thread evaluates
\* its window before every row of its group has been written.
RowsStagedBeforeUse ==
  \A g \in Groups, lane \in Lanes : thread[g][lane] = "run" => staged[g] = Rows

\* The scores read back are those of the CPU scorer, candidate by candidate,
\* whatever the order of the threads and whatever an earlier dispatch, completed or
\* failed, left in the slots.
ReadsBackScores == (pc = "idle" /\ ok) => \A c \in Cands : out[c] = ScoreOf(batch[c])

\* A dispatch ends: no thread waits at the barrier for one that already returned.
DispatchEnds == pc = "waiting" ~> pc = "idle"
=============================================================================
