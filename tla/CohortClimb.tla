----------------------------- MODULE CohortClimb -----------------------------
(***************************************************************************)
(* runCohortGPU of harness.mm: the search of Cohort nonces in lockstep,    *)
(* one GPU dispatch per step for all of them.  The host mutates candidate  *)
(* after candidate, dispatches, then accepts or rolls back candidate after *)
(* candidate.  Between steps the loop test may find that the miner was     *)
(* stopped or that a new job arrived (interrupted), and a dispatch may     *)
(* fail (the macOS GPU watchdog).                                          *)
(***************************************************************************)
EXTENDS AnnSearch

CONSTANT Cohort   \* number of nonces advanced together (COHORT)

ASSUME CohortAssumption == Cohort \in Nat \ {0}

Cands == 1..Cohort

VARIABLES
  errs,              \* the landscape of the compiled kernel and its buffers
  lut0,              \* the initial table, shared by the cohort
  seeds, L,          \* per candidate: mutation seeds, mutations per step
  lut, prev,         \* per candidate: table and its snapshot
  cur, best,         \* per candidate: running and best score
  luts, r,           \* dispatch buffers: tables in, scores out
  pc, s, n, i,       \* control: step, candidate and mutation index
  interrupted,       \* g_stop is set or g_gen differs from entryGen
  bestOut            \* what the caller reads after a return of true

cand == <<errs, lut0, seeds, L>>
vars == <<cand, lut, prev, cur, best, luts, r, pc, s, n, i, interrupted, bestOut>>

Init ==
  /\ errs \in Landscapes
  /\ lut0 \in LUT
  /\ seeds \in [Cands -> SeedTables]
  /\ L \in [Cands -> {ClampL(raw) : raw \in RawLs}]
  /\ lut = [k \in Cands |-> lut0]
  /\ prev = lut
  /\ cur = [k \in Cands |-> errs[lut0]]
  /\ best = cur
  /\ luts = lut
  /\ r = cur
  /\ pc = "test" /\ s = 0 /\ n = 1 /\ i = 0
  /\ interrupted = FALSE
  /\ bestOut = <<>>

\* The stdin reader adopts a new job, or a signal or end of input stops the miner.
Interrupt ==
  /\ ~ interrupted /\ pc # "returned"
  /\ interrupted' = TRUE
  /\ UNCHANGED <<cand, lut, prev, cur, best, luts, r, pc, s, n, i, bestOut>>

Snapshot(k) ==
  /\ prev' = [prev EXCEPT ![k] = lut[k]]
  /\ n' = k
  /\ i' = 0

BeginStep ==
  /\ pc = "test" /\ s < NumSteps /\ ~ interrupted
  /\ Snapshot(1)
  /\ pc' = "mutate"
  /\ UNCHANGED <<cand, lut, cur, best, luts, r, s, interrupted, bestOut>>

\* Mutant: all candidates use the seeds of the first nonce.
MutateOneSharedSeeds ==
  /\ pc = "mutate" /\ i < L[n]
  /\ lut' = [lut EXCEPT ![n] = Mutate(@, seeds[1][s + 1][i + 1])]
  /\ i' = i + 1
  /\ UNCHANGED <<cand, prev, cur, best, luts, r, pc, s, n, interrupted, bestOut>>

MutateOne ==
  /\ pc = "mutate" /\ i < L[n]
  /\ lut' = [lut EXCEPT ![n] = Mutate(@, seeds[n][s + 1][i + 1])]
  /\ i' = i + 1
  /\ UNCHANGED <<cand, prev, cur, best, luts, r, pc, s, n, interrupted, bestOut>>

\* The mutated table goes into the dispatch buffer; on to the next candidate.
CopyLut ==
  /\ pc = "mutate" /\ i = L[n]
  /\ luts' = [luts EXCEPT ![n] = lut[n]]
  /\ IF n < Cohort
     THEN Snapshot(n + 1) /\ pc' = pc
     ELSE pc' = "dispatch" /\ UNCHANGED <<prev, n, i>>
  /\ UNCHANGED <<cand, lut, cur, best, r, s, interrupted, bestOut>>

Dispatch ==
  /\ pc = "dispatch"
  /\ r' = [k \in Cands |-> errs[luts[k]]]
  /\ n' = 1
  /\ pc' = "accept"
  /\ UNCHANGED <<cand, lut, prev, cur, best, luts, s, i, interrupted, bestOut>>

\* gpu.score returned false: give up without results.
DispatchFails ==
  /\ pc = "dispatch"
  /\ pc' = "failed"
  /\ UNCHANGED <<cand, lut, prev, cur, best, luts, r, s, n, i, interrupted, bestOut>>

\* Mutant: the table of a rejected step is kept.
AcceptWithoutRollback ==
  /\ pc = "accept"
  /\ cur' = [cur EXCEPT ![n] = Lower(r[n], @)]
  /\ best' = [best EXCEPT ![n] = Lower(cur'[n], @)]
  /\ IF n < Cohort
     THEN n' = n + 1 /\ UNCHANGED <<pc, s>>
     ELSE s' = s + 1 /\ pc' = "test" /\ UNCHANGED n
  /\ UNCHANGED <<cand, lut, prev, luts, r, i, interrupted, bestOut>>

AcceptOrRollback ==
  /\ pc = "accept"
  /\ IF Accepts(r[n], cur[n])
     THEN cur' = [cur EXCEPT ![n] = r[n]] /\ UNCHANGED lut
     ELSE lut' = [lut EXCEPT ![n] = prev[n]] /\ UNCHANGED cur
  /\ best' = [best EXCEPT ![n] = Lower(cur'[n], @)]
  /\ IF n < Cohort
     THEN n' = n + 1 /\ UNCHANGED <<pc, s>>
     ELSE s' = s + 1 /\ pc' = "test" /\ UNCHANGED n
  /\ UNCHANGED <<cand, prev, luts, r, i, interrupted, bestOut>>

\* All steps done, or abandoned between two steps: report the best so far.
Return ==
  /\ pc = "test" /\ (s = NumSteps \/ interrupted)
  /\ bestOut' = best
  /\ pc' = "returned"
  /\ UNCHANGED <<cand, lut, prev, cur, best, luts, r, s, n, i, interrupted>>

Next ==
  \/ Interrupt
  \/ BeginStep \/ MutateOne \/ CopyLut
  \/ Dispatch \/ DispatchFails
  \/ AcceptOrRollback \/ Return

Spec == Init /\ [][Next]_vars

-----------------------------------------------------------------------------
\* Candidate k has a snapshot and its step is not decided yet.
InStep(k) ==
  \/ pc = "mutate" /\ k <= n
  \/ pc \in {"dispatch", "failed"}
  \/ pc = "accept" /\ k >= n

StepsDone(k) == IF pc = "accept" /\ k < n THEN s + 1 ELSE s

\* Every candidate of the cohort performs the same search as the CPU miner: the
\* batching, the shared buffers and the lockstep are invisible to each nonce.
Search(k) == INSTANCE Climb WITH
  seeds <- seeds[k],
  L     <- L[k],
  step  <- StepsDone(k),
  lut   <- IF InStep(k) THEN prev[k] ELSE lut[k],
  cur   <- cur[k],
  best  <- best[k]
ImplementsClimb ==
  /\ \A k \in Cands : Search(k)!Init
  /\ [][\A k \in Cands : Search(k)!Step \/ UNCHANGED Search(k)!vars]_vars

\* A result that is reported is never better than what the full search of that
\* nonce returns (the pool repeats the full search), and it is exactly that
\* score when the cohort was not abandoned.
ReportIsSound ==
  pc = "returned" =>
    \A k \in Cands :
      LET full == FullClimb(errs, lut0, seeds[k], L[k])
      IN  bestOut[k] >= full /\ (s = NumSteps => bestOut[k] = full)
=============================================================================
