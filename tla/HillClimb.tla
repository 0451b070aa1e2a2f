------------------------------ MODULE HillClimb ------------------------------
(***************************************************************************)
(* Miner::computeScore of score_bpp9000.h, the CPU search (the copy in     *)
(* qiner-metal/src/score_bpp9000_ref.h is the same text).  One action per  *)
(* statement that changes state: snapshot, one mutation, score with        *)
(* accept-or-rollback and best-keeping.                                    *)
(***************************************************************************)
EXTENDS AnnSearch

VARIABLES
  errs,      \* score(): the landscape of the loaded task and pool
  seeds,     \* initValue.mutationSeed
  L,         \* mutations per step, clamped from nonce byte 1
  pc, s, i,  \* control: loop position, step index, mutation index
  currentANN, prevANN, bestANN,
  cur, best

vars == <<errs, seeds, L, pc, s, i, currentANN, prevANN, bestANN, cur, best>>

\* computeScore up to its loop: L clamped, initializeANN builds the root table
\* and scores it, bestANN copies it.  (prevANN is scratch: any old table.)
Init ==
  /\ errs \in Landscapes
  /\ seeds \in SeedTables
  /\ L \in {ClampL(raw) : raw \in RawLs}
  /\ pc = "snapshot"
  /\ s = 0
  /\ i = 0
  /\ currentANN \in LUT
  /\ prevANN = currentANN
  /\ bestANN = currentANN
  /\ cur = errs[currentANN]
  /\ best = cur

\* memcpy(&prevANN, &currentANN)
Snapshot ==
  /\ pc = "snapshot"
  /\ s < NumSteps
  /\ prevANN' = currentANN
  /\ i' = 0
  /\ pc' = "mutate"
  /\ UNCHANGED <<errs, seeds, L, s, currentANN, bestANN, cur, best>>

\* Mutant: every mutation of a step takes the first seed of its row.
MutateOneFirstSeed ==
  /\ pc = "mutate" /\ i < L
  /\ currentANN' = Mutate(currentANN, seeds[s + 1][1])
  /\ i' = i + 1
  /\ UNCHANGED <<errs, seeds, L, pc, s, prevANN, bestANN, cur, best>>

MutateOne ==
  /\ pc = "mutate"
  /\ i < L
  /\ currentANN' = Mutate(currentANN, seeds[s + 1][i + 1])
  /\ i' = i + 1
  /\ UNCHANGED <<errs, seeds, L, pc, s, prevANN, bestANN, cur, best>>

\* Mutant: a better table is not copied to bestANN.
AcceptScoreOnly ==
  /\ pc = "mutate" /\ i = L
  /\ Accepts(errs[currentANN], cur)
  /\ cur' = errs[currentANN]
  /\ best' = Lower(cur', best)
  /\ s' = s + 1 /\ pc' = "snapshot"
  /\ UNCHANGED <<errs, seeds, L, i, currentANN, prevANN, bestANN>>

\* The body after the mutations, for an accepted table ...
Accept ==
  /\ pc = "mutate"
  /\ i = L
  /\ Accepts(errs[currentANN], cur)
  /\ cur' = errs[currentANN]
  /\ IF cur' < best
     THEN best' = cur' /\ bestANN' = currentANN
     ELSE UNCHANGED <<best, bestANN>>
  /\ s' = s + 1
  /\ pc' = "snapshot"
  /\ UNCHANGED <<errs, seeds, L, i, currentANN, prevANN>>

\* Mutant: the rejected table is kept.
RejectWithoutRollback ==
  /\ pc = "mutate" /\ i = L
  /\ ~ Accepts(errs[currentANN], cur)
  /\ s' = s + 1 /\ pc' = "snapshot"
  /\ UNCHANGED <<errs, seeds, L, i, currentANN, prevANN, bestANN, cur, best>>

\* ... and for a rejected one: roll back; the best-keeping test still runs.
Reject ==
  /\ pc = "mutate"
  /\ i = L
  /\ ~ Accepts(errs[currentANN], cur)
  /\ currentANN' = prevANN
  /\ IF cur < best
     THEN best' = cur /\ bestANN' = prevANN
     ELSE UNCHANGED <<best, bestANN>>
  /\ s' = s + 1
  /\ pc' = "snapshot"
  /\ UNCHANGED <<errs, seeds, L, i, prevANN, cur>>

Return ==
  /\ pc = "snapshot"
  /\ s = NumSteps
  /\ pc' = "done"
  /\ UNCHANGED <<errs, seeds, L, s, i, currentANN, prevANN, bestANN, cur, best>>

Next == Snapshot \/ MutateOne \/ Accept \/ Reject \/ Return

Spec == Init /\ [][Next]_vars

-----------------------------------------------------------------------------
(* Types.                                                                  *)
TypeOK ==
  /\ errs \in Landscapes
  /\ seeds \in SeedTable
  /\ L \in 1..MaxL
  /\ pc \in {"snapshot", "mutate", "done"}
  /\ s \in 0..NumSteps
  /\ i \in 0..L
  /\ currentANN \in LUT
  /\ prevANN \in LUT
  /\ bestANN \in LUT
  /\ cur \in Scores
  /\ best \in Scores
  /\ pc = "mutate" => s < NumSteps

\* The running score always belongs to the table the search can return to: the
\* current one between steps, the snapshot while a step is under way.  This is
\* what the one-step rollback of computeScore has to keep up.
CurMatchesTable ==
  cur = IF pc = "mutate" THEN errs[prevANN] ELSE errs[currentANN]

\* The returned score is the score of the table kept in bestANN: the copy and the
\* number are updated in the same test and never drift apart.
BestMatchesBestANN == best = errs[bestANN]

\* With the explore phase disabled (K = 0) the search never leaves its best
\* score: a worse table is always rolled back, so both scores agree throughout.
NeverLeavesBest == best = cur

\* The CPU search implements the abstract one: between steps it stands on
\* currentANN, inside a step still on the snapshot.
Abstract == INSTANCE Climb WITH
  step <- s,
  lut  <- IF pc = "mutate" THEN prevANN ELSE currentANN
ImplementsClimb == Abstract!Spec
=============================================================================
