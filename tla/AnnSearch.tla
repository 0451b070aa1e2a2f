------------------------------ MODULE AnnSearch ------------------------------
(***************************************************************************)
(* The data the bpp9000 search works on, shared by the CPU search          *)
(* (score_bpp9000.h) and the Metal cohort search (harness.mm).             *)
(*                                                                         *)
(* Only the lookup tables of the updated neurons change during a search.   *)
(* A lookup table is a function from its lines to trits; the score of a    *)
(* table is a number of failed windows, or INFINITE_ERROR (the greatest    *)
(* score) when a window timed out.  What a score IS does not matter here:  *)
(* a landscape gives every table a score (a deterministic function of the  *)
(* table once the task and the pool are loaded).                           *)
(***************************************************************************)
EXTENDS Integers

CONSTANTS
  Lines,      \* the (neuron, row) lines a mutation can touch
  NumSteps,   \* NUMBER_OF_MUTATIONS (100)
  MaxL,       \* MAX_LUT_ENTRIES_PER_STEP (10)
  Scores,     \* 0 .. number of windows, and INFINITE_ERROR
  Landscapes, \* the tasks considered: each gives every table its score
  SeedTables, \* the mutation seeds (pubkey, nonce, pool) considered
  RawLs       \* the values of nonce byte 1 that are considered

ASSUME SearchAssumption ==
  /\ NumSteps \in Nat
  /\ MaxL \in Nat \ {0}
  /\ Scores \subseteq Nat
  /\ RawLs \subseteq Nat

Trit == 0..2
LUT == [Lines -> Trit]

ASSUME LandscapeAssumption == Landscapes \subseteq [LUT -> Scores]

\* A mutation seed, decoded: bit 0 picks the new trit, the rest the line.
Mutation == [line : Lines, delta : {0, 1}]

\* One row of seeds per step, MaxL seeds each, of which a search uses the first L.
SeedTable == [1..NumSteps -> [1..MaxL -> Mutation]]

ASSUME SeedAssumption == SeedTables \subseteq SeedTable

Mutate(lut, m) == [lut EXCEPT ![m.line] = (@ + 1 + m.delta) % 3]

\* Mutant: the upper clamp is missing.
ClampLFromBelow(raw) == IF raw < 1 THEN 1 ELSE raw

\* The number of mutations per step that a nonce asks for, clamped to 1..MaxL.
ClampL(raw) == IF raw < 1 THEN 1 ELSE IF raw > MaxL THEN MaxL ELSE raw

\* Mutant: the accept rule of the explore phase.
AcceptsWorse(r, cur) == r >= cur

\* Accept rule of the exploit phase (K = 0): never worse, equal yes.
Accepts(r, cur) == r <= cur

Lower(a, b) == IF a < b THEN a ELSE b

-----------------------------------------------------------------------------
(* Reference definition of the whole search, written without its loop: the *)
(* table after the first n mutations of a row, the state <<table, score>>  *)
(* after each step, and the score the search returns.                      *)

Mutated(base, row, n) ==
  LET after[i \in 0..n] == IF i = 0 THEN base ELSE Mutate(after[i - 1], row[i])
  IN  after[n]

FullClimb(errs, root, seeds, L) ==
  LET at[s \in 0..NumSteps] ==
        IF s = 0 THEN root
        ELSE LET next == Mutated(at[s - 1], seeds[s], L)
             IN  IF Accepts(errs[next], errs[at[s - 1]]) THEN next ELSE at[s - 1]
  IN  errs[at[NumSteps]]
=============================================================================
