-------------------------------- MODULE Climb --------------------------------
(***************************************************************************)
(* What a search promises, one action per mutation step: the table it is   *)
(* on, that table's score and the best score so far.  The CPU search and   *)
(* every candidate of a Metal cohort are shown to implement this, which is *)
(* what "bit-exact" between the two means.                                 *)
(***************************************************************************)
EXTENDS AnnSearch

VARIABLES
  errs,    \* the landscape: task data and pool, fixed during a search
  seeds,   \* mutation seeds derived from pubkey and nonce
  L,       \* mutations per step
  step,    \* steps finished
  lut,     \* the table the search stands on
  cur,     \* its score
  best     \* the best score so far, returned at the end

vars == <<errs, seeds, L, step, lut, cur, best>>

Init ==
  /\ errs \in Landscapes
  /\ seeds \in SeedTables
  /\ L \in {ClampL(raw) : raw \in RawLs}
  /\ step = 0
  /\ lut \in LUT
  /\ cur = errs[lut]
  /\ best = cur

Step ==
  /\ step < NumSteps
  /\ step' = step + 1
  /\ LET tried == Mutated(lut, seeds[step + 1], L)
     IN  IF Accepts(errs[tried], cur)
         THEN lut' = tried /\ cur' = errs[tried]
         ELSE UNCHANGED <<lut, cur>>
  /\ best' = Lower(cur', best)
  /\ UNCHANGED <<errs, seeds, L>>

Spec == Init /\ [][Step]_vars
=============================================================================
