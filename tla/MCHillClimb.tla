----------------------------- MODULE MCHillClimb -----------------------------
(* Small instance of HillClimb: two table lines (nine tables), two steps of *)
(* up to two mutations, every seed table, every root.                       *)
EXTENDS HillClimb

CONSTANTS l1, l2

\* 9 stands for INFINITE_ERROR.
MCScores == {0, 1, 2, 9}

\* Nonce byte 1 below 1 and above MAX_LUT_ENTRIES_PER_STEP.
MCRawLs == {0, 200}

\* Landscapes in which a step can improve, tie, worsen, time out, and improve
\* again after a rejected step; a function of a mix of both lines.
MCLandscapes ==
  {[table \in [{l1, l2} -> 0..2] |-> f[(table[l1] + 2 * table[l2]) % 3]] :
     f \in {[k \in 0..2 |-> k], [k \in 0..2 |-> IF k = 0 THEN 9 ELSE k],
            [k \in 0..2 |-> IF k = 2 THEN 1 ELSE k], [k \in 0..2 |-> 9]}}
MCSeedTables == SeedTable
=============================================================================
