---------------------------- MODULE MCCohortClimb ----------------------------
(* Two candidates, two steps, one or two mutations per step, on two lines.  *)
EXTENDS CohortClimb

CONSTANTS l1, l2

MCScores == {0, 1, 2, 9}
MCRawLs == {1, 2}

MCLandscapes ==
  {[table \in [{l1, l2} -> 0..2] |-> f[(table[l1] + 2 * table[l2]) % 3]] :
     f \in {[k \in 0..2 |-> k], [k \in 0..2 |-> IF k = 2 THEN 1 ELSE k]}}

\* Seeds that let the two candidates move apart: improve then worsen, worsen
\* then improve, two mutations that cancel, moves on the other line.
Up(l)   == [line |-> l, delta |-> 0]
Down(l) == [line |-> l, delta |-> 1]
MCSeedTables ==
  { <<<<Up(l1), Up(l2)>>, <<Down(l1), Down(l1)>>>>,
    <<<<Down(l1), Up(l1)>>, <<Up(l2), Up(l1)>>>>,
    <<<<Down(l2), Down(l2)>>, <<Down(l1), Up(l2)>>>>,
    <<<<Up(l2), Down(l1)>>, <<Down(l2), Up(l2)>>>> }
=============================================================================
