---------------------------- MODULE SolutionOutbox ----------------------------
(***************************************************************************)
(* What Qiner promises about the solutions its threads find: each is       *)
(* handed to the node at most once, whole, and in the order of finding.    *)
(***************************************************************************)
EXTENDS Sequences, Functions

CONSTANT Solutions

VARIABLES pending, handed
vars == <<pending, handed>>

Init == pending = <<>> /\ handed = <<>>

Find(solution) ==
  /\ solution \in Solutions \ (Range(pending) \cup Range(handed))
  /\ pending' = Append(pending, solution)
  /\ UNCHANGED handed

HandOver ==
  /\ pending # <<>>
  /\ handed' = Append(handed, Head(pending))
  /\ pending' = Tail(pending)

Next == HandOver \/ \E solution \in Solutions : Find(solution)

Spec == Init /\ [][Next]_vars
=============================================================================
