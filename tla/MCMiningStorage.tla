--------------------------- MODULE MCMiningStorage ---------------------------
(* Three jobs for two places, one of them with two messages (its target cut  *)
(* at either end, its data longer and shorter), and two messages refused.    *)
(* Solutions, answers and the walk meet only in the active tasks and in the  *)
(* array, so each is explored with the calls that reach what it reads, and   *)
(* not in all combinations with the others.                                  *)
EXTENDS MiningStorage

Compact(a, b, c, e) ==
  [mantissa |-> [k \in 0..2 |-> CASE k = 0 -> a [] k = 1 -> b [] OTHER -> c], exponent |-> e]
Message(job, target, data, whole) ==
  [jobId |-> job, target |-> target, data |-> data, whole |-> whole]

OneEach == {
  Message(1, Compact(1, 2, 3, 1), <<7, 7>>, TRUE),
  Message(2, Compact(2, 3, 1, 4), <<>>, TRUE),
  Message(3, Compact(3, 3, 3, 3), <<6>>, TRUE) }

MCMessages == OneEach \cup {
  Message(1, Compact(3, 1, 2, 5), <<5>>, TRUE),
  Message(3, Compact(1, 1, 1, 3), <<6, 6, 6>>, TRUE),
  Message(2, Compact(1, 1, 1, 3), <<4>>, FALSE) }

Asks(tick, job) == [tick |-> tick, source |-> 1, taskId |-> job, solution |-> 1]
MCTransactions == {Asks(1, 1), Asks(1, 2), Asks(2, 1)}

VARIABLE focus

MCInit == Init /\ focus \in {"solutions", "answers", "walk"}
MCNext ==
  /\ UNCHANGED focus
  /\ \/ focus = "solutions" /\ (SolutionCall \/ \E msg \in Messages : AddTask(msg))
     \/ focus = "answers" /\ \E msg \in OneEach : AddTask(msg)
     \/ focus # "solutions" /\ QueryCall
     \/ focus = "walk" /\ (WalkOn \/ \E tick \in Ticks : StartWalk(tick))
MCSpec == MCInit /\ [][MCNext]_<<vars, focus>>
=============================================================================
