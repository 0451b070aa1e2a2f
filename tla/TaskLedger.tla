----------------------------- MODULE TaskLedger -----------------------------
(***************************************************************************)
(* What a node owes its miners: it works on the newest few tasks, and each *)
(* of them has its own account of the solutions received and of those      *)
(* counted for revenue; an account starts empty and never forgets.         *)
(***************************************************************************)
EXTENDS FiniteSets, SequencesExt

CONSTANTS Jobs, Solutions, MaxNumTasks, MaxNumSolutionsPerTask

VARIABLES
  active,     \* the active tasks, oldest first
  received,   \* [job -> solutions received for it]
  counted     \* [job -> solutions counted for it]

ledger == <<active, received, counted>>

Init ==
  /\ active = <<>>
  /\ received = [j \in Jobs |-> {}] /\ counted = received

\* A new task, and with every place taken the oldest one goes; the accounts of tasks
\* that are not active are empty.
AddTask(job) ==
  /\ job \notin ToSet(active)
  /\ active' = Append(IF Len(active) = MaxNumTasks THEN Tail(active) ELSE active, job)
  /\ LET kept(account) ==
           [j \in Jobs |-> IF j \in ToSet(active') \ {job} THEN account[j] ELSE {}]
     IN  received' = kept(received) /\ counted' = kept(counted)

Enters(account, job, solution) ==
  /\ job \in ToSet(active)
  /\ solution \notin account[job]
  /\ Cardinality(account[job]) < MaxNumSolutionsPerTask

Receive(job, solution) ==
  /\ Enters(received, job, solution)
  /\ received' = [received EXCEPT ![job] = @ \cup {solution}]
  /\ UNCHANGED <<active, counted>>

Count(job, solution) ==
  /\ Enters(counted, job, solution)
  /\ counted' = [counted EXCEPT ![job] = @ \cup {solution}]
  /\ UNCHANGED <<active, received>>

Next ==
  \E job \in Jobs : AddTask(job) \/ \E s \in Solutions : Receive(job, s) \/ Count(job, s)

Spec == Init /\ [][Next]_ledger
=============================================================================
