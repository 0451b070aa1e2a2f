---------------------------- MODULE ShareContract ----------------------------
(***************************************************************************)
(* What the stratum miner owes the pool: the pool issues its jobs one      *)
(* after the other; a submission names a job already issued, whose task    *)
(* is the one loaded here, and carries a nonce that scores well enough for *)
(* it.  ("Never spam invalid shares.")                                     *)
(***************************************************************************)
EXTENDS Integers, Sequences

CONSTANTS
  JobSeq,               \* the jobs of the pool in the order it issues them
  LocalTask,            \* the task this miner works on
  GoodNonce(_, _)       \* GoodNonce(job, nonce): the pool's own evaluation

VARIABLES
  issued,   \* how many jobs the pool has issued
  sent      \* the submissions made

Init == issued = 1 /\ sent = {}

Issue ==
  /\ issued < Len(JobSeq)
  /\ issued' = issued + 1
  /\ UNCHANGED sent

Submit ==
  /\ \E sub \in sent' \ sent, k \in 1..issued :
       LET job == JobSeq[k]
       IN  /\ sent' = sent \cup {sub}
           /\ sub.seed = job.seed /\ sub.pubkey = job.pubkey /\ sub.epoch = job.epoch
           /\ job.task = LocalTask
           /\ GoodNonce(job, sub.nonce)
  /\ UNCHANGED issued

Next == Issue \/ Submit
Spec == Init /\ [][Next]_<<issued, sent>>
=============================================================================
