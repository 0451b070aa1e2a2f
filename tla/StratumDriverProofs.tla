-------------------------- MODULE StratumDriverProofs --------------------------
(***************************************************************************)
(* For every sequence of jobs of the pool, every miner and all bounds: the *)
(* driver has one socket or one pending reconnect, and submits only for    *)
(* jobs the pool issued whose task is the one loaded here.                 *)
(*                                                                         *)
(* The lemmas are about every step that leaves the driver's own state to   *)
(* the driver, so that they hold for it composed with a real miner too.    *)
(***************************************************************************)
EXTENDS StratumDriver, TLAPS

\* The jobs the pool has issued so far.
Issued == {JobSeq[k] : k \in 1..poolIdx}

-----------------------------------------------------------------------------
(* The inductive invariant.                                                *)

DriverTypeOK ==
  /\ ws \in {"null", "connecting", "open", "closing"} /\ timer \in BOOLEAN
  /\ taskMatches \in BOOLEAN
  /\ poolIdx \in 1..Len(JobSeq)
  /\ inbox \in Seq(PoolJobs \cup {Idle})

\* What is in flight and what the driver remembers was issued by the pool.
JobsIssued ==
  /\ \A k \in 1..Len(inbox) : inbox[k] \in Issued \cup {Idle}
  /\ currentJob \in Issued \cup {None}

\* The verdict on the task is that on the current job, and the remembered key
\* is the current job's.
VerdictOnCurrent ==
  /\ taskMatches => currentJob \in Issued /\ currentJob.task = LocalTask
  /\ currentJob = None => lastJobKey = None
  /\ currentJob # None => lastJobKey = JobKey(currentJob)

\* Every submission names an issued job and its task, the loaded one.
SentIssued ==
  \A sub \in sent : \E j \in Issued :
    /\ j.seed = sub.seed /\ j.pubkey = sub.pubkey /\ j.epoch = sub.epoch
    /\ j.task = sub.task /\ sub.task = LocalTask

DInv == DriverTypeOK /\ OneConnection /\ JobsIssued /\ VerdictOnCurrent /\ SentIssued

\* A step of the driver, of the pool, or of something that touches neither.
DStep ==
  \/ Driver \/ Watchdog \/ Sigint \/ ProcessExit \/ Pool
  \/ UNCHANGED <<conn, poolIdx, jobs, alive, sent>>

-----------------------------------------------------------------------------
LEMMA IssuedGrows == ASSUME DriverTypeOK, PoolNextJob PROVE Issued \subseteq Issued'
<1>1. 1..poolIdx \subseteq 1..poolIdx'
  BY DEF DriverTypeOK, PoolNextJob
<1> QED
  BY <1>1 DEF Issued

LEMMA IssuedAreJobs ==
  ASSUME DriverTypeOK PROVE JobSeq[poolIdx] \in Issued /\ Issued \subseteq PoolJobs
<1>1. 1..poolIdx \subseteq 1..Len(JobSeq) /\ poolIdx \in 1..poolIdx
  BY DriverAssumption DEF DriverTypeOK
<1> QED
  BY <1>1 DEF Issued, PoolJobs

LEMMA InitDInv == Init => DInv
<1> SUFFICES ASSUME Init PROVE DInv
  OBVIOUS
<1>1. poolIdx \in 1..Len(JobSeq)
  BY DriverAssumption DEF Init
<1>2. inbox \in Seq(PoolJobs \cup {Idle}) /\ Len(inbox) = 0
  BY DEF Init
<1>3. DriverTypeOK
  BY <1>1, <1>2 DEF Init, DriverTypeOK
<1>4. JobsIssued /\ VerdictOnCurrent /\ SentIssued
  BY <1>2 DEF Init, JobsIssued, VerdictOnCurrent, SentIssued
<1> QED
  BY <1>3, <1>4 DEF Init, DInv, OneConnection

\* The job at the head of the inbox becomes the current one: it was issued.
LEMMA PushedJob ==
  ASSUME DInv, PushJob
  PROVE  /\ currentJob' = Head(inbox) /\ currentJob' \in Issued
         /\ currentJob' \in PoolJobs
         /\ taskMatches' = (currentJob'.task = LocalTask)
         /\ lastJobKey' = JobKey(currentJob')
<1>1. inbox # <<>> /\ inbox \in Seq(PoolJobs \cup {Idle}) /\ Head(inbox) # Idle
  BY DEF DInv, DriverTypeOK, PushJob
<1>2. Head(inbox) = inbox[1] /\ 1 \in 1..Len(inbox)
  BY <1>1
<1>3. Head(inbox) \in Issued
  BY <1>1, <1>2 DEF DInv, JobsIssued
<1>4. Head(inbox) \in PoolJobs
  BY <1>3, IssuedAreJobs DEF DInv
<1> QED
  BY <1>3, <1>4 DEF PushJob

\* A submission comes from a verdict that is still that of the current job.
LEMMA SubmittedJob ==
  ASSUME DInv, SubmitShare
  PROVE  /\ currentJob \in Issued /\ currentJob.task = LocalTask
         /\ currentJob.pubkey = Head(stdout).pubkey
         /\ sent' = sent \cup {Submission(Head(stdout))}
<1>1. taskMatches /\ ~ Stale(Head(stdout))
  BY DEF SubmitShare, MaySubmit
<1> QED
  BY <1>1 DEF SubmitShare, Stale, DInv, VerdictOnCurrent

-----------------------------------------------------------------------------
(* Each part of the invariant is kept by every step.                       *)

LEMMA NextDriverType == DInv /\ DStep => DriverTypeOK'
<1> SUFFICES ASSUME DInv, DStep PROVE DriverTypeOK'
  OBVIOUS
<1> DriverTypeOK
  BY DEF DInv
<1> USE DEF conn, jobs, pipes, DriverTypeOK
<1>1. CASE Open \/ Reconnect \/ Watchdog
  BY <1>1 DEF Open, Reconnect, Watchdog
<1>11. CASE Close \/ ProcessExit
  <2>1. inbox' = <<>> /\ <<>> \in Seq(PoolJobs \cup {Idle})
    BY <1>11 DEF Close, ProcessExit
  <2> QED
    BY <1>11, <2>1 DEF Close, ProcessExit
<1>2. CASE PushJob
  <2>1. inbox' \in Seq(PoolJobs \cup {Idle}) /\ taskMatches' \in BOOLEAN
    BY <1>2 DEF PushJob
  <2> QED
    BY <1>2, <2>1 DEF PushJob
<1>3. CASE IdleJob
  BY <1>3 DEF IdleJob
<1>4. CASE OnShare
  BY <1>4 DEF OnShare, SubmitShare, DropShare
<1>5. CASE Sigint
  BY <1>5 DEF Sigint
<1>6. CASE PoolAcceptsLogin
  BY <1>6 DEF PoolAcceptsLogin
<1>7. ASSUME NEW m \in PoolJobs \cup {Idle}, PoolSends(m) PROVE DriverTypeOK'
  BY <1>7 DEF PoolSends
<1>8. CASE PoolNextJob
  BY <1>8, DriverAssumption DEF PoolNextJob
<1>9. CASE UNCHANGED <<conn, poolIdx, jobs, alive, sent>>
  BY <1>9
<1>10. JobSeq[poolIdx] \in PoolJobs
  BY IssuedAreJobs
<1> QED
  BY <1>1, <1>2, <1>3, <1>4, <1>5, <1>6, <1>7, <1>8, <1>9, <1>10, <1>11 DEF DStep, Driver, Pool

LEMMA NextOneConnection == DInv /\ DStep => OneConnection'
<1> SUFFICES ASSUME DInv, DStep PROVE OneConnection'
  OBVIOUS
<1> DriverTypeOK /\ OneConnection
  BY DEF DInv
<1> USE DEF conn, jobs, pipes, DriverTypeOK, OneConnection
<1>1. CASE Open \/ Close \/ Reconnect
  BY <1>1 DEF Open, Close, Reconnect
<1>2. CASE Watchdog
  BY <1>2 DEF Watchdog
<1>3. CASE PushJob \/ IdleJob \/ OnShare
  BY <1>3 DEF PushJob, IdleJob, OnShare, SubmitShare, DropShare
<1>4. CASE Sigint \/ ProcessExit
  BY <1>4 DEF Sigint, ProcessExit
<1>5. CASE Pool
  BY <1>5 DEF Pool, PoolAcceptsLogin, PoolSends, PoolNextJob
<1>6. CASE UNCHANGED <<conn, poolIdx, jobs, alive, sent>>
  BY <1>6
<1> QED
  BY <1>1, <1>2, <1>3, <1>4, <1>5, <1>6 DEF DStep, Driver

LEMMA NextJobsIssued == DInv /\ DStep => JobsIssued'
<1> SUFFICES ASSUME DInv, DStep PROVE JobsIssued'
  OBVIOUS
<1> DriverTypeOK /\ JobsIssued
  BY DEF DInv
<1> USE DEF conn, jobs, pipes, JobsIssued
<1>1. CASE Open \/ Reconnect \/ Watchdog \/ OnShare \/ Sigint \/ PoolAcceptsLogin
           \/ UNCHANGED <<conn, poolIdx, jobs, alive, sent>>
  BY <1>1 DEF Open, Reconnect, Watchdog, OnShare, SubmitShare, DropShare, Sigint,
              PoolAcceptsLogin, Issued
<1>2. CASE Close \/ ProcessExit
  BY <1>2 DEF Close, ProcessExit, Issued
<1>3. ASSUME inbox # <<>>, inbox' = Tail(inbox)
      PROVE  \A k \in 1..Len(inbox') : inbox'[k] \in Issued \cup {Idle}
  <2>1. inbox \in Seq(PoolJobs \cup {Idle})
    BY DEF DriverTypeOK
  <2>2. \A k \in 1..Len(inbox') : inbox'[k] = inbox[k + 1] /\ k + 1 \in 1..Len(inbox)
    BY <1>3, <2>1
  <2> QED
    BY <2>2
<1>4. CASE PushJob
  <2>1. Issued' = Issued /\ inbox # <<>> /\ inbox' = Tail(inbox)
    BY <1>4 DEF PushJob, Issued
  <2> QED
    BY <1>3, <1>4, <2>1, PushedJob
<1>5. CASE IdleJob
  <2>1. Issued' = Issued /\ inbox # <<>> /\ inbox' = Tail(inbox)
    BY <1>5 DEF IdleJob, Issued
  <2> QED
    BY <1>3, <1>5, <2>1 DEF IdleJob
<1>6. ASSUME NEW m \in Issued \cup {Idle}, PoolSends(m) PROVE JobsIssued'
  <2>1. inbox \in Seq(PoolJobs \cup {Idle}) /\ inbox' = Append(inbox, m)
        /\ Issued' = Issued
    BY <1>6 DEF DriverTypeOK, PoolSends, Issued
  <2>2. \A k \in 1..Len(inbox') :
          inbox'[k] = m \/ (k \in 1..Len(inbox) /\ inbox'[k] = inbox[k])
    BY <2>1
  <2> QED
    BY <1>6, <2>1, <2>2 DEF PoolSends
<1>7. CASE PoolNextJob
  BY <1>7, IssuedGrows DEF PoolNextJob
<1>8. JobSeq[poolIdx] \in Issued
  BY IssuedAreJobs
<1> QED
  BY <1>1, <1>2, <1>4, <1>5, <1>6, <1>7, <1>8 DEF DStep, Driver, Pool

LEMMA NextVerdict == DInv /\ DStep => VerdictOnCurrent'
<1> SUFFICES ASSUME DInv, DStep PROVE VerdictOnCurrent'
  OBVIOUS
<1> DriverTypeOK /\ VerdictOnCurrent
  BY DEF DInv
<1> USE DEF conn, jobs, pipes, VerdictOnCurrent
<1>1. CASE PushJob
  <2>1. Issued' = Issued
    BY <1>1 DEF PushJob, Issued
  <2>2. currentJob' # None
    BY <1>1, PushedJob, KeyAssumption
  <2> QED
    BY <1>1, <2>1, <2>2, PushedJob
<1>2. CASE PoolNextJob
  BY <1>2, IssuedGrows DEF PoolNextJob
<1>3. CASE UNCHANGED <<jobs, poolIdx>>
  BY <1>3 DEF Issued, JobKey
<1>4. CASE Watchdog
  BY <1>4 DEF Watchdog, Issued, JobKey
<1>5. UNCHANGED <<jobs, poolIdx>> \/ Watchdog \/ PushJob \/ PoolNextJob
  BY DEF DStep, Driver, Pool, Open, Close, Reconnect, IdleJob, OnShare, SubmitShare,
         DropShare, Sigint, ProcessExit, PoolAcceptsLogin, PoolSends
<1> QED
  BY <1>1, <1>2, <1>3, <1>4, <1>5

LEMMA NextSentIssued == DInv /\ DStep => SentIssued'
<1> SUFFICES ASSUME DInv, DStep PROVE SentIssued'
  OBVIOUS
<1> DriverTypeOK /\ SentIssued
  BY DEF DInv
<1> USE DEF conn, jobs, pipes, SentIssued
<1>1. CASE SubmitShare
  <2>1. Issued' = Issued
    BY <1>1 DEF SubmitShare, Issued
  <2> QED
    BY <1>1, <2>1, SubmittedJob DEF Submission
<1>2. CASE PoolNextJob
  BY <1>2, IssuedGrows DEF PoolNextJob
<1>3. CASE UNCHANGED <<sent, poolIdx>>
  BY <1>3 DEF Issued
<1>4. UNCHANGED <<sent, poolIdx>> \/ SubmitShare \/ PoolNextJob
  BY DEF DStep, Driver, Pool, Open, Close, Reconnect, Watchdog, PushJob, IdleJob, OnShare,
         DropShare, Sigint, ProcessExit, PoolAcceptsLogin, PoolSends
<1> QED
  BY <1>1, <1>2, <1>3, <1>4

LEMMA StepDInv == DInv /\ DStep => DInv'
BY NextDriverType, NextOneConnection, NextJobsIssued, NextVerdict, NextSentIssued DEF DInv

LEMMA NextIsDStep == [Next]_vars => DStep
BY DEF Next, DStep, MinerReads, MinerPrints, vars, conn, jobs, pipes

THEOREM SpecDInv == Spec => []DInv
BY InitDInv, StepDInv, NextIsDStep, PTL DEF Spec

\* Whatever the pool, the network and the timers do: while it runs, the driver has
\* either its one socket or one reconnect pending.
THEOREM SpecOneConnection == Spec => []OneConnection
<1>1. DInv => OneConnection
  BY DEF DInv
<1> QED
  BY SpecDInv, <1>1, PTL

\* No submission for a job that was never issued or that works on another task,
\* although the verdict on the task is taken at a job and used at a later share.
THEOREM SpecSubmitsLoadedTaskOnly == Spec => []SubmitsLoadedTaskOnly
<1>1. DInv => SubmitsLoadedTaskOnly
  BY IssuedAreJobs DEF DInv, SentIssued, SubmitsLoadedTaskOnly
<1> QED
  BY SpecDInv, <1>1, PTL
=============================================================================
