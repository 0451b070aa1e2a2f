--------------------------- MODULE StratumPipeline ---------------------------
(***************************************************************************)
(* Driver and harness joined by their pipes: pool -> WebSocket -> driver   *)
(* -> stdin -> reader thread -> main loop -> cohort -> stdout -> driver    *)
(* -> pool.  A job change can fall between any two of these; a share is    *)
(* computed under one job and submitted under whatever job the driver      *)
(* knows when it reads it.                                                 *)
(***************************************************************************)
EXTENDS Integers, Sequences

CONSTANTS
  Seeds, PubKeys, Cohort, NumSteps, NonceSpace, INF, Score0, StepScore, DiffMod,
  PipeCap, None,
  JobSeq, Idle, LocalTask, Live, InboxCap, StdinCap

VARIABLES
  stdin, stdinOpen, stdout,
  gJob, gGen, gStop, reading,
  pc, job, seenGen, poolSeed, curSeed, curPubkey, difficulty, epoch, lut0Of, score0,
  haveJob, nonceCtr, firstNonce, entryGen, s, best, lane,
  ws, timer, loginSent, subscribed, poolIdx, inbox,
  currentJob, taskMatches, lastJobKey, age, alive, exiting, sent

D == INSTANCE StratumDriver WITH Shares <- {}

H == INSTANCE StratumHarness WITH
  JobLines <- {D!LineOf(j) : j \in D!PoolJobs},
  MaxLines <- Len(JobSeq)

ASSUME PipelineAssumption ==
  /\ D!DriverAssumption /\ D!KeyAssumption
  /\ H!HarnessAssumption /\ H!NoneAssumption

harnessOwn == <<gJob, gGen, gStop, reading, pc, job, seenGen, poolSeed, curSeed, curPubkey,
                difficulty, epoch, lut0Of, score0, haveJob, nonceCtr, firstNonce, entryGen,
                s, best, lane>>
driverOwn == <<ws, timer, loginSent, subscribed, poolIdx, inbox, currentJob, taskMatches,
               lastJobKey, age, alive, exiting, sent>>
pipes == <<stdin, stdinOpen, stdout>>
vars == <<pipes, harnessOwn, driverOwn>>

Init == D!Init /\ H!Init

-----------------------------------------------------------------------------
\* Bound: the main loop does not start a cohort that would exhaust the nonces of
\* the model (2^64 in the code); it idles until the next job.
NoncesLeft == nonceCtr + Cohort < NonceSpace

\* A write to stdout after the driver is gone kills the harness (SIGPIPE).
BrokenPipe ==
  /\ ~ alive /\ pc = "print" /\ best[lane] <= difficulty
  /\ pc' = "stopped"
  /\ UNCHANGED <<pipes, driverOwn, gJob, gGen, gStop, reading, job, seenGen, poolSeed,
                 curSeed, curPubkey, difficulty, epoch, lut0Of, score0, haveJob, nonceCtr,
                 firstNonce, entryGen, s, best, lane>>

MainLoop ==
  \/ H!Stop \/ H!TakeJob \/ (NoncesLeft /\ H!KeepJob)
  \/ H!Rekey \/ H!SetJob \/ H!ScoreInitial \/ H!ScoreInitialFails
  \/ H!EnterCohort \/ H!CohortStep \/ H!CohortStepFails \/ H!LeaveCohort
  \/ (alive /\ H!PrintShare) \/ H!SkipLane

Harness == ((H!Running /\ H!Reader) \/ MainLoop) /\ UNCHANGED driverOwn

\* The watchdog closes a socket; for this composition that is one more close
\* (StratumDriver checks when it does).
Driver == D!Driver /\ UNCHANGED harnessOwn
Pool == D!Pool /\ UNCHANGED harnessOwn

\* SIGINT to the driver: it interrupts the miner and exits 500 ms later.
Sigint ==
  /\ D!Sigint
  /\ gStop' = TRUE
  /\ UNCHANGED <<gJob, gGen, reading, pc, job, seenGen, poolSeed, curSeed, curPubkey,
                 difficulty, epoch, lut0Of, score0, haveJob, nonceCtr, firstNonce,
                 entryGen, s, best, lane>>

\* The driver exits after SIGINT, or when it hears that the miner exited.
DriverExit ==
  /\ exiting \/ ~ H!Running
  /\ D!ProcessExit
  /\ UNCHANGED harnessOwn

\* A signal without a handler, or an error nothing catches, ends the driver.
DriverKilled == D!ProcessExit /\ UNCHANGED harnessOwn

Next == Harness \/ BrokenPipe \/ Driver \/ Pool \/ Sigint \/ DriverExit \/ DriverKilled

Spec == Init /\ [][Next]_vars

\* The event loop and both threads run, dispatches come back; nothing is assumed
\* of the pool or the network.
FairSpec ==
  /\ Spec
  /\ WF_vars(H!Running /\ H!Reader /\ UNCHANGED driverOwn)
  /\ WF_vars((MainLoop /\ UNCHANGED driverOwn) \/ BrokenPipe)
  /\ WF_vars(D!OnShare /\ UNCHANGED harnessOwn)
  /\ WF_vars(DriverExit)

-----------------------------------------------------------------------------
\* The pool's own evaluation of a submission against what it asks for that job.
GoodNonce(j, nonce) ==
  j.pubkey \in PubKeys /\ j.seed \in Seeds /\ nonce \in H!Nonces
  /\ H!PoolAccepts(j.seed, j.pubkey, nonce, j.difficulty)

\* README.md: the miner "can never spam invalid shares".  Every submission is good
\* for the seed, pubkey and difficulty of the job it names.
SubmissionsValid ==
  \A sub \in sent : H!PoolAccepts(sub.seed, sub.pubkey, sub.nonce, sub.asked)

\* The pipeline implements the contract with the pool.
Contract == INSTANCE ShareContract WITH issued <- poolIdx
ImplementsContract == Contract!Spec

\* What makes both hold: a pubkey stands for one seed and one difficulty (the
\* driver recognises a stale share by the pubkey alone).
PubkeyFixesJob ==
  \A j, k \in D!PoolJobs :
    j.pubkey = k.pubkey => j.seed = k.seed /\ j.difficulty = k.difficulty

\* Once the reader has drained the pipe, the miner's newest job is the one the
\* driver submits under: dedupe, reconnects and skipped lines leave no gap.
MinerFollowsPool ==
  (alive /\ stdin = <<>> /\ currentJob # None) =>
    (H!WellFormed(D!LineOf(currentJob)) =>
       /\ gJob.seed = currentJob.seed
       /\ gJob.pubkey = currentJob.pubkey
       /\ gJob.difficulty = currentJob.difficulty % DiffMod)

\* A job the driver knows gets ground, unless another job or the end comes first.
JobReachesMiner ==
  \A k \in 1..Len(JobSeq) :
    (currentJob = JobSeq[k] /\ H!WellFormed(D!LineOf(JobSeq[k]))) ~>
       \/ /\ curSeed = JobSeq[k].seed /\ curPubkey = JobSeq[k].pubkey
          /\ difficulty = JobSeq[k].difficulty % DiffMod
       \/ currentJob # JobSeq[k]
       \/ ~ alive \/ ~ H!Running

\* Neither process outlives the other: whatever ends the driver, the miner is ended
\* by the signal, by the end of its input or by the broken pipe.
EndTogether == (~ alive ~> ~ H!Running) /\ (~ H!Running ~> ~ alive)

\* STRATUM.md: "for each job it grinds fresh nonces".  No nonce is submitted a
\* second time for the same seed and pubkey, so no resend of a job and no reconnect
\* makes the harness start over.
FreshSubmissions ==
  [][D!SubmitShare =>
       \A old \in sent : <<old.seed, old.pubkey, old.nonce>>
                         # <<currentJob.seed, currentJob.pubkey, Head(stdout).nonce>>]_vars
=============================================================================
