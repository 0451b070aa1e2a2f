------------------------- MODULE StratumPipelineProofs -------------------------
(***************************************************************************)
(* Driver and harness together, for every sequence of jobs, every outcome  *)
(* of the searches and every size of cohort, pipe and counter: the miner   *)
(* follows the pool; where a pubkey stands for one seed and one difficulty *)
(* the two processes implement the contract with the pool; and where no    *)
(* pubkey comes back, no nonce is submitted twice.                         *)
(*                                                                         *)
(* The invariants of the two parts are not proved again: a step of the     *)
(* composition is a step of each part or of its neighbour, for which       *)
(* StratumDriverProofs and StratumHarnessProofs have shown them kept.      *)
(***************************************************************************)
EXTENDS StratumPipeline, TLAPS

DP == INSTANCE StratumDriverProofs WITH Shares <- {}

HP == INSTANCE StratumHarnessProofs WITH
  JobLines <- {D!LineOf(j) : j \in D!PoolJobs},
  MaxLines <- Len(JobSeq)

PartsInv == DP!DInv /\ HP!IInv

-----------------------------------------------------------------------------
(* The assumptions of the parts, in the words of their proofs.             *)

LEMMA DriverAssumptions ==
  /\ Len(JobSeq) \in Nat \ {0}
  /\ \A k \in 1..Len(JobSeq) :
       JobSeq[k].difficulty \in Int /\ JobSeq[k].epoch \in Int
  /\ Live \in BOOLEAN /\ InboxCap \in Nat /\ StdinCap \in Nat
  /\ None \notin DP!PoolJobs /\ \A j \in DP!PoolJobs : DP!JobKey(j) # None
BY PipelineAssumption DEF D!DriverAssumption, D!KeyAssumption, D!PoolJobs, DP!PoolJobs,
   D!JobKey, DP!JobKey

LEMMA HarnessAssumptions ==
  /\ Cohort \in Nat \ {0} /\ NumSteps \in Nat /\ NonceSpace \in Nat \ {0}
  /\ INF \in Nat /\ DiffMod \in Nat \ {0}
  /\ PipeCap \in Nat /\ Len(JobSeq) \in Nat
  /\ Score0 \in [Seeds -> [PubKeys -> HP!Scores]]
  /\ StepScore \in [Seeds -> [PubKeys -> [HP!Nonces -> [1..NumSteps -> HP!Scores]]]]
  /\ \A line \in {D!LineOf(j) : j \in D!PoolJobs} :
       line.difficulty \in Int /\ line.epoch \in Int
  /\ None \notin Seeds /\ None \notin PubKeys /\ None \notin HP!Jobs
BY PipelineAssumption DEF H!HarnessAssumption, H!NoneAssumption, H!Scores, HP!Scores,
   H!Nonces, HP!Nonces, H!Jobs, HP!Jobs, H!Parsed, HP!Parsed, H!WellFormed, HP!WellFormed

-----------------------------------------------------------------------------
(* A step of the composition, seen from either part.                       *)

LEMMA InitParts == Init => PartsInv
<1> SUFFICES ASSUME Init PROVE PartsInv
  OBVIOUS
<1>1. DP!Init
  BY DEF Init, D!Init, DP!Init
<1>2. HP!Init
  BY DEF Init, H!Init, HP!Init, H!Lanes, HP!Lanes
<1> QED
  BY <1>1, <1>2, DriverAssumptions, HarnessAssumptions, DP!InitDInv, HP!InitIInv
     DEF PartsInv

LEMMA StepOfDriver == [Next]_vars => DP!DStep
<1> SUFFICES ASSUME [Next]_vars PROVE DP!DStep
  OBVIOUS
<1> USE DEF DP!DStep, DP!conn, DP!jobs, D!conn, D!jobs, D!pipes, DP!pipes
<1>1. CASE Harness \/ BrokenPipe \/ UNCHANGED vars
  BY <1>1 DEF Harness, BrokenPipe, driverOwn, vars
<1>2. CASE Driver
  BY <1>2 DEF Driver, D!Driver, DP!Driver, D!Open, DP!Open, D!Close, DP!Close,
     D!Reconnect, DP!Reconnect, D!PushJob, DP!PushJob, D!IdleJob, DP!IdleJob,
     D!OnShare, DP!OnShare, D!SubmitShare, DP!SubmitShare, D!DropShare, DP!DropShare,
     D!Stale, DP!Stale, D!MaySubmit, DP!MaySubmit, D!Submission, DP!Submission,
     D!JobKey, DP!JobKey, D!LineOf, DP!LineOf
<1>3. CASE Pool
  BY <1>3 DEF Pool, D!Pool, DP!Pool, D!PoolAcceptsLogin, DP!PoolAcceptsLogin,
     D!PoolSends, DP!PoolSends, D!PoolNextJob, DP!PoolNextJob
<1>4. CASE Sigint
  BY <1>4 DEF Sigint, D!Sigint, DP!Sigint
<1>5. CASE DriverExit \/ DriverKilled
  BY <1>5 DEF DriverExit, DriverKilled, D!ProcessExit, DP!ProcessExit
<1> QED
  BY <1>1, <1>2, <1>3, <1>4, <1>5 DEF Next

\* The main loop and the reader are the harness's, their guards at most stronger.
LEMMA StepOfHarnessThreads == Harness => HP!Reader \/ HP!Main
<1> SUFFICES ASSUME Harness PROVE HP!Reader \/ HP!Main
  OBVIOUS
<1> USE DEF H!shared, HP!shared, H!current, HP!current, H!cohort, HP!cohort,
            H!main, HP!main
<1>1. H!Reader => HP!Reader
  BY DEF H!Reader, HP!Reader, H!ReadLine, HP!ReadLine, H!EndOfInput, HP!EndOfInput,
     H!WellFormed, HP!WellFormed, H!Parsed, HP!Parsed
<1>2. H!Stop \/ H!TakeJob \/ H!KeepJob => HP!Main
  BY DEF HP!Main, H!Stop, HP!Stop, H!TakeJob, HP!TakeJob, H!KeepJob, HP!KeepJob
<1>3. H!Rekey \/ H!SetJob \/ H!ScoreInitial \/ H!ScoreInitialFails => HP!Main
  BY DEF HP!Main, H!Rekey, HP!Rekey, H!SetJob, HP!SetJob, H!ScoreInitial,
     HP!ScoreInitial, H!ScoreInitialFails, HP!ScoreInitialFails
<1>4. H!EnterCohort \/ H!CohortStep \/ H!CohortStepFails \/ H!LeaveCohort => HP!Main
  BY DEF HP!Main, H!EnterCohort, HP!EnterCohort, H!CohortStep, HP!CohortStep,
     H!CohortStepFails, HP!CohortStepFails, H!LeaveCohort, HP!LeaveCohort,
     H!NonceOf, HP!NonceOf, H!Lanes, HP!Lanes
<1>5. H!PrintShare \/ H!SkipLane => HP!Main
  BY DEF HP!Main, H!PrintShare, HP!PrintShare, H!SkipLane, HP!SkipLane, H!NextLane,
     HP!NextLane, H!Share, HP!Share, H!NonceOf, HP!NonceOf
<1> QED
  BY <1>1, <1>2, <1>3, <1>4, <1>5 DEF Harness, MainLoop

\* The line of a job pushed to the driver is one the harness may be given.
LEMMA PushedLine ==
  ASSUME PartsInv, D!PushJob
  PROVE  /\ currentJob' \in D!PoolJobs
         /\ lastJobKey' = D!JobKey(currentJob')
         /\ \/ UNCHANGED stdin /\ D!JobKey(currentJob') = lastJobKey
            \/ stdin' = Append(stdin, D!LineOf(currentJob'))
<1>1. DP!PushJob
  BY DEF D!PushJob, DP!PushJob, D!JobKey, DP!JobKey, D!LineOf, DP!LineOf
<1>2. currentJob' = Head(inbox) /\ currentJob' \in DP!PoolJobs
      /\ lastJobKey' = DP!JobKey(currentJob')
  BY <1>1, DriverAssumptions, DP!PushedJob DEF PartsInv
<1> QED
  BY <1>2 DEF D!PushJob, D!PoolJobs, DP!PoolJobs, D!JobKey, DP!JobKey

LEMMA StepOfHarness == PartsInv /\ [Next]_vars => HP!HStep
<1> SUFFICES ASSUME PartsInv, [Next]_vars PROVE HP!HStep
  OBVIOUS
<1> USE DEF HP!HStep, HP!shared, HP!current, HP!cohort, HP!main, HP!vars,
            harnessOwn, D!conn, D!jobs, D!pipes
<1>1. CASE Harness
  BY <1>1, StepOfHarnessThreads
<1>2. CASE BrokenPipe
  <2>1. HP!Killed
    BY <1>2 DEF BrokenPipe, HP!Killed, pipes
  <2> QED
    BY <2>1
<1>3. CASE D!PushJob /\ UNCHANGED harnessOwn
  <2>1. UNCHANGED <<stdinOpen, stdout>>
    BY <1>3 DEF D!PushJob
  <2>2. CASE UNCHANGED stdin
    BY <1>3, <2>1, <2>2
  <2>3. CASE stdin' = Append(stdin, D!LineOf(currentJob'))
    <3>1. D!LineOf(currentJob') \in {D!LineOf(j) : j \in D!PoolJobs}
      BY <1>3, PushedLine
    <3>2. HP!LineArrives(D!LineOf(currentJob'))
      BY <1>3, <2>1, <2>3 DEF HP!LineArrives
    <3> QED
      BY <3>1, <3>2
  <2> QED
    BY <1>3, <2>2, <2>3, PushedLine
<1>4. CASE D!OnShare /\ UNCHANGED harnessOwn
  <2>1. HP!ConsumeShare
    BY <1>4 DEF D!OnShare, D!SubmitShare, D!DropShare, HP!ConsumeShare
  <2> QED
    BY <2>1
<1>5. CASE (D!Open \/ D!Close \/ D!Reconnect \/ D!IdleJob) /\ UNCHANGED harnessOwn
  BY <1>5 DEF D!Open, D!Close, D!Reconnect, D!IdleJob
<1>6. CASE Pool
  BY <1>6 DEF Pool, D!Pool, D!PoolAcceptsLogin, D!PoolSends, D!PoolNextJob
<1>7. CASE Sigint
  <2>1. HP!Signal \/ UNCHANGED HP!vars
    <3>1. gStop \in BOOLEAN
      BY DEF PartsInv, HP!IInv, HP!TypeOK
    <3>2. gStop' = TRUE
      BY <1>7 DEF Sigint
    <3>3. UNCHANGED <<stdin, stdinOpen, stdout, gJob, gGen, reading, pc, job, seenGen,
                      poolSeed, curSeed, curPubkey, difficulty, epoch, lut0Of, score0,
                      haveJob, nonceCtr, firstNonce, entryGen, s, best, lane>>
      BY <1>7 DEF Sigint, D!Sigint
    <3> QED
      BY <3>1, <3>2, <3>3 DEF HP!Signal
  <2> QED
    BY <2>1
<1>8. CASE DriverExit \/ DriverKilled
  <2>1. stdinOpen \in BOOLEAN
    BY DEF PartsInv, HP!IInv, HP!TypeOK
  <2>2. stdinOpen' = FALSE /\ UNCHANGED <<stdin, stdout, harnessOwn>>
    BY <1>8 DEF DriverExit, DriverKilled, D!ProcessExit
  <2>3. HP!CloseStdin \/ UNCHANGED HP!vars
    BY <2>1, <2>2 DEF HP!CloseStdin
  <2> QED
    BY <2>3
<1>9. CASE UNCHANGED vars
  BY <1>9 DEF vars, pipes
<1> QED
  BY <1>1, <1>2, <1>3, <1>4, <1>5, <1>6, <1>7, <1>8, <1>9 DEF Next, Driver, D!Driver

LEMMA StepParts == PartsInv /\ [Next]_vars => PartsInv'
<1> SUFFICES ASSUME PartsInv, [Next]_vars PROVE PartsInv'
  OBVIOUS
<1>1. DP!DInv'
  BY StepOfDriver, DriverAssumptions, DP!StepDInv DEF PartsInv
<1>2. HP!IInv'
  BY StepOfHarness, HarnessAssumptions, HP!StepIInv DEF PartsInv
<1> QED
  BY <1>1, <1>2 DEF PartsInv

THEOREM SpecPartsInv == Spec => []PartsInv
BY InitParts, StepParts, PTL DEF Spec

-----------------------------------------------------------------------------
(* The miner follows the pool.  MinerFollowsPool looks at an empty pipe only; *)
(* what makes it inductive is the last line of a pipe that is not empty: the  *)
(* reader has to end up with it.                                              *)

\* The seed, pubkey and difficulty of the driver's job, as a line or a parsed job
\* must have them.
IsCurrent(j, d) ==
  j.seed = currentJob.seed /\ j.pubkey = currentJob.pubkey /\ j.difficulty = d

LastLineIsCurrent ==
  (currentJob # None /\ H!WellFormed(D!LineOf(currentJob))) =>
    /\ stdin # <<>> => IsCurrent(stdin[Len(stdin)], currentJob.difficulty)
    /\ stdin = <<>> => IsCurrent(gJob, currentJob.difficulty % DiffMod)

LEMMA LastOfTail ==
  ASSUME NEW S, NEW q \in Seq(S), q # <<>>, Len(q) # 1
  PROVE  Tail(q) # <<>> /\ Tail(q)[Len(Tail(q))] = q[Len(q)]
<1>1. Len(q) \in Nat /\ Len(q) # 0
  OBVIOUS
<1>2. Len(q) > 1
  <2>1. \A n \in Nat : n # 0 /\ n # 1 => n > 1
    OBVIOUS
  <2> QED
    BY <1>1, <2>1
<1>3. Len(Tail(q)) = Len(q) - 1
  OBVIOUS
<1>4. \A k \in 1..Len(Tail(q)) : Tail(q)[k] = q[k + 1]
  OBVIOUS
<1>5. Len(Tail(q)) \in 1..Len(Tail(q))
  BY <1>1, <1>2, <1>3
<1>6. Tail(q) # <<>>
  BY <1>2, <1>3
<1> QED
  BY <1>1, <1>3, <1>4, <1>5, <1>6

LEMMA InitFollows == Init => LastLineIsCurrent
BY DEF Init, D!Init, LastLineIsCurrent

LEMMA StepFollows == PartsInv /\ LastLineIsCurrent /\ [Next]_vars => LastLineIsCurrent'
<1> SUFFICES ASSUME PartsInv, LastLineIsCurrent, [Next]_vars PROVE LastLineIsCurrent'
  OBVIOUS
<1> USE DEF LastLineIsCurrent, IsCurrent, harnessOwn, driverOwn, pipes, D!conn, D!jobs,
            D!pipes
<1>1. CASE UNCHANGED <<stdin, gJob, currentJob>>
  BY <1>1 DEF H!WellFormed, D!LineOf
<1>2. CASE H!Reader /\ UNCHANGED driverOwn
  <2>1. CASE H!EndOfInput
    BY <1>1, <1>2, <2>1 DEF H!EndOfInput
  <2>2. CASE H!ReadLine
    <3>1. SUFFICES ASSUME currentJob # None, H!WellFormed(D!LineOf(currentJob))
                   PROVE  /\ stdin' # <<>> =>
                               IsCurrent(stdin'[Len(stdin')], currentJob.difficulty)
                          /\ stdin' = <<>> =>
                               IsCurrent(gJob, currentJob.difficulty % DiffMod)'
      BY <1>2 DEF H!WellFormed, D!LineOf
    <3>2. /\ stdin \in Seq({D!LineOf(j) : j \in D!PoolJobs}) /\ stdin # <<>>
          /\ stdin' = Tail(stdin)
          /\ IsCurrent(stdin[Len(stdin)], currentJob.difficulty)
      BY <2>2, <3>1 DEF H!ReadLine, PartsInv, HP!IInv, HP!TypeOK
    <3>3. CASE Len(stdin) = 1
      <4>1. stdin' = <<>> /\ Head(stdin) = stdin[Len(stdin)]
        BY <3>2, <3>3
      <4>2. H!WellFormed(Head(stdin))
        BY <3>1, <3>2, <4>1 DEF H!WellFormed, D!LineOf
      <4>3. gJob' = H!Parsed(Head(stdin))
        BY <2>2, <4>2 DEF H!ReadLine
      <4> QED
        BY <1>2, <3>2, <4>1, <4>3 DEF H!Parsed
    <3>4. CASE Len(stdin) # 1
      <4>1. stdin' # <<>> /\ stdin'[Len(stdin')] = stdin[Len(stdin)]
        BY <3>2, <3>4, LastOfTail
      <4> QED
        BY <3>2, <4>1
    <3> QED
      BY <3>3, <3>4
  <2> QED
    BY <1>2, <2>1, <2>2 DEF H!Reader
<1>3. CASE D!PushJob /\ UNCHANGED harnessOwn
  <2>1. currentJob' \in D!PoolJobs /\ lastJobKey' = D!JobKey(currentJob')
    BY <1>3, PushedLine
  <2>2. CASE UNCHANGED stdin /\ D!JobKey(currentJob') = lastJobKey
    <3>1. currentJob # None /\ lastJobKey = D!JobKey(currentJob)
      <4>1. D!JobKey(currentJob') # None
        BY <2>1, PipelineAssumption DEF D!KeyAssumption
      <4> QED
        BY <2>2, <4>1
           DEF PartsInv, DP!DInv, DP!VerdictOnCurrent, DP!JobKey, D!JobKey
    <3>2. IsCurrent(currentJob', currentJob.difficulty)
      BY <2>2, <3>1 DEF D!JobKey
    <3> QED
      BY <1>3, <2>2, <3>1, <3>2 DEF H!WellFormed, D!LineOf
  <2>3. CASE stdin' = Append(stdin, D!LineOf(currentJob'))
    <3>1. stdin \in Seq({D!LineOf(j) : j \in D!PoolJobs})
      BY DEF PartsInv, HP!IInv, HP!TypeOK
    <3>2. stdin' # <<>> /\ stdin'[Len(stdin')] = D!LineOf(currentJob')
      BY <2>3, <3>1
    <3> QED
      BY <3>2 DEF D!LineOf
  <2> QED
    BY <1>3, <2>2, <2>3, PushedLine
<1>4. UNCHANGED <<stdin, gJob, currentJob>>
      \/ (H!Reader /\ UNCHANGED driverOwn) \/ (D!PushJob /\ UNCHANGED harnessOwn)
  <2>1. CASE MainLoop /\ UNCHANGED driverOwn
    BY <2>1 DEF MainLoop, H!Stop, H!TakeJob, H!KeepJob, H!Rekey, H!SetJob,
       H!ScoreInitial, H!ScoreInitialFails, H!EnterCohort, H!CohortStep,
       H!CohortStepFails, H!LeaveCohort, H!PrintShare, H!SkipLane, H!shared
  <2>2. CASE Pool \/ Sigint \/ DriverExit \/ DriverKilled \/ BrokenPipe
    BY <2>2 DEF Pool, D!Pool, D!PoolAcceptsLogin, D!PoolSends, D!PoolNextJob, Sigint,
       D!Sigint, DriverExit, DriverKilled, D!ProcessExit, BrokenPipe
  <2>3. CASE (D!Open \/ D!Close \/ D!Reconnect \/ D!IdleJob \/ D!OnShare)
             /\ UNCHANGED harnessOwn
    BY <2>3 DEF D!Open, D!Close, D!Reconnect, D!IdleJob, D!OnShare, D!SubmitShare,
       D!DropShare
  <2> QED
    BY <2>1, <2>2, <2>3 DEF Next, Harness, Driver, D!Driver, vars
<1> QED
  BY <1>1, <1>2, <1>3, <1>4

\* Whatever the pool sends, in whatever order jobs, reconnects and reads fall: with
\* the pipe drained, the miner's newest job is the driver's.
THEOREM SpecMinerFollowsPool == Spec => []MinerFollowsPool
<1>1. LastLineIsCurrent => MinerFollowsPool
  BY DEF LastLineIsCurrent, IsCurrent, MinerFollowsPool
<1> QED
  BY SpecPartsInv, InitFollows, StepFollows, <1>1, PTL DEF Spec

-----------------------------------------------------------------------------
(* What is submitted.  A share is computed and labelled under one job and     *)
(* submitted under another that has only its pubkey: that the pubkey fixes    *)
(* seed and difficulty is what carries the share's score over.                *)

\* The width of the miner's difficulty field can only make a share better.
LEMMA ModAtMost == ASSUME NEW d \in Nat, NEW m \in Nat \ {0} PROVE d % m <= d
<1>1. CASE d < m
  BY <1>1
<1>2. CASE ~ (d < m)
  <2>1. d % m \in 0..(m - 1)
    OBVIOUS
  <2> QED
    BY <1>2, <2>1
<1> QED
  BY <1>1, <1>2

\* A search that is good enough for one difficulty is for a larger one.
LEMMA AcceptsMonotone ==
  ASSUME NEW seed \in Seeds, NEW pubkey \in PubKeys, NEW nonce \in H!Nonces,
         NEW d \in Nat, NEW e \in Nat, d <= e, HP!PoolAccepts(seed, pubkey, nonce, d)
  PROVE  H!PoolAccepts(seed, pubkey, nonce, e)
<1>1. HP!Scores \subseteq Nat /\ H!Nonces = HP!Nonces
  BY HarnessAssumptions DEF HP!Scores, H!Nonces, HP!Nonces
<1>2. Score0[seed][pubkey] \in Nat
      /\ \A k \in 1..NumSteps : StepScore[seed][pubkey][nonce][k] \in Nat
  BY <1>1, HarnessAssumptions, HP!ScoreType
<1> QED
  BY <1>2 DEF HP!PoolAccepts, H!PoolAccepts

\* The first share in the pipe is good for every job of its pubkey.
LEMMA ShareGoodFor ==
  ASSUME PubkeyFixesJob, PartsInv, stdout # <<>>,
         NEW j \in D!PoolJobs, j.pubkey = Head(stdout).pubkey
  PROVE  GoodNonce(j, Head(stdout).nonce)
<1> DEFINE share == Head(stdout)
<1>1. stdout \in Seq(HP!ShareType) /\ share = stdout[1] /\ 1 \in 1..Len(stdout)
  BY DEF PartsInv, HP!IInv, HP!TypeOK
<1>2. share \in HP!ShareType
  BY <1>1
<1>3. HP!PoolAccepts(share.seed, share.pubkey, share.nonce, share.diff)
  BY <1>1 DEF PartsInv, HP!IInv, HP!SharesOK, HP!SharesValid
<1>4. [seed |-> share.seed, pubkey |-> share.pubkey, difficulty |-> share.diff,
       epoch |-> share.epoch] \in HP!Jobs
  BY <1>1 DEF PartsInv, HP!IInv, HP!SharesOK, HP!SharesNameOneJob
<1>5. PICK k \in D!PoolJobs :
        /\ k.seed = share.seed /\ k.pubkey = share.pubkey
        /\ k.difficulty >= 0 /\ share.diff = k.difficulty % DiffMod
  <2>1. PICK k \in D!PoolJobs :
          /\ HP!WellFormed(D!LineOf(k))
          /\ [seed |-> share.seed, pubkey |-> share.pubkey, difficulty |-> share.diff,
              epoch |-> share.epoch] = HP!Parsed(D!LineOf(k))
    BY <1>4 DEF HP!Jobs
  <2> HIDE DEF share
  <2> QED
    BY <2>1 DEF HP!Parsed, HP!WellFormed, D!LineOf
<1>6. k.difficulty \in Nat
  BY <1>5, DriverAssumptions DEF D!PoolJobs
<1>7. j.seed = share.seed /\ j.pubkey = share.pubkey /\ j.difficulty = k.difficulty
  BY <1>5 DEF PubkeyFixesJob
<1>8. share.diff <= j.difficulty /\ share.diff \in Nat
  BY <1>2, <1>5, <1>6, <1>7, HarnessAssumptions, ModAtMost DEF HP!ShareType
<1>9. share.seed \in Seeds /\ share.pubkey \in PubKeys /\ share.nonce \in H!Nonces
  BY <1>2 DEF HP!ShareType, HP!Nonces, H!Nonces
<1> HIDE DEF share
<1>10. H!PoolAccepts(j.seed, j.pubkey, share.nonce, j.difficulty)
  BY <1>3, <1>6, <1>7, <1>8, <1>9, AcceptsMonotone
<1> QED
  BY <1>7, <1>9, <1>10 DEF GoodNonce, share

\* A submission: the job it names was issued, works on the loaded task, and the
\* nonce is good for it.
LEMMA SubmissionGood ==
  ASSUME PubkeyFixesJob, PartsInv, D!SubmitShare
  PROVE  /\ \E k \in 1..poolIdx : currentJob = JobSeq[k]
         /\ currentJob.task = LocalTask
         /\ GoodNonce(currentJob, Head(stdout).nonce)
         /\ sent' = sent \cup {D!Submission(Head(stdout))}
<1>1. DP!SubmitShare
  BY DEF D!SubmitShare, DP!SubmitShare, D!Stale, DP!Stale, D!MaySubmit, DP!MaySubmit,
     D!Submission, DP!Submission, D!conn, DP!conn, D!jobs, DP!jobs
<1>2. /\ currentJob \in DP!Issued /\ currentJob.task = LocalTask
      /\ currentJob.pubkey = Head(stdout).pubkey
  BY <1>1, DriverAssumptions, DP!SubmittedJob DEF PartsInv
<1>3. currentJob \in D!PoolJobs
  BY <1>2, DriverAssumptions, DP!IssuedAreJobs
     DEF PartsInv, DP!DInv, D!PoolJobs, DP!PoolJobs
<1>4. GoodNonce(currentJob, Head(stdout).nonce)
  BY <1>2, <1>3, ShareGoodFor DEF D!SubmitShare
<1> QED
  BY <1>2, <1>4 DEF DP!Issued, D!SubmitShare

-----------------------------------------------------------------------------
(* The refinement: every step is a step of the contract or none.             *)

LEMMA StepOfContract ==
  ASSUME PubkeyFixesJob, PartsInv, [Next]_vars
  PROVE  [Contract!Next]_<<poolIdx, sent>>
<1>1. CASE UNCHANGED <<poolIdx, sent>>
  BY <1>1
<1>2. CASE D!PoolNextJob
  BY <1>2 DEF D!PoolNextJob, Contract!Next, Contract!Issue
<1>3. CASE D!SubmitShare
  <2> DEFINE sub == D!Submission(Head(stdout))
  <2>1. UNCHANGED poolIdx /\ sent' = sent \cup {sub}
    BY <1>3, SubmissionGood DEF D!SubmitShare
  <2>2. CASE sub \in sent
    BY <1>1, <2>1, <2>2
  <2>3. CASE sub \notin sent
    <3>1. PICK k \in 1..poolIdx : currentJob = JobSeq[k]
      BY <1>3, SubmissionGood
    <3>2. sub \in sent' \ sent
      BY <2>1, <2>3
    <3>3. sub.seed = JobSeq[k].seed /\ sub.pubkey = JobSeq[k].pubkey
          /\ sub.epoch = JobSeq[k].epoch
      BY <3>1 DEF D!Submission
    <3>4. JobSeq[k].task = LocalTask /\ GoodNonce(JobSeq[k], sub.nonce)
      BY <1>3, <3>1, SubmissionGood DEF D!Submission
    <3> HIDE DEF sub
    <3>5. Contract!Submit
      BY <2>1, <3>2, <3>3, <3>4 DEF Contract!Submit
    <3> QED
      BY <3>5 DEF Contract!Next
  <2> QED
    BY <2>2, <2>3
<1>4. UNCHANGED <<poolIdx, sent>> \/ D!PoolNextJob \/ D!SubmitShare
  BY DEF Next, Harness, BrokenPipe, Driver, D!Driver, Pool, D!Pool, Sigint, D!Sigint,
     DriverExit, DriverKilled, D!ProcessExit, driverOwn, vars, D!Open, D!Close,
     D!Reconnect, D!PushJob, D!IdleJob, D!OnShare, D!DropShare, D!PoolAcceptsLogin,
     D!PoolSends
<1> QED
  BY <1>1, <1>2, <1>3, <1>4

\* Where a pubkey stands for one seed and one difficulty, the pipeline implements
\* the contract: whatever is in flight between pool, driver and miner when a job
\* changes, a submission names an issued job of the loaded task with a nonce that
\* is good for it.
THEOREM SpecImplementsContract == PubkeyFixesJob => (Spec => ImplementsContract)
<1> SUFFICES ASSUME PubkeyFixesJob PROVE Spec => ImplementsContract
  OBVIOUS
<1>1. Init => Contract!Init
  BY DEF Init, D!Init, Contract!Init
<1>2. PartsInv /\ [Next]_vars => [Contract!Next]_<<poolIdx, sent>>
  BY StepOfContract
<1> QED
  BY SpecPartsInv, <1>1, <1>2, PTL DEF Spec, ImplementsContract, Contract!Spec

\* Under the same condition the miner never submits a share that fails the
\* difficulty asked for the job it names.
THEOREM SpecSubmissionsValid == PubkeyFixesJob => (Spec => []SubmissionsValid)
<1> SUFFICES ASSUME PubkeyFixesJob PROVE Spec => []SubmissionsValid
  OBVIOUS
<1>1. Init => SubmissionsValid
  BY DEF Init, D!Init, SubmissionsValid
<1>2. PartsInv /\ SubmissionsValid /\ [Next]_vars => SubmissionsValid'
  <2> SUFFICES ASSUME PartsInv, SubmissionsValid, [Next]_vars PROVE SubmissionsValid'
    OBVIOUS
  <2>1. CASE D!SubmitShare
    BY <2>1, SubmissionGood DEF SubmissionsValid, GoodNonce, D!Submission
  <2>2. CASE UNCHANGED sent
    BY <2>2 DEF SubmissionsValid
  <2>3. UNCHANGED sent \/ D!SubmitShare
    BY DEF Next, Harness, BrokenPipe, Driver, D!Driver, Pool, D!Pool, Sigint, D!Sigint,
       DriverExit, DriverKilled, D!ProcessExit, driverOwn, vars, D!Open, D!Close,
       D!Reconnect, D!PushJob, D!IdleJob, D!OnShare, D!DropShare, D!PoolAcceptsLogin,
       D!PoolSends, D!PoolNextJob
  <2> QED
    BY <2>1, <2>2, <2>3
<1> QED
  BY SpecPartsInv, <1>1, <1>2, PTL DEF Spec
-----------------------------------------------------------------------------
(* No nonce twice.  Where no pubkey comes back, everything in flight is in the *)
(* order of the pubkeys' turns, from the pool to the shares submitted, and a   *)
(* job sent again or a new connection never takes anything a turn back.        *)

\* No pubkey comes back: the jobs that carry it are consecutive, and all ask the
\* same of it.
EachPubkeyOnce ==
  \A a, b \in 1..Len(JobSeq) : a <= b /\ JobSeq[a].pubkey = JobSeq[b].pubkey =>
    \A c \in a..b : D!JobKey(JobSeq[c]) = D!JobKey(JobSeq[a])

\* When a pubkey had its turn; 0 for none.
Turn(pubkey) ==
  IF \E k \in 1..Len(JobSeq) : JobSeq[k].pubkey = pubkey
  THEN CHOOSE k \in 1..Len(JobSeq) : JobSeq[k].pubkey = pubkey
  ELSE 0

TurnOf(j) == IF j = None THEN 0 ELSE Turn(j.pubkey)

LEMMA TurnType == \A pubkey : Turn(pubkey) \in Nat
BY DriverAssumptions DEF Turn

LEMMA TurnOfType == \A j : TurnOf(j) \in Nat
BY TurnType DEF TurnOf

LEMMA TurnIs ==
  ASSUME NEW k \in 1..Len(JobSeq)
  PROVE  /\ Turn(JobSeq[k].pubkey) \in 1..Len(JobSeq)
         /\ JobSeq[Turn(JobSeq[k].pubkey)].pubkey = JobSeq[k].pubkey
BY DEF Turn

\* A later job has no earlier turn.
LEMMA TurnsInOrder ==
  ASSUME EachPubkeyOnce, NEW a \in 1..Len(JobSeq), NEW b \in 1..Len(JobSeq), a <= b
  PROVE  Turn(JobSeq[a].pubkey) <= Turn(JobSeq[b].pubkey)
<1> DEFINE x == Turn(JobSeq[a].pubkey)
           y == Turn(JobSeq[b].pubkey)
<1>1. /\ x \in 1..Len(JobSeq) /\ JobSeq[x].pubkey = JobSeq[a].pubkey
      /\ y \in 1..Len(JobSeq) /\ JobSeq[y].pubkey = JobSeq[b].pubkey
  BY TurnIs
<1>2. x = y \/ JobSeq[a].pubkey # JobSeq[b].pubkey
  OBVIOUS
<1> HIDE DEF x, y
<1>3. ASSUME y < x, JobSeq[a].pubkey # JobSeq[b].pubkey PROVE FALSE
  <2>1. \A i, k, c \in 1..Len(JobSeq) :
          i <= c /\ c <= k /\ JobSeq[i].pubkey = JobSeq[k].pubkey =>
            JobSeq[c].pubkey = JobSeq[i].pubkey
    <3>1. \A i, k, c \in 1..Len(JobSeq) : i <= c /\ c <= k => i <= k /\ c \in i..k
      BY DriverAssumptions
    <3> QED
      BY <3>1 DEF EachPubkeyOnce, D!JobKey
  <2>2. CASE a <= y
    BY <1>1, <1>3, <2>1, <2>2
  <2>3. CASE y <= a
    BY <1>1, <1>3, <2>1, <2>3
  <2> QED
    BY <1>1, <2>2, <2>3
<1>4. x <= y
  BY <1>1, <1>2, <1>3
<1> QED
  BY <1>4 DEF x, y

\* Jobs with the same turn ask the same.
LEMMA OneKeyPerTurn ==
  ASSUME EachPubkeyOnce, NEW j \in D!PoolJobs, NEW k \in D!PoolJobs,
         Turn(j.pubkey) = Turn(k.pubkey)
  PROVE  D!JobKey(j) = D!JobKey(k)
<1>1. PICK a, b \in 1..Len(JobSeq) : j = JobSeq[a] /\ k = JobSeq[b]
  BY DEF D!PoolJobs
<1>2. JobSeq[a].pubkey = JobSeq[b].pubkey
  BY <1>1, TurnIs
<1>3. (a <= b /\ b \in a..b) \/ (b <= a /\ a \in b..a)
  OBVIOUS
<1> QED
  BY <1>1, <1>2, <1>3 DEF EachPubkeyOnce

\* The turns in flight: pool, inbox, driver.
InboxInOrder ==
  /\ \A i \in 1..Len(inbox) : inbox[i] # Idle =>
       /\ TurnOf(currentJob) <= Turn(inbox[i].pubkey)
       /\ Turn(inbox[i].pubkey) <= Turn(JobSeq[poolIdx].pubkey)
       /\ \A k \in 1..i : inbox[k] # Idle =>
            Turn(inbox[k].pubkey) <= Turn(inbox[i].pubkey)
  /\ TurnOf(currentJob) <= Turn(JobSeq[poolIdx].pubkey)

\* Driver, pipe, reader: no line repeats the pubkey of the one before.
LinesInOrder ==
  /\ \A i \in 1..Len(stdin) :
       /\ TurnOf(gJob) < Turn(stdin[i].pubkey)
       /\ Turn(stdin[i].pubkey) <= TurnOf(currentJob)
       /\ \A k \in 1..(i - 1) : Turn(stdin[k].pubkey) < Turn(stdin[i].pubkey)
  /\ TurnOf(gJob) <= TurnOf(currentJob)

\* Reader, main loop: a new generation is a later turn.
LoopInOrder ==
  \/ seenGen = gGen /\ job = gJob
  \/ seenGen < gGen /\ TurnOf(job) < TurnOf(gJob)

SettingUp == pc \in {"rekey", "set job", "score0"}
Mining == pc \in {"cohort", "steps", "print"} \/ (pc = "top" /\ haveJob)

\* The nonces of the cohorts of one job do not wrap.
CohortsInOrder ==
  /\ (Mining \/ pc = "score0") => job # None /\ curPubkey = job.pubkey
  /\ SettingUp => job # None
  /\ pc = "cohort" => nonceCtr + Cohort < NonceSpace
  /\ pc \in {"steps", "print"} => nonceCtr = firstNonce + Cohort

\* The nonce below which those of the current pubkey are used.
NextNonce ==
  IF pc = "steps" THEN firstNonce
  ELSE IF pc = "print" THEN firstNonce + lane - 1 ELSE nonceCtr

\* A share printed at some time is behind what the loop may still print.
Behind(share) ==
  /\ Turn(share.pubkey) <= TurnOf(job)
  /\ SettingUp => share.pubkey # job.pubkey
  /\ Mining /\ share.pubkey = job.pubkey => share.nonce < NextNonce

SameTry(a, b) == a.pubkey = b.pubkey /\ a.nonce = b.nonce

SharesInOrder ==
  /\ \A i \in 1..Len(stdout) :
       /\ Behind(stdout[i])
       /\ \A k \in 1..(i - 1) : ~ SameTry(stdout[k], stdout[i])
       /\ \A sub \in sent : ~ SameTry(sub, stdout[i])
  /\ \A sub \in sent : sub.nonce \in Nat /\ Behind(sub)

OrderInv == InboxInOrder /\ LinesInOrder /\ LoopInOrder /\ CohortsInOrder /\ SharesInOrder

-----------------------------------------------------------------------------
(* Its parts are kept by every step.                                         *)

LEMMA InitOrder == PartsInv /\ Init => OrderInv
<1> SUFFICES ASSUME PartsInv, Init PROVE OrderInv
  OBVIOUS
<1> USE DEF Init, D!Init, H!Init
<1>1. TurnOf(currentJob) = 0 /\ TurnOf(gJob) = 0
  BY DEF TurnOf
<1>2. inbox = <<>> /\ stdin = <<>> /\ stdout = <<>> /\ sent = {}
  OBVIOUS
<1>3. InboxInOrder /\ LinesInOrder
  BY <1>1, <1>2, TurnType DEF InboxInOrder, LinesInOrder
<1>4. LoopInOrder /\ CohortsInOrder
  BY DEF LoopInOrder, CohortsInOrder, SettingUp, Mining
<1>5. SharesInOrder
  BY <1>2 DEF SharesInOrder
<1> QED
  BY <1>3, <1>4, <1>5 DEF OrderInv

\* What is in flight has had, or has, a turn.
LEMMA InFlight ==
  ASSUME PartsInv
  PROVE  /\ currentJob = None \/ currentJob \in D!PoolJobs
         /\ inbox \in Seq(D!PoolJobs \cup {Idle}) /\ poolIdx \in 1..Len(JobSeq)
         /\ stdin \in Seq({D!LineOf(j) : j \in D!PoolJobs})
         /\ gJob = None \/ gJob \in H!Jobs
         /\ stdout \in Seq(HP!ShareType)
<1>1. DP!PoolJobs = D!PoolJobs /\ HP!Jobs = H!Jobs
  BY DEF D!PoolJobs, DP!PoolJobs, HP!Jobs, H!Jobs, HP!WellFormed, H!WellFormed,
     HP!Parsed, H!Parsed
<1>2. DP!Issued \subseteq D!PoolJobs
  BY <1>1, DriverAssumptions, DP!IssuedAreJobs DEF PartsInv, DP!DInv
<1> QED
  BY <1>1, <1>2
     DEF PartsInv, DP!DInv, DP!DriverTypeOK, DP!JobsIssued, HP!IInv, HP!TypeOK

\* The job the driver handles next is one turn on at most, and keeps its turn only
\* if it asks the same.
LEMMA PushedTurn ==
  ASSUME EachPubkeyOnce, PartsInv, InboxInOrder, D!PushJob
  PROVE  /\ currentJob' = Head(inbox) /\ currentJob' # None
         /\ TurnOf(currentJob') = Turn(Head(inbox).pubkey)
         /\ TurnOf(currentJob) <= TurnOf(currentJob')
         /\ IF TurnOf(currentJob) = TurnOf(currentJob') THEN UNCHANGED stdin
            ELSE stdin' = stdin \/ stdin' = Append(stdin, D!LineOf(currentJob'))
<1>1. currentJob' = Head(inbox) /\ currentJob' \in D!PoolJobs /\ currentJob' # None
  <2>1. currentJob' \in D!PoolJobs /\ D!JobKey(currentJob') # None
    BY PushedLine, PipelineAssumption DEF D!KeyAssumption
  <2> QED
    BY <2>1, PipelineAssumption DEF D!KeyAssumption, D!PushJob
<1>2. inbox # <<>> /\ Head(inbox) # Idle /\ Head(inbox) = inbox[1] /\ 1 \in 1..Len(inbox)
  BY InFlight DEF D!PushJob
<1>3. TurnOf(currentJob') = Turn(Head(inbox).pubkey)
  BY <1>1 DEF TurnOf
<1>4. TurnOf(currentJob) <= TurnOf(currentJob')
  BY <1>2, <1>3 DEF InboxInOrder
<1>5. ASSUME TurnOf(currentJob) = TurnOf(currentJob') PROVE UNCHANGED stdin
  <2>1. Turn(Head(inbox).pubkey) # 0
    <3>1. PICK k \in 1..Len(JobSeq) : Head(inbox) = JobSeq[k]
      BY <1>1 DEF D!PoolJobs
    <3> QED
      BY <3>1, TurnIs
  <2>2. currentJob # None /\ currentJob \in D!PoolJobs
    BY <1>3, <1>5, <2>1, InFlight DEF TurnOf
  <2>3. D!JobKey(currentJob) = D!JobKey(currentJob')
    BY <1>1, <1>3, <1>5, <2>2, OneKeyPerTurn DEF TurnOf
  <2>4. lastJobKey = D!JobKey(currentJob)
    BY <2>2 DEF PartsInv, DP!DInv, DP!VerdictOnCurrent, D!JobKey, DP!JobKey
  <2> QED
    BY <1>1, <2>3, <2>4 DEF D!PushJob
<1> QED
  BY <1>1, <1>3, <1>4, <1>5, PushedLine

LEMMA TailIs ==
  ASSUME NEW S, NEW q \in Seq(S), q # <<>>
  PROVE  /\ Len(Tail(q)) = Len(q) - 1 /\ Len(q) \in Nat /\ 1 \in 1..Len(q)
         /\ Head(q) = q[1]
         /\ \A i \in 1..Len(Tail(q)) : Tail(q)[i] = q[i + 1] /\ i + 1 \in 1..Len(q)
OBVIOUS

LEMMA NextInbox ==
  ASSUME EachPubkeyOnce, PartsInv, InboxInOrder, [Next]_vars PROVE InboxInOrder'
<1> USE DEF D!conn, D!jobs, D!pipes
<1> DEFINE newest == Turn(JobSeq[poolIdx].pubkey)
<1>1. CASE UNCHANGED <<inbox, currentJob, poolIdx>>
  BY <1>1 DEF InboxInOrder
<1>2. CASE inbox' = <<>> /\ UNCHANGED <<currentJob, poolIdx>>
  BY <1>2 DEF InboxInOrder
<1>3. CASE D!PushJob
  <2>1. /\ inbox # <<>> /\ Head(inbox) # Idle /\ inbox' = Tail(inbox)
        /\ UNCHANGED poolIdx
    BY <1>3 DEF D!PushJob
  <2>2. TurnOf(currentJob') = Turn(inbox[1].pubkey) /\ inbox[1] # Idle
    BY <1>3, <2>1, PushedTurn, InFlight, TailIs
  <2>3. TurnOf(currentJob') <= newest
    BY <2>1, <2>2, InFlight, TailIs DEF InboxInOrder
  <2>4. \A i \in 1..Len(inbox') :
          /\ inbox'[i] = inbox[i + 1] /\ i + 1 \in 1..Len(inbox)
          /\ 1 \in 1..(i + 1) /\ \A k \in 1..i : k + 1 \in 1..(i + 1)
                                   /\ inbox'[k] = inbox[k + 1]
    BY <2>1, InFlight, TailIs
  <2>5. \A i \in 1..Len(inbox') : inbox'[i] # Idle =>
          /\ TurnOf(currentJob') <= Turn(inbox'[i].pubkey)
          /\ Turn(inbox'[i].pubkey) <= newest
          /\ \A k \in 1..i : inbox'[k] # Idle =>
               Turn(inbox'[k].pubkey) <= Turn(inbox'[i].pubkey)
    BY <2>2, <2>4 DEF InboxInOrder
  <2> QED
    BY <2>1, <2>3, <2>5 DEF InboxInOrder
<1>4. CASE D!IdleJob
  <2>1. inbox # <<>> /\ inbox' = Tail(inbox) /\ UNCHANGED <<currentJob, poolIdx>>
    BY <1>4 DEF D!IdleJob
  <2>2. \A i \in 1..Len(inbox') :
          /\ inbox'[i] = inbox[i + 1] /\ i + 1 \in 1..Len(inbox)
          /\ \A k \in 1..i : k + 1 \in 1..(i + 1) /\ inbox'[k] = inbox[k + 1]
    BY <2>1, InFlight, TailIs
  <2> QED
    BY <2>1, <2>2 DEF InboxInOrder
<1>5. ASSUME NEW m, D!PoolSends(m), m = Idle \/ m = JobSeq[poolIdx] PROVE InboxInOrder'
  <2>1. inbox' = Append(inbox, m) /\ UNCHANGED <<currentJob, poolIdx>>
    BY <1>5 DEF D!PoolSends
  <2>2. \A i \in 1..Len(inbox') :
          /\ inbox'[i] = m \/ (i \in 1..Len(inbox) /\ inbox'[i] = inbox[i])
          /\ \A k \in 1..i : inbox'[k] = m \/ (k \in 1..Len(inbox) /\ inbox'[k] = inbox[k])
    BY <2>1, InFlight
  <2>3. \A i \in 1..Len(inbox') : inbox'[i] # Idle =>
          TurnOf(currentJob) <= Turn(inbox'[i].pubkey) /\ Turn(inbox'[i].pubkey) <= newest
    BY <1>5, <2>2, TurnType DEF InboxInOrder
  <2>4. ASSUME NEW i \in 1..Len(inbox'), inbox'[i] # Idle,
               NEW k \in 1..i, inbox'[k] # Idle
        PROVE  Turn(inbox'[k].pubkey) <= Turn(inbox'[i].pubkey)
    <3>1. CASE i = Len(inbox')
      <4>1. inbox'[i] = m /\ k \in 1..Len(inbox')
        BY <2>1, <3>1, InFlight
      <4> QED
        BY <1>5, <2>3, <2>4, <4>1
    <3>2. CASE i # Len(inbox')
      <4>1. i \in 1..Len(inbox) /\ inbox'[i] = inbox[i] /\ inbox'[k] = inbox[k]
        BY <2>1, <3>2, InFlight
      <4> QED
        BY <2>4, <4>1 DEF InboxInOrder
    <3> QED
      BY <3>1, <3>2
  <2> QED
    BY <2>1, <2>3, <2>4 DEF InboxInOrder
<1>6. CASE D!PoolNextJob
  <2>1. poolIdx' = poolIdx + 1 /\ poolIdx < Len(JobSeq) /\ UNCHANGED <<inbox, currentJob>>
    BY <1>6 DEF D!PoolNextJob
  <2>2. newest <= Turn(JobSeq[poolIdx'].pubkey)
    BY <2>1, TurnsInOrder, InFlight
  <2>3. \A pubkey : Turn(pubkey) <= newest => Turn(pubkey) <= Turn(JobSeq[poolIdx'].pubkey)
    BY <2>2, TurnType
  <2>4. TurnOf(currentJob) <= newest
    BY DEF InboxInOrder
  <2>5. TurnOf(currentJob) <= Turn(JobSeq[poolIdx'].pubkey)
    BY <2>2, <2>4, TurnType, TurnOfType
  <2> QED
    BY <2>1, <2>3, <2>5 DEF InboxInOrder
<1>7. \/ UNCHANGED <<inbox, currentJob, poolIdx>>
      \/ inbox' = <<>> /\ UNCHANGED <<currentJob, poolIdx>>
      \/ D!PushJob \/ D!IdleJob \/ D!PoolNextJob
      \/ D!PoolSends(Idle) \/ D!PoolSends(JobSeq[poolIdx])
  BY DEF Next, Harness, BrokenPipe, driverOwn, Driver, D!Driver, D!Open, D!Close,
     D!Reconnect, D!OnShare, D!SubmitShare, D!DropShare, Pool, D!Pool,
     D!PoolAcceptsLogin, Sigint, D!Sigint, DriverExit, DriverKilled, D!ProcessExit, vars
<1> QED
  BY <1>1, <1>2, <1>3, <1>4, <1>5, <1>6, <1>7

LEMMA NextLines ==
  ASSUME EachPubkeyOnce, PartsInv, InboxInOrder, LinesInOrder, [Next]_vars
  PROVE  LinesInOrder'
<1> USE DEF D!conn, D!jobs, D!pipes, H!shared, harnessOwn, driverOwn, pipes
<1>1. CASE UNCHANGED <<stdin, gJob, currentJob>>
  BY <1>1 DEF LinesInOrder
<1>2. CASE H!ReadLine /\ UNCHANGED driverOwn
  <2>1. stdin # <<>> /\ stdin' = Tail(stdin) /\ UNCHANGED currentJob
    BY <1>2 DEF H!ReadLine
  <2>2. \A i \in 1..Len(stdin') :
          /\ stdin'[i] = stdin[i + 1] /\ i + 1 \in 1..Len(stdin) /\ 1 \in 1..((i + 1) - 1)
          /\ \A k \in 1..(i - 1) : k + 1 \in 1..((i + 1) - 1) /\ stdin'[k] = stdin[k + 1]
    BY <2>1, InFlight, TailIs
  <2>3. \/ TurnOf(gJob') = TurnOf(gJob)
        \/ TurnOf(gJob') = Turn(stdin[1].pubkey)
    <3>1. CASE H!WellFormed(Head(stdin))
      <4>1. gJob' = H!Parsed(Head(stdin)) /\ gJob' # None
        <5>1. Head(stdin) \in {D!LineOf(j) : j \in D!PoolJobs}
          BY <2>1, InFlight
        <5> QED
          BY <1>2, <3>1, <5>1, PipelineAssumption DEF H!ReadLine, H!Jobs, H!NoneAssumption
      <4>2. Head(stdin) = stdin[1]
        BY <2>1, InFlight, TailIs
      <4> QED
        BY <4>1, <4>2 DEF TurnOf, H!Parsed
    <3>2. CASE ~ H!WellFormed(Head(stdin))
      BY <1>2, <3>2 DEF H!ReadLine
    <3> QED
      BY <3>1, <3>2
  <2>4. TurnOf(gJob') <= TurnOf(currentJob)
    BY <2>1, <2>3, InFlight, TailIs DEF LinesInOrder
  <2>5. \A i \in 1..Len(stdin') :
          /\ TurnOf(gJob') < Turn(stdin'[i].pubkey)
          /\ Turn(stdin'[i].pubkey) <= TurnOf(currentJob)
          /\ \A k \in 1..(i - 1) : Turn(stdin'[k].pubkey) < Turn(stdin'[i].pubkey)
    BY <2>2, <2>3 DEF LinesInOrder
  <2> QED
    BY <2>1, <2>4, <2>5 DEF LinesInOrder
<1>3. CASE D!PushJob /\ UNCHANGED harnessOwn
  <2>1. TurnOf(currentJob) <= TurnOf(currentJob') /\ UNCHANGED gJob
        /\ \A pubkey : Turn(pubkey) <= TurnOf(currentJob)
                         => Turn(pubkey) <= TurnOf(currentJob')
    BY <1>3, PushedTurn, TurnType, TurnOfType
  <2>2. TurnOf(gJob) <= TurnOf(currentJob')
    BY <2>1, TurnOfType DEF LinesInOrder
  <2>3. CASE UNCHANGED stdin
    BY <2>1, <2>2, <2>3 DEF LinesInOrder
  <2>4. CASE /\ stdin' = Append(stdin, D!LineOf(currentJob'))
             /\ TurnOf(currentJob) # TurnOf(currentJob')
    <3>1. Turn(D!LineOf(currentJob').pubkey) = TurnOf(currentJob')
      BY <1>3, PushedTurn DEF D!LineOf
    <3>2. \A i \in 1..Len(stdin') :
            /\ \/ i = Len(stdin) + 1 /\ stdin'[i] = D!LineOf(currentJob')
               \/ i \in 1..Len(stdin) /\ stdin'[i] = stdin[i]
            /\ \A k \in 1..(i - 1) : k \in 1..Len(stdin) /\ stdin'[k] = stdin[k]
      BY <2>4, InFlight
    <3>3. /\ TurnOf(gJob) < TurnOf(currentJob')
          /\ \A pubkey : Turn(pubkey) <= TurnOf(currentJob)
                           => Turn(pubkey) < TurnOf(currentJob')
      BY <2>1, <2>4, TurnType, TurnOfType DEF LinesInOrder
    <3>4. ASSUME NEW i \in 1..Len(stdin')
          PROVE  /\ TurnOf(gJob') < Turn(stdin'[i].pubkey)
                 /\ Turn(stdin'[i].pubkey) <= TurnOf(currentJob')
                 /\ \A k \in 1..(i - 1) : Turn(stdin'[k].pubkey) < Turn(stdin'[i].pubkey)
      <4>1. CASE stdin'[i] = D!LineOf(currentJob')
        BY <2>1, <3>1, <3>2, <3>3, <4>1, TurnOfType DEF LinesInOrder
      <4>2. CASE i \in 1..Len(stdin) /\ stdin'[i] = stdin[i]
        BY <2>1, <3>2, <4>2 DEF LinesInOrder
      <4> QED
        BY <3>2, <4>1, <4>2
    <3> QED
      BY <2>2, <2>1, <3>4 DEF LinesInOrder
  <2> QED
    BY <1>3, <2>3, <2>4, PushedTurn, PushedLine
<1>4. \/ UNCHANGED <<stdin, gJob, currentJob>>
      \/ H!ReadLine /\ UNCHANGED driverOwn
      \/ D!PushJob /\ UNCHANGED harnessOwn
  <2>1. CASE Harness
    BY <2>1 DEF Harness, H!Reader, H!EndOfInput, MainLoop, H!Stop, H!TakeJob, H!KeepJob,
       H!Rekey, H!SetJob, H!ScoreInitial, H!ScoreInitialFails, H!EnterCohort,
       H!CohortStep, H!CohortStepFails, H!LeaveCohort, H!PrintShare, H!SkipLane
  <2>2. CASE Driver
    BY <2>2 DEF Driver, D!Driver, D!Open, D!Close, D!Reconnect, D!IdleJob, D!OnShare,
       D!SubmitShare, D!DropShare
  <2>3. CASE Pool \/ Sigint \/ DriverExit \/ DriverKilled \/ BrokenPipe
    BY <2>3 DEF Pool, D!Pool, D!PoolAcceptsLogin, D!PoolSends, D!PoolNextJob, Sigint,
       D!Sigint, DriverExit, DriverKilled, D!ProcessExit, BrokenPipe
  <2> QED
    BY <2>1, <2>2, <2>3 DEF Next, vars
<1> QED
  BY <1>1, <1>2, <1>3, <1>4

\* What the main loop and the reader leave alone.
LEMMA LoopSteps ==
  ASSUME [Next]_vars
  PROVE  \/ H!ReadLine
         \/ H!TakeJob
         \/ UNCHANGED <<gJob, gGen, job, seenGen>>
<1> USE DEF H!shared, H!main, harnessOwn
<1>1. CASE Harness
  BY <1>1 DEF Harness, H!Reader, H!EndOfInput, MainLoop, H!Stop, H!KeepJob,
     H!Rekey, H!SetJob, H!ScoreInitial, H!ScoreInitialFails, H!EnterCohort,
     H!CohortStep, H!CohortStepFails, H!LeaveCohort, H!PrintShare, H!SkipLane
<1>2. CASE Driver \/ Pool \/ Sigint \/ DriverExit \/ DriverKilled \/ BrokenPipe
  BY <1>2 DEF Driver, Pool, Sigint, DriverExit, DriverKilled, BrokenPipe
<1> QED
  BY <1>1, <1>2 DEF Next, vars

LEMMA NextLoop ==
  ASSUME PartsInv, LinesInOrder, LoopInOrder, [Next]_vars PROVE LoopInOrder'
<1>1. gGen \in Nat /\ seenGen \in Nat
  BY DEF PartsInv, HP!IInv, HP!TypeOK
<1>2. CASE H!ReadLine
  <2>1. UNCHANGED <<job, seenGen>>
    BY <1>2 DEF H!ReadLine, H!main
  <2>2. CASE ~ H!WellFormed(Head(stdin))
    BY <1>2, <2>1, <2>2 DEF H!ReadLine, LoopInOrder
  <2>3. CASE H!WellFormed(Head(stdin))
    <3>1. gJob' = H!Parsed(Head(stdin)) /\ gGen' = gGen + 1 /\ stdin # <<>>
      BY <1>2, <2>3 DEF H!ReadLine
    <3>2. Head(stdin) \in {D!LineOf(j) : j \in D!PoolJobs}
          /\ Head(stdin) = stdin[1] /\ 1 \in 1..Len(stdin)
      BY <3>1, InFlight, TailIs
    <3>3. gJob' # None
      BY <2>3, <3>1, <3>2, PipelineAssumption DEF H!Jobs, H!NoneAssumption
    <3>4. TurnOf(gJob') = Turn(stdin[1].pubkey)
      BY <3>1, <3>2, <3>3 DEF TurnOf, H!Parsed
    <3>5. TurnOf(gJob) < TurnOf(gJob')
      BY <3>2, <3>4 DEF LinesInOrder
    <3>6. seenGen < gGen' /\ TurnOf(job) < TurnOf(gJob')
      BY <1>1, <3>1, <3>5, TurnOfType DEF LoopInOrder
    <3> QED
      BY <2>1, <3>6 DEF LoopInOrder
  <2> QED
    BY <2>2, <2>3
<1>3. CASE H!TakeJob
  BY <1>3 DEF H!TakeJob, H!shared, LoopInOrder
<1>4. CASE UNCHANGED <<gJob, gGen, job, seenGen>>
  BY <1>4 DEF LoopInOrder
<1> QED
  BY <1>2, <1>3, <1>4, LoopSteps

\* A step that leaves the main loop where it is, or one of its own.
LEMMA MainLoopSteps ==
  ASSUME [Next]_vars
  PROVE  \/ UNCHANGED <<pc, job, curPubkey, haveJob, nonceCtr, firstNonce, lane>>
         \/ pc = "print" /\ pc' = "stopped" /\ UNCHANGED job
         \/ MainLoop
<1> USE DEF H!main, H!current, H!cohort, H!shared, harnessOwn
<1>1. CASE Harness
  BY <1>1 DEF Harness, H!Reader, H!ReadLine, H!EndOfInput
<1>2. CASE Driver \/ Pool \/ Sigint \/ DriverExit \/ DriverKilled
  BY <1>2 DEF Driver, Pool, Sigint, DriverExit, DriverKilled
<1>3. CASE BrokenPipe
  BY <1>3 DEF BrokenPipe
<1> QED
  BY <1>1, <1>2, <1>3 DEF Next, vars

LEMMA NextCohorts ==
  ASSUME Cohort < NonceSpace, PartsInv, CohortsInOrder, [Next]_vars
  PROVE  CohortsInOrder'
<1>1. 0 + Cohort < NonceSpace
  BY HarnessAssumptions
<1>2. ASSUME pc = "cohort" PROVE (nonceCtr + Cohort) % NonceSpace = nonceCtr + Cohort
  <2>1. nonceCtr \in Nat /\ nonceCtr + Cohort < NonceSpace
    BY <1>2 DEF CohortsInOrder, PartsInv, HP!IInv, HP!TypeOK, HP!Nonces
  <2> QED
    BY <2>1, HarnessAssumptions
<1> USE DEF CohortsInOrder, SettingUp, Mining, H!main, H!current, H!cohort, H!shared
<1>3. CASE UNCHANGED <<pc, job, curPubkey, haveJob, nonceCtr, firstNonce, lane>>
  BY <1>3
<1>4. CASE pc = "print" /\ pc' = "stopped" /\ UNCHANGED job
  BY <1>4
<1>5. CASE H!Stop \/ H!ScoreInitialFails \/ H!CohortStepFails \/ H!CohortStep
  BY <1>5 DEF H!Stop, H!ScoreInitialFails, H!CohortStepFails, H!CohortStep
<1>6. CASE H!TakeJob
  BY <1>6 DEF H!TakeJob
<1>7. CASE NoncesLeft /\ H!KeepJob
  BY <1>7 DEF NoncesLeft, H!KeepJob
<1>8. CASE H!Rekey \/ H!SetJob
  BY <1>8 DEF H!Rekey, H!SetJob
<1>9. CASE H!ScoreInitial
  BY <1>9, <1>1 DEF H!ScoreInitial
<1>10. CASE H!EnterCohort
  BY <1>10, <1>2 DEF H!EnterCohort
<1>11. CASE H!LeaveCohort
  BY <1>11 DEF H!LeaveCohort
<1>12. CASE H!PrintShare \/ H!SkipLane
  BY <1>12 DEF H!PrintShare, H!SkipLane, H!NextLane
<1> QED
  BY <1>3, <1>4, <1>5, <1>6, <1>7, <1>8, <1>9, <1>10, <1>11, <1>12, MainLoopSteps
     DEF MainLoop

\* The lane looked at has the next nonce, and the one after it is next then.
LEMMA LaneNonce ==
  ASSUME PartsInv, CohortsInOrder, H!PrintShare \/ H!SkipLane
  PROVE  /\ NextNonce \in Nat /\ NextNonce' = NextNonce + 1
         /\ H!NonceOf(lane) = NextNonce
         /\ job # None /\ curPubkey = job.pubkey /\ Mining /\ UNCHANGED job
         /\ pc' \in {"print", "top"}
<1>1. pc = "print" /\ H!NextLane /\ UNCHANGED <<job, firstNonce, nonceCtr>>
  BY DEF H!PrintShare, H!SkipLane
<1>2. Mining /\ job # None /\ curPubkey = job.pubkey /\ nonceCtr = firstNonce + Cohort
  BY <1>1 DEF CohortsInOrder, Mining
<1>3. /\ firstNonce \in Nat /\ nonceCtr \in 0..(NonceSpace - 1) /\ lane \in 1..Cohort
      /\ Cohort \in Nat /\ NonceSpace \in Nat \ {0}
  BY HarnessAssumptions DEF PartsInv, HP!IInv, HP!TypeOK, HP!Nonces, HP!Lanes
<1>4. NextNonce = firstNonce + lane - 1 /\ NextNonce \in Nat
  BY <1>1, <1>3 DEF NextNonce
<1>5. H!NonceOf(lane) = NextNonce
  BY <1>2, <1>3, <1>4 DEF H!NonceOf
<1>6. pc' \in {"print", "top"} /\ NextNonce' = NextNonce + 1
  <2>1. CASE lane < Cohort
    BY <1>1, <1>3, <1>4, <2>1 DEF H!NextLane, NextNonce
  <2>2. CASE ~ (lane < Cohort)
    BY <1>1, <1>2, <1>3, <1>4, <2>2 DEF H!NextLane, NextNonce
  <2> QED
    BY <2>1, <2>2
<1> QED
  BY <1>1, <1>2, <1>4, <1>5, <1>6

\* A share that is behind the loop stays behind it.
LEMMA NextBehind ==
  ASSUME PartsInv, LoopInOrder, CohortsInOrder, [Next]_vars,
         NEW share, share.nonce \in Nat, Behind(share)
  PROVE  Behind(share)'
<1>1. ASSUME ~ SettingUp', ~ Mining', UNCHANGED job PROVE Behind(share)'
  BY <1>1 DEF Behind
<1>2. ASSUME SettingUp, UNCHANGED job PROVE Behind(share)'
  BY <1>2 DEF Behind
<1>3. ASSUME Mining, ~ SettingUp', UNCHANGED job, NextNonce \in Nat, NextNonce' \in Nat,
             NextNonce <= NextNonce'
      PROVE  Behind(share)'
  <2>1. share.pubkey = job.pubkey => share.nonce < NextNonce'
    BY <1>3 DEF Behind
  <2> QED
    BY <1>3, <2>1 DEF Behind
<1>4. firstNonce \in Nat /\ nonceCtr \in Nat
  BY HarnessAssumptions DEF PartsInv, HP!IInv, HP!TypeOK, HP!Nonces
<1>5. CASE UNCHANGED <<pc, job, curPubkey, haveJob, nonceCtr, firstNonce, lane>>
  BY <1>5 DEF Behind, SettingUp, Mining, NextNonce
<1>6. CASE pc = "print" /\ pc' = "stopped" /\ UNCHANGED job
  BY <1>1, <1>6 DEF SettingUp, Mining
<1>7. CASE H!Stop \/ H!ScoreInitialFails \/ H!CohortStepFails
  <2>1. UNCHANGED job
    BY <1>7 DEF H!Stop, H!ScoreInitialFails, H!CohortStepFails
  <2>2. ~ SettingUp' /\ ~ Mining'
    BY <1>7 DEF H!Stop, H!ScoreInitialFails, H!CohortStepFails, SettingUp, Mining
  <2> QED
    BY <1>1, <2>1, <2>2
<1>8. CASE H!TakeJob
  <2>1. gGen # seenGen /\ gJob # None /\ job' = gJob
    BY <1>8 DEF H!TakeJob
  <2>2. TurnOf(job) < TurnOf(job')
    BY <2>1 DEF LoopInOrder
  <2>3. TurnOf(job') = Turn(job'.pubkey)
    BY <2>1 DEF TurnOf
  <2>4. Turn(share.pubkey) < TurnOf(job')
    BY <2>2, TurnType, TurnOfType DEF Behind
  <2>5. share.pubkey # job'.pubkey /\ Turn(share.pubkey) <= TurnOf(job')
    BY <2>3, <2>4, TurnType, TurnOfType
  <2> QED
    BY <2>5 DEF Behind
<1>9. CASE H!Rekey \/ H!SetJob \/ H!ScoreInitial
  <2>1. SettingUp /\ UNCHANGED job
    BY <1>9 DEF H!Rekey, H!SetJob, H!ScoreInitial, SettingUp
  <2> QED
    BY <1>2, <2>1
<1>10. CASE H!KeepJob
  <2>1. pc = "top" /\ haveJob /\ pc' = "cohort" /\ UNCHANGED <<job, nonceCtr>>
    BY <1>10 DEF H!KeepJob
  <2>2. NextNonce = nonceCtr /\ NextNonce' = nonceCtr
    BY <2>1 DEF NextNonce
  <2>3. Mining /\ ~ SettingUp'
    BY <2>1 DEF Mining, SettingUp
  <2> QED
    BY <1>3, <1>4, <2>1, <2>2, <2>3
<1>11. CASE H!EnterCohort
  <2>1. pc = "cohort" /\ pc' = "steps" /\ firstNonce' = nonceCtr /\ UNCHANGED job
    BY <1>11 DEF H!EnterCohort
  <2>2. NextNonce = nonceCtr /\ NextNonce' = nonceCtr
    BY <2>1 DEF NextNonce
  <2>3. Mining /\ ~ SettingUp'
    BY <2>1 DEF Mining, SettingUp
  <2> QED
    BY <1>3, <1>4, <2>1, <2>2, <2>3
<1>12. CASE H!CohortStep
  BY <1>5, <1>12 DEF H!CohortStep, H!current
<1>13. CASE H!LeaveCohort
  <2>1. pc = "steps" /\ pc' = "print" /\ lane' = 1 /\ UNCHANGED <<firstNonce, job>>
    BY <1>13 DEF H!LeaveCohort
  <2>2. NextNonce = firstNonce /\ NextNonce' = firstNonce
    BY <1>4, <2>1 DEF NextNonce
  <2>3. Mining /\ ~ SettingUp'
    BY <2>1 DEF Mining, SettingUp
  <2> QED
    BY <1>3, <1>4, <2>1, <2>2, <2>3
<1>14. CASE H!PrintShare \/ H!SkipLane
  <2>1. /\ NextNonce \in Nat /\ NextNonce' = NextNonce + 1 /\ Mining /\ UNCHANGED job
        /\ pc' \in {"print", "top"}
    BY <1>14, LaneNonce
  <2>2. ~ SettingUp'
    BY <2>1 DEF SettingUp
  <2>3. NextNonce' \in Nat /\ NextNonce <= NextNonce'
    BY <2>1
  <2> QED
    BY <1>3, <2>1, <2>2, <2>3
<1> QED
  BY <1>5, <1>6, <1>7, <1>8, <1>9, <1>10, <1>11, <1>12, <1>13, <1>14, MainLoopSteps
     DEF MainLoop

LEMMA ShareSteps ==
  ASSUME [Next]_vars
  PROVE  \/ UNCHANGED <<stdout, sent>>
         \/ H!PrintShare /\ UNCHANGED sent
         \/ D!SubmitShare
         \/ D!DropShare
<1> USE DEF H!main, H!current, H!cohort, H!shared, harnessOwn, driverOwn, pipes,
            D!conn, D!jobs, D!pipes
<1>1. CASE Harness
  BY <1>1 DEF Harness, H!Reader, H!ReadLine, H!EndOfInput, MainLoop, H!Stop, H!TakeJob,
     H!KeepJob, H!Rekey, H!SetJob, H!ScoreInitial, H!ScoreInitialFails, H!EnterCohort,
     H!CohortStep, H!CohortStepFails, H!LeaveCohort, H!SkipLane
<1>2. CASE Driver
  BY <1>2 DEF Driver, D!Driver, D!Open, D!Close, D!Reconnect, D!PushJob, D!IdleJob,
     D!OnShare
<1>3. CASE Pool \/ Sigint \/ DriverExit \/ DriverKilled \/ BrokenPipe
  BY <1>3 DEF Pool, D!Pool, D!PoolAcceptsLogin, D!PoolSends, D!PoolNextJob, Sigint,
     D!Sigint, DriverExit, DriverKilled, D!ProcessExit, BrokenPipe
<1> QED
  BY <1>1, <1>2, <1>3 DEF Next, vars

\* The share printed is ahead of all that were.
LEMMA PrintedIsNew ==
  ASSUME PartsInv, CohortsInOrder, H!PrintShare
  PROVE  /\ \A share : share.nonce \in Nat /\ Behind(share) =>
              ~ SameTry(share, H!Share(lane))
         /\ \E share : share = H!Share(lane) /\ share.nonce \in Nat /\ Behind(share)'
<1> DEFINE printed == H!Share(lane)
<1>1. /\ NextNonce \in Nat /\ NextNonce' = NextNonce + 1 /\ H!NonceOf(lane) = NextNonce
      /\ job # None /\ curPubkey = job.pubkey /\ Mining /\ UNCHANGED job
      /\ pc' \in {"print", "top"}
  BY LaneNonce
<1>2. printed.pubkey = job.pubkey /\ printed.nonce = NextNonce
  BY <1>1 DEF H!Share
<1>3. ~ SettingUp'
  BY <1>1 DEF SettingUp
<1> HIDE DEF printed
<1>4. \A share : share.nonce \in Nat /\ Behind(share) => ~ SameTry(share, printed)
  BY <1>1, <1>2 DEF Behind, SameTry
<1>5. Turn(job.pubkey) = TurnOf(job)
  BY <1>1 DEF TurnOf
<1>6. PICK share : share = printed
  OBVIOUS
<1>7. Turn(share.pubkey) <= TurnOf(job') /\ share.nonce < NextNonce'
  BY <1>1, <1>2, <1>5, <1>6, TurnType
<1>8. share.nonce \in Nat /\ Behind(share)'
  BY <1>1, <1>2, <1>3, <1>6, <1>7 DEF Behind
<1> QED
  BY <1>4, <1>6, <1>8 DEF printed

LEMMA NextShares ==
  ASSUME PartsInv, LoopInOrder, CohortsInOrder, SharesInOrder, [Next]_vars
  PROVE  SharesInOrder'
<1>1. \A i \in 1..Len(stdout) : stdout[i].nonce \in Nat
  <2>1. \A i \in 1..Len(stdout) : stdout[i] \in HP!ShareType
    BY InFlight
  <2> QED
    BY <2>1, HarnessAssumptions DEF HP!ShareType, HP!Nonces
<1>2. \A i \in 1..Len(stdout) : \E share : share = stdout[i] /\ Behind(share)'
  <2> SUFFICES ASSUME NEW i \in 1..Len(stdout)
               PROVE  \E share : share = stdout[i] /\ Behind(share)'
    OBVIOUS
  <2>1. PICK share : share = stdout[i]
    OBVIOUS
  <2>2. share.nonce \in Nat /\ Behind(share)
    BY <1>1, <2>1 DEF SharesInOrder
  <2> QED
    BY <2>1, <2>2, NextBehind
<1>3. \A sub \in sent : sub.nonce \in Nat /\ Behind(sub)'
  BY NextBehind DEF SharesInOrder
<1>4. CASE UNCHANGED <<stdout, sent>>
  BY <1>2, <1>3, <1>4 DEF SharesInOrder, Behind
<1>5. CASE H!PrintShare /\ UNCHANGED sent
  <2> DEFINE printed == H!Share(lane)
  <2>1. stdout' = Append(stdout, printed)
    BY <1>5 DEF H!PrintShare
  <2>2. \A i \in 1..Len(stdout') :
          /\ \/ i \in 1..Len(stdout) /\ stdout'[i] = stdout[i]
             \/ stdout'[i] = printed
          /\ \A k \in 1..(i - 1) : k \in 1..Len(stdout) /\ stdout'[k] = stdout[k]
    BY <2>1, InFlight
  <2>3. \A share : share.nonce \in Nat /\ Behind(share) => ~ SameTry(share, printed)
    BY <1>5, PrintedIsNew
  <2>4. /\ \A i \in 1..Len(stdout) : ~ SameTry(stdout[i], printed)
        /\ \A sub \in sent : ~ SameTry(sub, printed)
    BY <1>1, <2>3 DEF SharesInOrder
  <2>5. PICK share : share = printed /\ Behind(share)'
    BY <1>5, PrintedIsNew
  <2> HIDE DEF printed
  <2> QED
    BY <1>2, <1>3, <1>5, <2>2, <2>4, <2>5 DEF SharesInOrder, Behind
<1>6. CASE D!SubmitShare \/ D!DropShare
  <2>1. stdout # <<>> /\ stdout' = Tail(stdout)
    BY <1>6 DEF D!SubmitShare, D!DropShare
  <2>2. \A i \in 1..Len(stdout') :
          /\ stdout'[i] = stdout[i + 1] /\ i + 1 \in 1..Len(stdout) /\ 1 \in 1..((i + 1) - 1)
          /\ \A k \in 1..(i - 1) : k + 1 \in 1..((i + 1) - 1) /\ stdout'[k] = stdout[k + 1]
    BY <2>1, InFlight, TailIs
  <2>3. Head(stdout) = stdout[1] /\ 1 \in 1..Len(stdout)
    BY <2>1, InFlight, TailIs
  <2>4. \A sub \in sent' \ sent : SameTry(sub, stdout[1])
    <3>1. CASE D!DropShare
      BY <3>1 DEF D!DropShare
    <3>2. CASE D!SubmitShare
      BY <2>3, <3>2 DEF D!SubmitShare, D!Submission, D!Stale, SameTry
    <3> QED
      BY <1>6, <3>1, <3>2
  <2>5. \A sub \in sent' : sub.nonce \in Nat /\ Behind(sub)'
    <3>1. \A sub \in sent' \ sent : sub.nonce \in Nat /\ Behind(sub)'
      BY <1>1, <1>2, <2>3, <2>4 DEF Behind, SameTry
    <3> QED
      BY <1>3, <3>1
  <2>6. \A i \in 1..Len(stdout') :
          /\ \A k \in 1..(i - 1) : ~ SameTry(stdout'[k], stdout'[i])
          /\ \A sub \in sent' : ~ SameTry(sub, stdout'[i])
    <3>1. \A i \in 1..Len(stdout') : \A sub \in sent' : ~ SameTry(sub, stdout'[i])
      BY <2>2, <2>4 DEF SharesInOrder, SameTry
    <3>2. \A i \in 1..Len(stdout') : \A k \in 1..(i - 1) : ~ SameTry(stdout'[k], stdout'[i])
      BY <2>2 DEF SharesInOrder
    <3> QED
      BY <3>1, <3>2
  <2>7. \A i \in 1..Len(stdout') : \E share : share = stdout'[i] /\ Behind(share)'
    BY <1>2, <2>2
  <2> QED
    BY <2>5, <2>6, <2>7 DEF SharesInOrder, Behind
<1> QED
  BY <1>4, <1>5, <1>6, ShareSteps

LEMMA StepOrder ==
  EachPubkeyOnce /\ Cohort < NonceSpace /\ PartsInv /\ OrderInv /\ [Next]_vars => OrderInv'
BY NextInbox, NextLines, NextLoop, NextCohorts, NextShares DEF OrderInv

\* Where no pubkey comes back and one cohort fits the counter: no nonce is submitted
\* twice for a seed and a pubkey, however often the pool repeats a job, connections
\* break and cohorts are cut short.
THEOREM SpecFreshSubmissions ==
  EachPubkeyOnce /\ Cohort < NonceSpace => (Spec => FreshSubmissions)
<1> SUFFICES ASSUME EachPubkeyOnce, Cohort < NonceSpace PROVE Spec => FreshSubmissions
  OBVIOUS
<1>1. ASSUME PartsInv, OrderInv, D!SubmitShare
      PROVE  \A old \in sent : <<old.seed, old.pubkey, old.nonce>>
                               # <<currentJob.seed, currentJob.pubkey, Head(stdout).nonce>>
  <2>1. stdout # <<>> /\ currentJob.pubkey = Head(stdout).pubkey
    BY <1>1 DEF D!SubmitShare, D!Stale
  <2>2. Head(stdout) = stdout[1] /\ 1 \in 1..Len(stdout)
    BY <1>1, <2>1, InFlight, TailIs
  <2>3. \A old \in sent : ~ SameTry(old, stdout[1])
    BY <1>1, <2>2 DEF OrderInv, SharesInOrder
  <2> QED
    BY <2>1, <2>2, <2>3 DEF SameTry
<1>2. PartsInv /\ OrderInv /\ [Next]_vars =>
        [D!SubmitShare =>
           \A old \in sent : <<old.seed, old.pubkey, old.nonce>>
                             # <<currentJob.seed, currentJob.pubkey, Head(stdout).nonce>>]_vars
  BY <1>1
<1>3. PartsInv /\ OrderInv /\ [Next]_vars => OrderInv'
  BY StepOrder
<1> QED
  BY SpecPartsInv, InitOrder, InitParts, <1>2, <1>3, PTL DEF Spec, FreshSubmissions
=============================================================================
