------------------------- MODULE StratumHarnessProofs -------------------------
(***************************************************************************)
(* For every set of job lines, cohort size, number of steps and scores:    *)
(* the stratum mode of the harness is type correct, grinds only with a     *)
(* set-up of one job, and every share it prints is one the pool accepts    *)
(* for the seed, pubkey and difficulty it names, all taken from one job.   *)
(***************************************************************************)
EXTENDS StratumHarness, TLAPS

-----------------------------------------------------------------------------
(* What the helpers return.                                                *)

\* A job parsed from an accepted line has a seed, a pubkey, and numbers that fit.
LEMMA JobType ==
  ASSUME NEW j \in Jobs
  PROVE  /\ j.seed \in Seeds /\ j.pubkey \in PubKeys
         /\ j.difficulty \in Nat /\ j.epoch \in Nat
         /\ j = [seed |-> j.seed, pubkey |-> j.pubkey,
                 difficulty |-> j.difficulty, epoch |-> j.epoch]
<1>1. PICK l \in JobLines : WellFormed(l) /\ j = Parsed(l)
  BY DEF Jobs
<1>2. l.difficulty \in Int /\ l.epoch \in Int /\ DiffMod \in Nat \ {0}
  BY HarnessAssumption
<1>3. l.difficulty % DiffMod \in Nat
  BY <1>2
<1> QED
  BY <1>1, <1>2, <1>3 DEF WellFormed, Parsed

\* Every lane's nonce fits the counter.
LEMMA NonceOfType ==
  ASSUME NEW k \in Lanes, firstNonce \in Nonces
  PROVE  NonceOf(k) \in Nonces
<1>1. firstNonce + k - 1 \in Int /\ NonceSpace \in Nat \ {0}
  BY HarnessAssumption DEF Lanes, Nonces
<1>2. (firstNonce + k - 1) % NonceSpace \in 0..(NonceSpace - 1)
  BY <1>1
<1> QED
  BY <1>2 DEF NonceOf, Nonces

-----------------------------------------------------------------------------
(* The inductive invariant.  CohortSetUp speaks of a finished set-up; while  *)
(* a new job is being set up the steps done so far have to be remembered.    *)

\* The pool is keyed for curSeed except inside a re-key.
Keyed == pc \notin {"rekey", "task load failed"} => poolSeed = curSeed

\* The copied job is a real one, and of the current seed once re-keyed.
JobCopied ==
  /\ pc \in {"rekey", "set job"} => job \in Jobs
  /\ pc = "set job" => curSeed = job.seed

\* Before it is scored, the initial table is that of the job set.
TableBuilt ==
  pc = "score0" => CurrentJob \in Jobs /\ lut0Of = <<curSeed, curPubkey>>

\* The best score of a lane is the initial one or that of a step already made.
BestFromSearch ==
  pc \in {"steps", "print"} =>
    \A k \in Lanes :
      /\ best[k] <= score0
      /\ \/ best[k] = score0
         \/ \E j \in 1..s : best[k] = StepScore[curSeed][curPubkey][NonceOf(k)][j]

SetUp == CohortSetUp /\ Keyed /\ JobCopied /\ TableBuilt
SharesOK == SharesValid /\ SharesNameOneJob

IInv == TypeOK /\ SetUp /\ BestFromSearch /\ SharesOK

\* A line in the pipe, however many there were.
LineArrives(line) ==
  /\ stdin' = Append(stdin, line)
  /\ UNCHANGED <<stdinOpen, shared, reading, main>>

\* The process ends at a write.
Killed ==
  /\ pc = "print" /\ pc' = "stopped"
  /\ UNCHANGED <<stdin, stdinOpen, shared, reading, job, seenGen, current, score0,
                 haveJob, nonceCtr, cohort, stdout>>

\* A step of the harness or of a neighbour that uses its pipes and signals as
\* they may be used.  The invariant is kept by all of them, so that what follows
\* holds for the harness composed with any such neighbour.
HStep ==
  \/ \E line \in JobLines : LineArrives(line)
  \/ CloseStdin \/ ConsumeShare \/ Signal \/ Killed
  \/ Reader \/ Main
  \/ UNCHANGED vars

\* The scores of the searches are natural numbers up to INF.
LEMMA ScoreType ==
  ASSUME NEW seed \in Seeds, NEW pubkey \in PubKeys
  PROVE  /\ Score0[seed][pubkey] \in Scores
         /\ \A nonce \in Nonces, k \in 1..NumSteps :
              StepScore[seed][pubkey][nonce][k] \in Scores
BY HarnessAssumption

LEMMA InitIInv == Init => IInv
<1> SUFFICES ASSUME Init PROVE IInv
  OBVIOUS
<1> USE DEF Init
<1>1. TypeOK
  <2>1. 0 \in Scores /\ 0 \in Nonces /\ 1 \in Lanes /\ 0 \in 0..NumSteps
    BY HarnessAssumption DEF Scores, Nonces, Lanes
  <2>2. stdin \in Seq(JobLines) /\ stdout \in Seq(ShareType)
    OBVIOUS
  <2>3. best \in [Lanes -> Scores]
    BY <2>1
  <2> QED
    BY <2>1, <2>2, <2>3 DEF TypeOK, MainPCs
<1>2. SetUp
  BY DEF SetUp, CohortSetUp, Keyed, JobCopied, TableBuilt
<1>3. BestFromSearch
  BY DEF BestFromSearch
<1>4. SharesOK
  BY DEF SharesOK, SharesValid, SharesNameOneJob
<1> QED
  BY <1>1, <1>2, <1>3, <1>4 DEF IInv

-----------------------------------------------------------------------------
(* A cohort that is under way is one of a job whose scores are known.        *)
LEMMA CohortFacts ==
  ASSUME IInv, pc \in {"cohort", "steps", "print"}
  PROVE  /\ CurrentJob \in Jobs
         /\ curSeed \in Seeds /\ curPubkey \in PubKeys /\ poolSeed = curSeed
         /\ score0 = Score0[curSeed][curPubkey] /\ score0 # INF
         /\ score0 \in Scores
         /\ \A k \in Lanes : NonceOf(k) \in Nonces
<1>1. CurrentJob \in Jobs /\ poolSeed = curSeed
      /\ score0 = Score0[curSeed][curPubkey] /\ score0 # INF
  BY DEF IInv, SetUp, CohortSetUp
<1>2. CurrentJob.seed \in Seeds /\ CurrentJob.pubkey \in PubKeys
  BY <1>1, JobType
<1>3. curSeed \in Seeds /\ curPubkey \in PubKeys
  BY <1>2 DEF CurrentJob
<1>4. \A k \in Lanes : NonceOf(k) \in Nonces
  BY NonceOfType DEF IInv, TypeOK
<1> QED
  BY <1>1, <1>3, <1>4 DEF IInv, TypeOK

-----------------------------------------------------------------------------
(* Each part of the invariant is kept by every step.                         *)

LEMMA NextType == IInv /\ HStep => TypeOK'
<1> SUFFICES ASSUME IInv, HStep PROVE TypeOK'
  OBVIOUS
<1> TypeOK
  BY DEF IInv
<1> USE DEF shared, current, cohort, main
<1>1. ASSUME NEW line \in JobLines, LineArrives(line) PROVE TypeOK'
  BY <1>1 DEF LineArrives, TypeOK
<1>2. CASE CloseStdin
  BY <1>2 DEF CloseStdin, TypeOK
<1>3. CASE ConsumeShare
  BY <1>3 DEF ConsumeShare, TypeOK
<1>4. CASE Signal
  BY <1>4 DEF Signal, TypeOK
<1>5. CASE ReadLine
  <2>1. Head(stdin) \in JobLines /\ stdin' \in Seq(JobLines)
    BY <1>5 DEF ReadLine, TypeOK
  <2>2. CASE WellFormed(Head(stdin))
    <3>1. gJob' = Parsed(Head(stdin)) /\ gGen' = gGen + 1
      BY <1>5, <2>2 DEF ReadLine
    <3>2. gJob' \in Jobs /\ gJob' # None
      BY <2>1, <2>2, <3>1, NoneAssumption DEF Jobs
    <3>3. gGen' \in Nat /\ gGen' # 0
      BY <3>1 DEF TypeOK
    <3> QED
      BY <1>5, <2>1, <3>2, <3>3 DEF ReadLine, TypeOK
  <2>3. CASE ~ WellFormed(Head(stdin))
    BY <1>5, <2>1, <2>3 DEF ReadLine, TypeOK
  <2> QED
    BY <2>2, <2>3
<1>6. CASE EndOfInput
  BY <1>6 DEF EndOfInput, TypeOK
<1>7. CASE Stop
  BY <1>7 DEF Stop, TypeOK, MainPCs
<1>8. CASE TakeJob
  BY <1>8 DEF TakeJob, TypeOK, MainPCs
<1>9. CASE KeepJob
  BY <1>9 DEF KeepJob, TypeOK, MainPCs
<1>10. CASE Rekey
  <2>1. job.seed \in Seeds
    BY <1>10, JobType DEF Rekey, IInv, SetUp, JobCopied
  <2> QED
    BY <1>10, <2>1 DEF Rekey, TypeOK, MainPCs
<1>11. CASE SetJob
  <2>1. job.seed \in Seeds /\ job.pubkey \in PubKeys /\ job.difficulty \in Nat
        /\ job.epoch \in Nat
    BY <1>11, JobType DEF SetJob, IInv, SetUp, JobCopied
  <2> QED
    BY <1>11, <2>1 DEF SetJob, TypeOK, MainPCs
<1>12. CASE ScoreInitial
  <2>1. CurrentJob \in Jobs /\ lut0Of = <<curSeed, curPubkey>>
    BY <1>12 DEF ScoreInitial, IInv, SetUp, TableBuilt
  <2>2. curSeed \in Seeds /\ curPubkey \in PubKeys
    BY <2>1, JobType DEF CurrentJob
  <2>3. score0' \in Scores
    BY <1>12, <2>1, <2>2, ScoreType DEF ScoreInitial
  <2>4. nonceCtr' \in Nonces
    BY <1>12, HarnessAssumption DEF ScoreInitial, Nonces
  <2> QED
    BY <1>12, <2>3, <2>4 DEF ScoreInitial, TypeOK, MainPCs
<1>13. CASE ScoreInitialFails
  BY <1>13 DEF ScoreInitialFails, TypeOK, MainPCs
<1>14. CASE EnterCohort
  <2>1. nonceCtr' \in Nonces
    <3>1. nonceCtr + Cohort \in Int /\ NonceSpace \in Nat \ {0}
      BY HarnessAssumption DEF TypeOK, Nonces
    <3>2. (nonceCtr + Cohort) % NonceSpace \in 0..(NonceSpace - 1)
      BY <3>1
    <3> QED
      BY <1>14, <3>2 DEF EnterCohort, Nonces
  <2>2. s' \in 0..NumSteps
    BY <1>14, HarnessAssumption DEF EnterCohort
  <2> QED
    BY <1>14, <2>1, <2>2 DEF EnterCohort, TypeOK, MainPCs
<1>15. CASE CohortStep
  <2>1. s' \in 0..NumSteps /\ s + 1 \in 1..NumSteps
    BY <1>15, HarnessAssumption DEF CohortStep, TypeOK
  <2>2. best' \in [Lanes -> Scores]
    <3>1. \A k \in Lanes : StepScore[poolSeed][curPubkey][NonceOf(k)][s + 1] \in Scores
      BY <1>15, <2>1, CohortFacts, ScoreType DEF CohortStep
    <3> QED
      BY <1>15, <3>1 DEF CohortStep, TypeOK
  <2> QED
    BY <1>15, <2>1, <2>2 DEF CohortStep, TypeOK, MainPCs
<1>16. CASE CohortStepFails
  BY <1>16 DEF CohortStepFails, TypeOK, MainPCs
<1>17. CASE LeaveCohort
  <2>1. lane' \in Lanes
    BY <1>17, HarnessAssumption DEF LeaveCohort, Lanes
  <2> QED
    BY <1>17, <2>1 DEF LeaveCohort, TypeOK, MainPCs
<1>18. ASSUME NextLane, pc = "print" PROVE lane' \in Lanes /\ pc' \in MainPCs
  <2>1. lane \in 1..Cohort /\ Cohort \in Nat
    BY HarnessAssumption DEF TypeOK, Lanes
  <2>2. CASE lane < Cohort
    BY <1>18, <2>1, <2>2 DEF NextLane, Lanes, MainPCs
  <2>3. CASE ~ (lane < Cohort)
    BY <1>18, <2>1, <2>3 DEF NextLane, Lanes, MainPCs
  <2> QED
    BY <2>2, <2>3
<1>19. CASE PrintShare
  <2>1. Share(lane) \in ShareType
    <3>1. pc = "print" /\ lane \in Lanes
      BY <1>19 DEF PrintShare, TypeOK
    <3> QED
      BY <3>1, CohortFacts DEF Share, ShareType, TypeOK
  <2> QED
    BY <1>18, <1>19, <2>1 DEF PrintShare, TypeOK
<1>20. CASE SkipLane
  BY <1>18, <1>20 DEF SkipLane, TypeOK
<1>21. CASE UNCHANGED vars
  BY <1>21 DEF vars, TypeOK
<1>22. CASE Killed
  BY <1>22 DEF Killed, TypeOK, MainPCs
<1> QED
  BY <1>1, <1>2, <1>3, <1>4, <1>5, <1>6, <1>7, <1>8, <1>9, <1>10, <1>11, <1>12, <1>13,
     <1>14, <1>15, <1>16, <1>17, <1>19, <1>20, <1>21, <1>22 DEF HStep, Reader, Main

LEMMA NextSetUp == IInv /\ HStep => SetUp'
<1> SUFFICES ASSUME IInv, HStep PROVE SetUp'
  OBVIOUS
<1> TypeOK /\ SetUp
  BY DEF IInv
<1> USE DEF SetUp, CohortSetUp, Keyed, JobCopied, TableBuilt, CurrentJob,
            shared, current, cohort, main
<1>1. ASSUME NEW line \in JobLines, LineArrives(line) PROVE SetUp'
  BY <1>1 DEF LineArrives
<1>2. CASE CloseStdin
  BY <1>2 DEF CloseStdin
<1>3. CASE ConsumeShare
  BY <1>3 DEF ConsumeShare
<1>4. CASE Signal
  BY <1>4 DEF Signal
<1>5. CASE ReadLine
  BY <1>5 DEF ReadLine
<1>6. CASE EndOfInput
  BY <1>6 DEF EndOfInput
<1>7. CASE Stop
  BY <1>7 DEF Stop
<1>8. CASE TakeJob
  <2>1. job' \in Jobs
    BY <1>8 DEF TakeJob, TypeOK
  <2> QED
    BY <1>8, <2>1 DEF TakeJob
<1>9. CASE KeepJob
  BY <1>9 DEF KeepJob
<1>10. CASE Rekey
  BY <1>10 DEF Rekey
<1>11. CASE SetJob
  <2>1. job \in Jobs /\ curSeed = job.seed /\ poolSeed = curSeed
    BY <1>11 DEF SetJob
  <2>2. CurrentJob' \in Jobs
    BY <1>11, <2>1, JobType DEF SetJob
  <2> QED
    BY <1>11, <2>1, <2>2 DEF SetJob
<1>12. CASE ScoreInitial
  <2>1. CurrentJob \in Jobs /\ lut0Of = <<curSeed, curPubkey>> /\ poolSeed = curSeed
    BY <1>12 DEF ScoreInitial
  <2>2. score0' = Score0[curSeed][curPubkey]
    BY <1>12, <2>1 DEF ScoreInitial
  <2>3. CurrentJob' = CurrentJob /\ lut0Of' = lut0Of /\ poolSeed' = poolSeed
        /\ curSeed' = curSeed /\ curPubkey' = curPubkey
    BY <1>12 DEF ScoreInitial
  <2>4. pc' \in {"cohort", "top"} /\ (pc' = "cohort" \/ haveJob' => score0' # INF)
    BY <1>12 DEF ScoreInitial
  <2> QED
    BY <2>1, <2>2, <2>3, <2>4
<1>13. CASE ScoreInitialFails
  BY <1>13 DEF ScoreInitialFails
<1>14. CASE EnterCohort
  BY <1>14 DEF EnterCohort
<1>15. CASE CohortStep
  BY <1>15 DEF CohortStep
<1>16. CASE CohortStepFails
  BY <1>16 DEF CohortStepFails
<1>17. CASE LeaveCohort
  BY <1>17 DEF LeaveCohort
<1>18. CASE PrintShare
  BY <1>18 DEF PrintShare, NextLane
<1>19. CASE SkipLane
  BY <1>19 DEF SkipLane, NextLane
<1>20. CASE UNCHANGED vars
  BY <1>20 DEF vars
<1>21. CASE Killed
  BY <1>21 DEF Killed
<1> QED
  BY <1>1, <1>2, <1>3, <1>4, <1>5, <1>6, <1>7, <1>8, <1>9, <1>10, <1>11, <1>12, <1>13,
     <1>14, <1>15, <1>16, <1>17, <1>18, <1>19, <1>20, <1>21 DEF HStep, Reader, Main

LEMMA NextBest == IInv /\ HStep => BestFromSearch'
<1> SUFFICES ASSUME IInv, HStep PROVE BestFromSearch'
  OBVIOUS
<1> TypeOK /\ BestFromSearch
  BY DEF IInv
<1> USE DEF BestFromSearch, NonceOf, shared, current, cohort, main
<1>1. ASSUME NEW line \in JobLines, LineArrives(line) PROVE BestFromSearch'
  BY <1>1 DEF LineArrives
<1>2. CASE CloseStdin \/ ConsumeShare \/ Signal \/ Killed \/ Reader
  BY <1>2 DEF CloseStdin, ConsumeShare, Signal, Killed, Reader, ReadLine, EndOfInput
<1>3. CASE Stop \/ TakeJob \/ KeepJob \/ Rekey \/ SetJob \/ ScoreInitial
           \/ ScoreInitialFails \/ CohortStepFails
  BY <1>3 DEF Stop, TakeJob, KeepJob, Rekey, SetJob, ScoreInitial, ScoreInitialFails,
              CohortStepFails
<1>4. CASE EnterCohort
  <2>1. score0 \in Nat
    BY HarnessAssumption DEF TypeOK, Scores
  <2> QED
    BY <1>4, <2>1 DEF EnterCohort
<1>5. CASE CohortStep
  <2>1. s \in Nat /\ s' = s + 1 /\ s + 1 \in 1..NumSteps /\ 1..s \subseteq 1..s'
    BY <1>5, HarnessAssumption DEF CohortStep, TypeOK
  <2>2. SUFFICES ASSUME NEW k \in Lanes
                 PROVE  /\ best'[k] <= score0
                        /\ \/ best'[k] = score0
                           \/ \E j \in 1..s' :
                                best'[k] = StepScore[curSeed][curPubkey][NonceOf(k)][j]
    BY <1>5, <2>1 DEF CohortStep
  <2> DEFINE tried == StepScore[poolSeed][curPubkey][NonceOf(k)][s + 1]
  <2>3. poolSeed = curSeed /\ tried \in Nat /\ best[k] \in Nat /\ score0 \in Nat
    <3>1. tried \in Scores /\ poolSeed = curSeed
      BY <1>5, <2>1, CohortFacts, ScoreType DEF CohortStep
    <3> QED
      BY <3>1, HarnessAssumption DEF TypeOK, Scores
  <2>4. best'[k] = IF tried < best[k] THEN tried ELSE best[k]
    BY <1>5 DEF CohortStep
  <2>5. best[k] <= score0
        /\ (best[k] = score0
            \/ \E j \in 1..s : best[k] = StepScore[curSeed][curPubkey][NonceOf(k)][j])
    BY <1>5 DEF CohortStep
  <2>6. CASE tried < best[k]
    <3>1. s + 1 \in 1..s'
      BY <2>1
    <3> HIDE DEF tried
    <3>2. best'[k] = tried /\ best'[k] <= score0
      BY <2>3, <2>4, <2>5, <2>6
    <3>3. tried = StepScore[curSeed][curPubkey][NonceOf(k)][s + 1]
      BY <2>3 DEF tried
    <3> QED
      BY <3>1, <3>2, <3>3
  <2>7. CASE ~ (tried < best[k])
    <3> HIDE DEF tried
    <3>1. best'[k] = best[k]
      BY <2>4, <2>7
    <3> QED
      BY <2>1, <2>5, <3>1
  <2> QED
    BY <2>6, <2>7
<1>6. CASE LeaveCohort
  BY <1>6 DEF LeaveCohort
<1>7. CASE PrintShare \/ SkipLane
  BY <1>7 DEF PrintShare, SkipLane, NextLane
<1>8. CASE UNCHANGED vars
  BY <1>8 DEF vars
<1> QED
  BY <1>1, <1>2, <1>3, <1>4, <1>5, <1>6, <1>7, <1>8 DEF HStep, Reader, Main

\* A share about to be printed is good and names one job.
LEMMA ShareOK ==
  ASSUME IInv, pc = "print", NEW k \in Lanes, best[k] <= difficulty
  PROVE  /\ PoolAccepts(Share(k).seed, Share(k).pubkey, Share(k).nonce, Share(k).diff)
         /\ Share(k).score <= Share(k).diff /\ Share(k).score # INF
         /\ [seed |-> Share(k).seed, pubkey |-> Share(k).pubkey,
             difficulty |-> Share(k).diff, epoch |-> Share(k).epoch] \in Jobs
<1>1. CurrentJob \in Jobs /\ score0 = Score0[curSeed][curPubkey] /\ score0 # INF
      /\ score0 \in Scores
  BY CohortFacts
<1>2. best[k] <= score0
      /\ (best[k] = score0
          \/ \E j \in 1..s : best[k] = StepScore[curSeed][curPubkey][NonceOf(k)][j])
  BY DEF IInv, BestFromSearch
<1>3. 1..s \subseteq 1..NumSteps
  BY HarnessAssumption DEF IInv, TypeOK
<1>4. PoolAccepts(curSeed, curPubkey, NonceOf(k), difficulty)
  BY <1>1, <1>2, <1>3 DEF PoolAccepts
<1>5. best[k] # INF
  <2>1. best[k] \in Nat /\ score0 \in Nat /\ score0 <= INF /\ INF \in Nat
    BY <1>1, HarnessAssumption DEF IInv, TypeOK, Scores
  <2> QED
    BY <1>1, <1>2, <2>1
<1> QED
  BY <1>1, <1>4, <1>5 DEF Share, CurrentJob

LEMMA NextShares == IInv /\ HStep => SharesOK'
<1> SUFFICES ASSUME IInv, HStep PROVE SharesOK'
  OBVIOUS
<1> SharesOK /\ stdout \in Seq(ShareType)
  BY DEF IInv, TypeOK
<1> USE DEF SharesOK, SharesValid, SharesNameOneJob
<1>1. CASE UNCHANGED stdout
  BY <1>1
<1>2. CASE ConsumeShare
  <2>1. \A j \in 1..Len(stdout') : stdout'[j] = stdout[j + 1] /\ j + 1 \in 1..Len(stdout)
    BY <1>2 DEF ConsumeShare
  <2> QED
    BY <2>1
<1>3. CASE PrintShare
  <2>1. pc = "print" /\ lane \in Lanes /\ best[lane] <= difficulty
    BY <1>3 DEF PrintShare, IInv, TypeOK
  <2>2. \A j \in 1..Len(stdout') :
          stdout'[j] = Share(lane) \/ (j \in 1..Len(stdout) /\ stdout'[j] = stdout[j])
    BY <1>3 DEF PrintShare
  <2> QED
    BY <2>1, <2>2, ShareOK
<1>4. UNCHANGED stdout \/ ConsumeShare \/ PrintShare
  <2> USE DEF shared, current, cohort, main
  <2>1. ASSUME NEW line \in JobLines, LineArrives(line) PROVE UNCHANGED stdout
    BY <2>1 DEF LineArrives
  <2>2. CASE CloseStdin \/ Signal \/ Killed \/ Reader
    BY <2>2 DEF CloseStdin, Signal, Killed, Reader, ReadLine, EndOfInput
  <2>3. CASE Main
    BY <2>3 DEF Main, Stop, TakeJob, KeepJob, Rekey, SetJob, ScoreInitial,
                ScoreInitialFails, EnterCohort, CohortStep, CohortStepFails,
                LeaveCohort, SkipLane
  <2>4. CASE UNCHANGED vars
    BY <2>4 DEF vars
  <2> QED
    BY <2>1, <2>2, <2>3, <2>4 DEF HStep
<1> QED
  BY <1>1, <1>2, <1>3, <1>4

LEMMA StepIInv == IInv /\ HStep => IInv'
BY NextType, NextSetUp, NextBest, NextShares DEF IInv

LEMMA NextIsHStep == [Next]_vars => HStep
<1> SUFFICES ASSUME [Next]_vars PROVE HStep
  OBVIOUS
<1>1. \A line \in JobLines : Feed(line) => LineArrives(line)
  BY DEF Feed, LineArrives
<1> QED
  BY <1>1 DEF Next, HStep

THEOREM SpecIInv == Spec => []IInv
BY InitIInv, StepIInv, NextIsHStep, PTL DEF Spec

\* Type correctness of the harness's state, the printed shares included.
THEOREM SpecTypeOK == Spec => []TypeOK
<1>1. IInv => TypeOK
  BY DEF IInv
<1> QED
  BY SpecIInv, <1>1, PTL

\* Whatever jobs arrive and whenever: a cohort runs only with pool, initial table
\* and initial score of one job.
THEOREM SpecCohortSetUp == Spec => []CohortSetUp
<1>1. IInv => CohortSetUp
  BY DEF IInv, SetUp
<1> QED
  BY SpecIInv, <1>1, PTL

\* No share is printed that the pool would not accept for the job it names, also
\* not from a cohort cut short.
THEOREM SpecSharesValid == Spec => []SharesValid
<1>1. IInv => SharesValid
  BY DEF IInv, SharesOK
<1> QED
  BY SpecIInv, <1>1, PTL

\* The labels of a share come from one job line.
THEOREM SpecSharesNameOneJob == Spec => []SharesNameOneJob
<1>1. IInv => SharesNameOneJob
  BY DEF IInv, SharesOK
<1> QED
  BY SpecIInv, <1>1, PTL
=============================================================================
