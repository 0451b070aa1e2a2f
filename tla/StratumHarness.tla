--------------------------- MODULE StratumHarness ---------------------------
(***************************************************************************)
(* The stratum mode of the Metal harness (harness.mm): a reader thread     *)
(* that parses job lines from stdin into g_job / g_gen, and the main loop  *)
(* that adopts the newest job, grinds cohorts of nonces and prints shares. *)
(*                                                                         *)
(* The two threads share g_job and g_gen.  The main loop copies both under *)
(* the lock once per iteration; runCohortGPU reads g_gen without the lock. *)
(* A search is abstracted to the scores its steps see (what a search does  *)
(* with tables is module CohortClimb): for a seed, a pubkey and a nonce    *)
(* they are fixed, as everything in a search is derived from those.        *)
(***************************************************************************)
EXTENDS Integers, Sequences

CONSTANTS
  Seeds, PubKeys,   \* 32-byte values a job can carry
  JobLines,         \* lines that may arrive on stdin
  Cohort,           \* COHORT
  NumSteps,         \* NUM_STEPS
  NonceSpace,       \* values of the uint64 nonce counter
  INF,              \* the score of a table with a timed-out window
  Score0,           \* Score0[seed][pubkey]: score of the initial table
  StepScore,        \* StepScore[seed][pubkey][nonce][s]: table tried in step s
  DiffMod,          \* values of a uint32 difficulty
  PipeCap,          \* shares the stdout pipe holds before a write blocks
  MaxLines          \* bound: lines fed in a behaviour

Scores == 0..INF
Nonces == 0..(NonceSpace - 1)
Lanes  == 1..Cohort

ASSUME HarnessAssumption ==
  /\ Cohort \in Nat \ {0} /\ NumSteps \in Nat /\ NonceSpace \in Nat \ {0}
  /\ INF \in Nat /\ DiffMod \in Nat \ {0}
  /\ PipeCap \in Nat /\ MaxLines \in Nat
  /\ Score0 \in [Seeds -> [PubKeys -> Scores]]
  /\ StepScore \in [Seeds -> [PubKeys -> [Nonces -> [1..NumSteps -> Scores]]]]
  /\ \A line \in JobLines : line.difficulty \in Int /\ line.epoch \in Int

\* A line the reader accepts; others (a missing field reads as -1) are skipped.
WellFormed(line) ==
  line.seed \in Seeds /\ line.pubkey \in PubKeys /\ line.difficulty >= 0

\* The StratumJob built from an accepted line: uint32 difficulty, epoch >= 0.
Parsed(line) ==
  [seed       |-> line.seed,
   pubkey     |-> line.pubkey,
   difficulty |-> line.difficulty % DiffMod,
   epoch      |-> IF line.epoch < 0 THEN 0 ELSE line.epoch]

Jobs == {Parsed(line) : line \in {l \in JobLines : WellFormed(l)}}

CONSTANT None   \* no job yet, no seed yet, or the built-in seed of the pool
ASSUME NoneAssumption == None \notin Seeds /\ None \notin PubKeys /\ None \notin Jobs

VARIABLES
  stdin, stdinOpen,             \* lines written by the driver, not read yet
  gJob, gGen, gStop,            \* shared: newest job, its generation, stop flag
  reading,                      \* the reader thread is in its loop
  pc, job, seenGen,             \* main loop: position, copied job, its generation
  poolSeed,                     \* the seed the random2 pool was generated from
  curSeed, curPubkey, difficulty, epoch,
  lut0Of, score0,               \* <<seed, pubkey>> of the initial table; its score
  haveJob, nonceCtr,
  firstNonce, entryGen, s, best, \* the cohort under way
  lane,                         \* the lane whose result is looked at next
  stdout                        \* shares printed, not read by the driver yet

shared  == <<gJob, gGen, gStop>>
current == <<poolSeed, curSeed, curPubkey, difficulty, epoch, lut0Of>>
cohort  == <<firstNonce, entryGen, s, best, lane>>
main    == <<pc, job, seenGen, current, score0, haveJob, nonceCtr, cohort, stdout>>
vars    == <<stdin, stdinOpen, shared, reading, main>>

Init ==
  /\ stdin = <<>> /\ stdinOpen = TRUE
  /\ gJob = None /\ gGen = 0 /\ gStop = FALSE
  /\ reading = TRUE
  /\ pc = "top" /\ job = None /\ seenGen = 0
  /\ poolSeed = None /\ curSeed = None /\ curPubkey = None
  /\ difficulty = 0 /\ epoch = 0
  /\ lut0Of = <<None, None>> /\ score0 = 0
  /\ haveJob = FALSE /\ nonceCtr = 0
  /\ firstNonce = 0 /\ entryGen = 0 /\ s = 0
  /\ best = [k \in Lanes |-> 0] /\ lane = 1
  /\ stdout = <<>>

-----------------------------------------------------------------------------
(* The reader thread.                                                      *)

\* Mutant: the generation is not counted up.
ReadLineSameGeneration ==
  /\ reading /\ stdin # <<>>
  /\ gJob' = IF WellFormed(Head(stdin)) THEN Parsed(Head(stdin)) ELSE gJob
  /\ stdin' = Tail(stdin)
  /\ UNCHANGED <<stdinOpen, gGen, gStop, reading, main>>

ReadLine ==
  /\ reading /\ stdin # <<>>
  /\ IF WellFormed(Head(stdin))
     THEN gJob' = Parsed(Head(stdin)) /\ gGen' = gGen + 1
     ELSE UNCHANGED <<gJob, gGen>>
  /\ stdin' = Tail(stdin)
  /\ UNCHANGED <<stdinOpen, gStop, reading, main>>

\* Mutant: the reader just ends.
EndOfInputUnnoticed ==
  /\ reading /\ stdin = <<>> /\ ~ stdinOpen
  /\ reading' = FALSE
  /\ UNCHANGED <<stdin, stdinOpen, shared, main>>

\* getline fails: stdin was closed, shut down.
EndOfInput ==
  /\ reading /\ stdin = <<>> /\ ~ stdinOpen
  /\ reading' = FALSE
  /\ gStop' = TRUE
  /\ UNCHANGED <<stdin, stdinOpen, gJob, gGen, main>>

\* SIGINT or SIGTERM.
Signal ==
  /\ ~ gStop
  /\ gStop' = TRUE
  /\ UNCHANGED <<stdin, stdinOpen, gJob, gGen, reading, main>>

-----------------------------------------------------------------------------
(* The main loop.                                                          *)

Running == pc \notin {"stopped", "task load failed", "dispatch failed"}

\* while (!g_stop): leave the loop.
Stop ==
  /\ pc = "top" /\ gStop
  /\ pc' = "stopped"
  /\ UNCHANGED <<stdin, stdinOpen, shared, reading, job, seenGen, current, score0,
                 haveJob, nonceCtr, cohort, stdout>>

\* Mutant: only the first job keys the pool.
TakeJobKeysOnce ==
  /\ pc = "top" /\ ~ gStop
  /\ gGen # seenGen /\ gJob # None
  /\ job' = gJob
  /\ seenGen' = gGen
  /\ pc' = IF curSeed = None THEN "rekey" ELSE "set job"
  /\ UNCHANGED <<stdin, stdinOpen, shared, reading, current, score0,
                 haveJob, nonceCtr, cohort, stdout>>

\* Mutant: a job is new only if its pubkey is.
TakeJobByPubkey ==
  /\ pc = "top" /\ ~ gStop
  /\ gGen # seenGen /\ gJob # None
  /\ gJob.pubkey # curPubkey
  /\ job' = gJob
  /\ seenGen' = gGen
  /\ pc' = IF gJob.seed # curSeed THEN "rekey" ELSE "set job"
  /\ UNCHANGED <<stdin, stdinOpen, shared, reading, current, score0,
                 haveJob, nonceCtr, cohort, stdout>>

\* Copy g_job and g_gen under the lock; a new generation is taken up.
TakeJob ==
  /\ pc = "top" /\ ~ gStop
  /\ gGen # seenGen /\ gJob # None
  /\ job' = gJob
  /\ seenGen' = gGen
  /\ pc' = IF gJob.seed # curSeed THEN "rekey" ELSE "set job"
  /\ UNCHANGED <<stdin, stdinOpen, shared, reading, current, score0,
                 haveJob, nonceCtr, cohort, stdout>>

\* The copy shows nothing new: go on with the current job (or sleep without one).
KeepJob ==
  /\ pc = "top" /\ ~ gStop
  /\ gGen = seenGen \/ gJob = None
  /\ haveJob
  /\ pc' = "cohort"
  /\ UNCHANGED <<stdin, stdinOpen, shared, reading, job, seenGen, current, score0,
                 haveJob, nonceCtr, cohort, stdout>>

\* A job with another seed: regenerate the pool, load the task again.
Rekey ==
  /\ pc = "rekey"
  /\ poolSeed' = job.seed
  /\ \/ curSeed' = job.seed /\ pc' = "set job"
     \/ UNCHANGED curSeed /\ pc' = "task load failed"
  /\ UNCHANGED <<stdin, stdinOpen, shared, reading, job, seenGen, curPubkey,
                 difficulty, epoch, lut0Of, score0, haveJob, nonceCtr, cohort, stdout>>

\* curPubkey, difficulty, epoch and the initial table of the new job.
SetJob ==
  /\ pc = "set job"
  /\ curPubkey' = job.pubkey
  /\ difficulty' = job.difficulty
  /\ epoch' = job.epoch
  /\ lut0Of' = <<poolSeed, job.pubkey>>
  /\ pc' = "score0"
  /\ UNCHANGED <<stdin, stdinOpen, shared, reading, job, seenGen, poolSeed, curSeed,
                 score0, haveJob, nonceCtr, cohort, stdout>>

\* Score the initial table; a pubkey whose table times out is not mined.
ScoreInitial ==
  /\ pc = "score0"
  /\ score0' = Score0[lut0Of[1]][lut0Of[2]]
  /\ nonceCtr' = 0
  /\ haveJob' = (score0' # INF)
  /\ pc' = IF haveJob' THEN "cohort" ELSE "top"
  /\ UNCHANGED <<stdin, stdinOpen, shared, reading, job, seenGen, current, cohort, stdout>>

\* if (!gpu.score(...)) return 1
ScoreInitialFails ==
  /\ pc = "score0"
  /\ pc' = "dispatch failed"
  /\ UNCHANGED <<stdin, stdinOpen, shared, reading, job, seenGen, current, score0,
                 haveJob, nonceCtr, cohort, stdout>>

\* Take the next Cohort nonces and enter runCohortGPU, which reads g_gen here.
EnterCohort ==
  /\ pc = "cohort"
  /\ firstNonce' = nonceCtr
  /\ nonceCtr' = (nonceCtr + Cohort) % NonceSpace
  /\ entryGen' = gGen
  /\ s' = 0
  /\ best' = [k \in Lanes |-> score0]
  /\ pc' = "steps"
  /\ UNCHANGED <<stdin, stdinOpen, shared, reading, job, seenGen, current, score0,
                 haveJob, lane, stdout>>

\* The nonce of lane k of the cohort under way (makeMineNonce of the counter).
NonceOf(k) == (firstNonce + k - 1) % NonceSpace

\* One step of every lane: a tried table that scores lower becomes the best.
CohortStep ==
  /\ pc = "steps" /\ s < NumSteps /\ ~ gStop /\ gGen = entryGen
  /\ s' = s + 1
  /\ best' = [k \in Lanes |->
                LET tried == StepScore[poolSeed][curPubkey][NonceOf(k)][s + 1]
                IN  IF tried < best[k] THEN tried ELSE best[k]]
  /\ UNCHANGED <<stdin, stdinOpen, shared, reading, pc, job, seenGen, current, score0,
                 haveJob, nonceCtr, firstNonce, entryGen, lane, stdout>>

\* A dispatch of the cohort fails: skip this pubkey, wait for the next job.
CohortStepFails ==
  /\ pc = "steps" /\ s < NumSteps /\ ~ gStop /\ gGen = entryGen
  /\ haveJob' = FALSE
  /\ pc' = "top"
  /\ UNCHANGED <<stdin, stdinOpen, shared, reading, job, seenGen, current, score0,
                 nonceCtr, cohort, stdout>>

\* Mutant: the nonce after the lane's own.
ShareNextNonce(k) ==
  [epoch |-> epoch, seed |-> curSeed, pubkey |-> curPubkey,
   nonce |-> NonceOf(k + 1), score |-> best[k], diff |-> difficulty]

\* Mutant: the newest job's labels.
ShareOfNewestJob(k) ==
  [epoch |-> gJob.epoch, seed |-> curSeed, pubkey |-> curPubkey,
   nonce |-> NonceOf(k), score |-> best[k], diff |-> difficulty]

Share(k) ==
  [epoch |-> epoch, seed |-> curSeed, pubkey |-> curPubkey,
   nonce |-> NonceOf(k), score |-> best[k], diff |-> difficulty]

\* The loop of runCohortGPU ends, by its steps or by its stop conditions; the
\* results so far count.
LeaveCohort ==
  /\ pc = "steps"
  /\ s = NumSteps \/ gStop \/ gGen # entryGen
  /\ lane' = 1
  /\ pc' = "print"
  /\ UNCHANGED <<stdin, stdinOpen, shared, reading, job, seenGen, current, score0,
                 haveJob, nonceCtr, firstNonce, entryGen, s, best, stdout>>

\* Mutant: after the last lane grind on, without looking at the job and the stop flag.
NextLaneForEver ==
  IF lane < Cohort
  THEN lane' = lane + 1 /\ pc' = pc
  ELSE pc' = "cohort" /\ UNCHANGED lane

NextLane ==
  IF lane < Cohort
  THEN lane' = lane + 1 /\ pc' = pc
  ELSE pc' = "top" /\ UNCHANGED lane

\* A lane that is good enough: print its share, once the pipe has room for it.
PrintShare ==
  /\ pc = "print" /\ best[lane] <= difficulty
  /\ Len(stdout) < PipeCap
  /\ stdout' = Append(stdout, Share(lane))
  /\ NextLane
  /\ UNCHANGED <<stdin, stdinOpen, shared, reading, job, seenGen, current, score0,
                 haveJob, nonceCtr, firstNonce, entryGen, s, best>>

SkipLane ==
  /\ pc = "print" /\ best[lane] > difficulty
  /\ NextLane
  /\ UNCHANGED <<stdin, stdinOpen, shared, reading, job, seenGen, current, score0,
                 haveJob, nonceCtr, firstNonce, entryGen, s, best, stdout>>

Main ==
  \/ Stop \/ TakeJob \/ KeepJob
  \/ Rekey \/ SetJob \/ ScoreInitial \/ ScoreInitialFails
  \/ EnterCohort \/ CohortStep \/ CohortStepFails \/ LeaveCohort
  \/ PrintShare \/ SkipLane

Reader == ReadLine \/ EndOfInput
-----------------------------------------------------------------------------
(* The process at the other end of the pipes (stratum_miner.mjs).          *)

Feed(line) ==
  /\ stdinOpen
  /\ gGen + Len(stdin) < MaxLines
  /\ stdin' = Append(stdin, line)
  /\ UNCHANGED <<stdinOpen, shared, reading, main>>

CloseStdin ==
  /\ stdinOpen
  /\ stdinOpen' = FALSE
  /\ UNCHANGED <<stdin, shared, reading, main>>

ConsumeShare ==
  /\ stdout # <<>>
  /\ stdout' = Tail(stdout)
  /\ UNCHANGED <<stdin, stdinOpen, shared, reading, pc, job, seenGen, current, score0,
                 haveJob, nonceCtr, cohort>>

Next ==
  \/ \E line \in JobLines : Feed(line)
  \/ CloseStdin \/ ConsumeShare \/ Signal
  \/ Reader \/ Main

Spec == Init /\ [][Next]_vars

\* Both threads run, dispatches come back (one way or the other), and whoever
\* reads the shares keeps reading them.
FairSpec == Spec /\ WF_vars(Reader) /\ WF_vars(Main) /\ WF_vars(ConsumeShare)

-----------------------------------------------------------------------------
MainPCs == {"top", "rekey", "set job", "score0", "cohort", "steps", "print",
            "stopped", "task load failed", "dispatch failed"}

ShareType ==
  [epoch : Nat, seed : Seeds, pubkey : PubKeys, nonce : Nonces,
   score : Scores, diff : Nat]

TypeOK ==
  /\ stdin \in Seq(JobLines) /\ stdinOpen \in BOOLEAN
  /\ gJob \in Jobs \cup {None} /\ gGen \in Nat /\ gStop \in BOOLEAN
  /\ gJob = None <=> gGen = 0
  /\ reading \in BOOLEAN
  /\ pc \in MainPCs /\ job \in Jobs \cup {None} /\ seenGen \in Nat
  /\ poolSeed \in Seeds \cup {None} /\ curSeed \in Seeds \cup {None}
  /\ curPubkey \in PubKeys \cup {None}
  /\ difficulty \in Nat /\ epoch \in Nat
  /\ lut0Of \in (Seeds \cup {None}) \X (PubKeys \cup {None})
  /\ score0 \in Scores /\ haveJob \in BOOLEAN /\ nonceCtr \in Nonces
  /\ firstNonce \in Nonces /\ entryGen \in Nat /\ s \in 0..NumSteps
  /\ best \in [Lanes -> Scores] /\ lane \in Lanes
  /\ stdout \in Seq(ShareType)

\* The job the main loop has set up, in the shape of a job line.
CurrentJob == [seed |-> curSeed, pubkey |-> curPubkey, difficulty |-> difficulty,
               epoch |-> epoch]

\* A cohort runs only with a set-up of one job: the pool keyed for its seed, the
\* initial table of its pubkey and that table's score, which is not INF.  (The
\* pool is regenerated, the table rebuilt and rescored in separate steps.)
CohortSetUp ==
  (pc \in {"cohort", "steps", "print"} \/ (pc = "top" /\ haveJob)) =>
    /\ CurrentJob \in Jobs
    /\ poolSeed = curSeed
    /\ lut0Of = <<curSeed, curPubkey>>
    /\ score0 = Score0[curSeed][curPubkey]
    /\ score0 # INF

\* The pool repeats the whole search of a nonce: its score is at most d iff the
\* initial table or one of the tables tried scores at most d.
PoolAccepts(seed, pubkey, nonce, d) ==
  \/ Score0[seed][pubkey] <= d
  \/ \E k \in 1..NumSteps : StepScore[seed][pubkey][nonce][k] <= d

\* Every share printed is one the pool accepts for the seed, pubkey and
\* difficulty it is labelled with, also when its cohort was abandoned half way
\* because a job with another pubkey, seed or difficulty came in.
SharesValid ==
  \A j \in 1..Len(stdout) :
    LET share == stdout[j]
    IN  /\ PoolAccepts(share.seed, share.pubkey, share.nonce, share.diff)
        /\ share.score <= share.diff
        /\ share.score # INF

\* The labels of a share are those of one job line, never a mix of two.
SharesNameOneJob ==
  \A j \in 1..Len(stdout) :
    LET share == stdout[j]
    IN  [seed |-> share.seed, pubkey |-> share.pubkey,
         difficulty |-> share.diff, epoch |-> share.epoch] \in Jobs

\* Every job the reader publishes is taken up, or a newer one is, unless the
\* miner ends: the main loop cannot grind on and miss it.
NewJobTakenUp ==
  \A g \in 1..MaxLines : (gGen >= g) ~> (seenGen >= g \/ ~ Running)

\* A stop request (signal, end of input) ends the main loop.
StopRequestEnds == gStop ~> ~ Running

=============================================================================
