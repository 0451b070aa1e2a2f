---------------------------- MODULE StratumDriver ----------------------------
(***************************************************************************)
(* stratum_miner.mjs: the Node process between the pool's WebSocket and    *)
(* the miner's pipes.  It is an event loop: every action below is one      *)
(* callback, run to its end.                                               *)
(*                                                                         *)
(* The pool (external) is what the driver sees of it: on a connection it   *)
(* accepted the login of, it pushes its current job, now and again, or     *)
(* says it is paused; its jobs are those of JobSeq, in that order.         *)
(* Statistics and log lines are left out.                                  *)
(***************************************************************************)
EXTENDS Integers, Sequences

CONSTANTS
  JobSeq,      \* the job messages of the pool, in the order it issues them
  Idle,        \* the job message with all-zero seed and pubkey: pool paused
  LocalTask,   \* sha256 of the TASK file, taken at start
  Live,        \* --live was given
  Shares,      \* share lines a miner may print (standalone specification)
  InboxCap,    \* bound: messages in flight from the pool
  StdinCap,    \* bound: lines in the miner's stdin pipe
  None         \* no job yet

ASSUME DriverAssumption ==
  /\ Len(JobSeq) \in Nat \ {0}
  /\ \A k \in 1..Len(JobSeq) :
       JobSeq[k].difficulty \in Int /\ JobSeq[k].epoch \in Int
  /\ Live \in BOOLEAN
  /\ InboxCap \in Nat /\ StdinCap \in Nat

PoolJobs == {JobSeq[k] : k \in 1..Len(JobSeq)}

\* The watchdog looks every 30 s and closes after more than 90 s without a job:
\* at its fourth look since the last job.
WatchdogLooks == 4

VARIABLES
  ws,           \* "null", or the state of the one WebSocket object
  timer,        \* the 3 s reconnect timer is pending
  loginSent,    \* the login went out on this connection
  subscribed,   \* the pool accepted the login of this connection
  poolIdx,      \* index of the pool's current job
  inbox,        \* messages from the pool not handled yet
  currentJob, taskMatches, lastJobKey,
  age,          \* looks of the watchdog since lastJobAt
  stdin, stdinOpen, stdout,   \* the miner's pipes
  alive,        \* the driver process runs
  exiting,      \* SIGINT was handled, process.exit is due
  sent          \* every submission so far (history)

conn == <<ws, timer, loginSent, subscribed, inbox>>
jobs == <<currentJob, taskMatches, lastJobKey, age>>
pipes == <<stdin, stdinOpen, stdout>>
vars == <<conn, poolIdx, jobs, pipes, alive, exiting, sent>>

Init ==
  /\ ws = "connecting" /\ timer = FALSE
  /\ loginSent = FALSE /\ subscribed = FALSE /\ inbox = <<>>
  /\ poolIdx = 1
  /\ currentJob = None /\ taskMatches = FALSE /\ lastJobKey = None /\ age = 0
  /\ stdin = <<>> /\ stdinOpen = TRUE /\ stdout = <<>>
  /\ alive = TRUE /\ exiting = FALSE
  /\ sent = {}

-----------------------------------------------------------------------------
(* Connection events.                                                      *)

\* 'open': log in.
Open ==
  /\ alive /\ ws = "connecting"
  /\ ws' = "open" /\ loginSent' = TRUE
  /\ UNCHANGED <<timer, subscribed, inbox, poolIdx, jobs, pipes, alive, exiting, sent>>

\* 'close', whoever closed: forget the socket, connect again in 3 s.  Messages
\* in flight are lost.
Close ==
  /\ alive /\ ws # "null"
  /\ ws' = "null" /\ timer' = TRUE
  /\ loginSent' = FALSE /\ subscribed' = FALSE /\ inbox' = <<>>
  /\ UNCHANGED <<poolIdx, jobs, pipes, alive, exiting, sent>>

\* The timer fires: connect().
Reconnect ==
  /\ alive /\ timer
  /\ timer' = FALSE /\ ws' = "connecting"
  /\ UNCHANGED <<loginSent, subscribed, inbox, poolIdx, jobs, pipes, alive, exiting, sent>>

\* Mutant: the watchdog also schedules the reconnect.
WatchdogRedials ==
  /\ alive
  /\ age < WatchdogLooks \/ ws \in {"connecting", "open"}
  /\ age' = IF age < WatchdogLooks THEN age + 1 ELSE age
  /\ ws' = IF ws # "null" /\ age' = WatchdogLooks THEN "closing" ELSE ws
  /\ timer' = (timer \/ ws' = "closing")
  /\ UNCHANGED <<loginSent, subscribed, inbox, poolIdx, currentJob, taskMatches,
                 lastJobKey, pipes, alive, exiting, sent>>

\* Mutant: only a connection that never brought a job is closed.
WatchdogBeforeFirstJob ==
  /\ alive
  /\ age < WatchdogLooks \/ ws \in {"connecting", "open"}
  /\ age' = IF age < WatchdogLooks THEN age + 1 ELSE age
  /\ ws' = IF ws # "null" /\ age' = WatchdogLooks /\ currentJob = None
           THEN "closing" ELSE ws
  /\ UNCHANGED <<timer, loginSent, subscribed, inbox, poolIdx, currentJob, taskMatches,
                 lastJobKey, pipes, alive, exiting, sent>>

\* One look of the watchdog, 30 s after the last: a socket that has been without
\* a job for more than 90 s is closed ('close' follows).
Watchdog ==
  /\ alive
  /\ age < WatchdogLooks \/ ws \in {"connecting", "open"}
  /\ age' = IF age < WatchdogLooks THEN age + 1 ELSE age
  /\ ws' = IF ws # "null" /\ age' = WatchdogLooks THEN "closing" ELSE ws
  /\ UNCHANGED <<timer, loginSent, subscribed, inbox, poolIdx, currentJob, taskMatches,
                 lastJobKey, pipes, alive, exiting, sent>>

-----------------------------------------------------------------------------
(* Messages from the pool.                                                 *)

\* Mutant: a key that leaves out the pubkey.
JobKeyOfEpoch(j) == <<j.seed, j.epoch>>

JobKey(j) == <<j.seed, j.pubkey, j.difficulty>>

\* null is no job and no key: the first job is never taken for a repetition.
ASSUME KeyAssumption == None \notin PoolJobs /\ \A j \in PoolJobs : JobKey(j) # None

LineOf(j) ==
  [seed |-> j.seed, pubkey |-> j.pubkey, difficulty |-> j.difficulty, epoch |-> j.epoch]

\* Mutant: a repeated key returns before taskMatches is set.
PushJobDedupesFirst ==
  /\ alive /\ ws = "open" /\ inbox # <<>> /\ Head(inbox) # Idle
  /\ LET j == Head(inbox)
     IN  /\ currentJob' = j
         /\ IF JobKey(j) = lastJobKey
            THEN UNCHANGED <<taskMatches, lastJobKey, stdin>>
            ELSE /\ Len(stdin) < StdinCap
                 /\ taskMatches' = (j.task = LocalTask)
                 /\ lastJobKey' = JobKey(j)
                 /\ stdin' = Append(stdin, LineOf(j))
  /\ age' = 0
  /\ inbox' = Tail(inbox)
  /\ UNCHANGED <<ws, timer, loginSent, subscribed, poolIdx, stdinOpen, stdout, alive,
                 exiting, sent>>

\* Mutant: every push goes to the miner.
PushJobAlways ==
  /\ alive /\ ws = "open" /\ inbox # <<>> /\ Head(inbox) # Idle
  /\ Len(stdin) < StdinCap
  /\ LET j == Head(inbox)
     IN  /\ taskMatches' = (j.task = LocalTask)
         /\ currentJob' = j
         /\ lastJobKey' = JobKey(j)
         /\ stdin' = Append(stdin, LineOf(j))
  /\ age' = 0
  /\ inbox' = Tail(inbox)
  /\ UNCHANGED <<ws, timer, loginSent, subscribed, poolIdx, stdinOpen, stdout, alive,
                 exiting, sent>>

\* A job: remember it, and write it to the miner unless it repeats the last key.
PushJob ==
  /\ alive /\ ws = "open" /\ inbox # <<>> /\ Head(inbox) # Idle
  /\ LET j == Head(inbox)
     IN  /\ taskMatches' = (j.task = LocalTask)
         /\ currentJob' = j
         /\ IF JobKey(j) = lastJobKey
            THEN UNCHANGED <<lastJobKey, stdin>>
            ELSE /\ Len(stdin) < StdinCap
                 /\ lastJobKey' = JobKey(j)
                 /\ stdin' = Append(stdin, LineOf(j))
  /\ age' = 0
  /\ inbox' = Tail(inbox)
  /\ UNCHANGED <<ws, timer, loginSent, subscribed, poolIdx, stdinOpen, stdout, alive,
                 exiting, sent>>

\* Pool paused: nothing but a log line.
IdleJob ==
  /\ alive /\ ws = "open" /\ inbox # <<>> /\ Head(inbox) = Idle
  /\ inbox' = Tail(inbox)
  /\ UNCHANGED <<ws, timer, loginSent, subscribed, poolIdx, jobs, pipes, alive, exiting, sent>>

-----------------------------------------------------------------------------
(* Shares from the miner.                                                  *)

Stale(share) == currentJob # None => currentJob.pubkey # share.pubkey

MaySubmit == Live /\ taskMatches /\ ws = "open"

\* A submission names the driver's current job; asked and task are what the
\* pool demands for that job (not part of the message).
Submission(share) ==
  [epoch |-> currentJob.epoch, seed |-> currentJob.seed, pubkey |-> currentJob.pubkey,
   nonce |-> share.nonce, asked |-> currentJob.difficulty, task |-> currentJob.task]

SubmitShare ==
  /\ alive /\ stdout # <<>>
  /\ ~ Stale(Head(stdout)) /\ MaySubmit
  /\ sent' = sent \cup {Submission(Head(stdout))}
  /\ stdout' = Tail(stdout)
  /\ UNCHANGED <<conn, poolIdx, jobs, stdin, stdinOpen, alive, exiting>>

\* Stale, dry run, other task or no open socket: the share is dropped for good.
DropShare ==
  /\ alive /\ stdout # <<>>
  /\ Stale(Head(stdout)) \/ ~ MaySubmit
  /\ stdout' = Tail(stdout)
  /\ UNCHANGED <<conn, poolIdx, jobs, stdin, stdinOpen, alive, exiting, sent>>

OnShare == SubmitShare \/ DropShare

-----------------------------------------------------------------------------
(* Exit: SIGINT exits after 500 ms, the miner's exit at once; both leave    *)
(* unread shares behind and close the miner's stdin.                       *)

Sigint ==
  /\ alive /\ ~ exiting
  /\ exiting' = TRUE
  /\ UNCHANGED <<conn, poolIdx, jobs, pipes, alive, sent>>

ProcessExit ==
  /\ alive
  /\ alive' = FALSE
  /\ stdinOpen' = FALSE
  /\ ws' = "null" /\ timer' = FALSE
  /\ loginSent' = FALSE /\ subscribed' = FALSE /\ inbox' = <<>>
  /\ UNCHANGED <<poolIdx, jobs, stdin, stdout, exiting, sent>>

-----------------------------------------------------------------------------
(* The pool (external).                                                    *)

PoolAcceptsLogin ==
  /\ ws = "open" /\ loginSent /\ ~ subscribed
  /\ subscribed' = TRUE
  /\ UNCHANGED <<ws, timer, loginSent, inbox, poolIdx, jobs, pipes, alive, exiting, sent>>

PoolSends(m) ==
  /\ ws = "open" /\ subscribed /\ Len(inbox) < InboxCap
  /\ inbox' = Append(inbox, m)
  /\ UNCHANGED <<ws, timer, loginSent, subscribed, poolIdx, jobs, pipes, alive, exiting, sent>>

PoolNextJob ==
  /\ poolIdx < Len(JobSeq)
  /\ poolIdx' = poolIdx + 1
  /\ UNCHANGED <<conn, jobs, pipes, alive, exiting, sent>>

Pool == PoolAcceptsLogin \/ PoolSends(JobSeq[poolIdx]) \/ PoolSends(Idle) \/ PoolNextJob

\* Everything the driver itself does short of exiting.
Driver ==
  \/ Open \/ Close \/ Reconnect
  \/ PushJob \/ IdleJob \/ OnShare

-----------------------------------------------------------------------------
(* Standalone: a miner that reads its lines and prints any shares.          *)

MinerReads ==
  /\ stdin # <<>>
  /\ stdin' = Tail(stdin)
  /\ UNCHANGED <<conn, poolIdx, jobs, stdinOpen, stdout, alive, exiting, sent>>

MinerPrints(share) ==
  /\ stdout = <<>>
  /\ stdout' = <<share>>
  /\ UNCHANGED <<conn, poolIdx, jobs, stdin, stdinOpen, alive, exiting, sent>>

Next ==
  \/ Driver \/ Watchdog \/ Sigint \/ ProcessExit \/ Pool
  \/ MinerReads \/ \E share \in Shares : MinerPrints(share)

Spec == Init /\ [][Next]_vars

\* Timers fire, a closing socket closes, a message that arrived is handled, the
\* miner reads its stdin.  The pool owes nothing; connections open or close.
FairSpec ==
  /\ Spec
  /\ WF_vars(Watchdog) /\ WF_vars(Reconnect)
  /\ WF_vars(ws = "closing" /\ Close) /\ WF_vars(Open \/ (ws = "connecting" /\ Close))
  /\ WF_vars(PushJob) /\ WF_vars(IdleJob) /\ WF_vars(OnShare) /\ WF_vars(MinerReads)
  /\ WF_vars(exiting /\ ProcessExit)

-----------------------------------------------------------------------------
\* A running driver has either one socket or one pending reconnect, never both
\* (two sockets would deliver jobs twice) and never neither (it would sit idle
\* for good): the close event and the watchdog may not both start a connection.
OneConnection == alive => (ws = "null" <=> timer)

\* Every submission names a job the pool issued with the task that is loaded.
\* taskMatches is set for one job and used at a later share.
SubmitsLoadedTaskOnly ==
  \A sub \in sent :
    sub.task = LocalTask /\ \E j \in PoolJobs : j.seed = sub.seed /\ j.pubkey = sub.pubkey
                                               /\ j.epoch = sub.epoch /\ j.task = sub.task

\* A connection that brings no job is given up: it does not stay open for ever
\* with the age of the last job growing.
SilentConnectionReplaced == (ws = "open" /\ age > 0) ~> (ws # "open" \/ age = 0)

=============================================================================
