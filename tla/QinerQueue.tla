------------------------------ MODULE QinerQueue ------------------------------
(***************************************************************************)
(* Qiner.cpp: mining threads push the solutions they find on foundNonce;   *)
(* the main thread, once a second, copies the oldest, sends it to the node *)
(* over a connection of its own and pops it when the send went through.    *)
(* Ctrl-C sets state; a second one exits at once.  A connection that was   *)
(* reset makes send fail or raises SIGPIPE, which nothing handles.         *)
(*                                                                         *)
(* What is done under foundNonceLock is one action.  The counters of the   *)
(* status line and the encryption of the packet are left out.              *)
(***************************************************************************)
EXTENDS Integers, Sequences, Functions

CONSTANTS
  Threads,
  MaxFound,    \* bound: solutions a thread finds
  PacketParts  \* send calls a packet may need

ASSUME QinerAssumption == MaxFound \in Nat /\ PacketParts \in Nat \ {0}

Solutions == Threads \X (1..MaxFound)
None == <<>>

VARIABLES
  stopping,    \* state
  running,     \* the process exists
  thread,      \* where each mining thread is
  found,       \* solutions each thread has found
  foundNonce,  \* the queue
  main,        \* where the main thread is
  sendNonce,   \* its copy of the solution being sent
  unsent,      \* parts of the packet not yet taken by the socket
  connection,  \* "closed", "open", "reset"
  handed       \* history: solutions whose packet the socket took whole

miners == <<thread, found>>
sender == <<main, sendNonce, unsent, connection, handed>>
queueVars == <<stopping, running, miners, foundNonce, sender>>

QueueInit ==
  /\ stopping = FALSE /\ running = TRUE
  /\ thread = [t \in Threads |-> "load"]
  /\ found = [t \in Threads |-> 0]
  /\ foundNonce = <<>>
  /\ main = "peek" /\ sendNonce = None /\ unsent = 0 /\ connection = "closed"
  /\ handed = <<>>

-----------------------------------------------------------------------------
(* miningThreadProc.                                                       *)

Goes(t, from, to) == running /\ thread[t] = from /\ thread' = [thread EXCEPT ![t] = to]

Load(t) ==
  /\ Goes(t, "load", "search")
  /\ UNCHANGED <<stopping, running, found, foundNonce, sender>>

\* A thread that cannot load the task ends; nobody is told.
LoadFails(t) ==
  /\ Goes(t, "load", "left")
  /\ UNCHANGED <<stopping, running, found, foundNonce, sender>>

Draw(t) ==
  /\ ~ stopping
  /\ Goes(t, "search", "evaluate")
  /\ UNCHANGED <<stopping, running, found, foundNonce, sender>>

FindNothing(t) ==
  /\ Goes(t, "evaluate", "search")
  /\ UNCHANGED <<stopping, running, found, foundNonce, sender>>

FindSolution(t) ==
  /\ found[t] < MaxFound
  /\ Goes(t, "evaluate", "push")
  /\ found' = [found EXCEPT ![t] = @ + 1]
  /\ UNCHANGED <<stopping, running, foundNonce, sender>>

Push(t) ==
  /\ Goes(t, "push", "search")
  /\ foundNonce' = Append(foundNonce, <<t, found[t]>>)
  /\ UNCHANGED <<stopping, running, found, sender>>

Leave(t) ==
  /\ stopping
  /\ Goes(t, "search", "left")
  /\ UNCHANGED <<stopping, running, found, foundNonce, sender>>

Mine(t) ==
  \/ Load(t) \/ LoadFails(t) \/ Draw(t) \/ FindNothing(t) \/ FindSolution(t)
  \/ Push(t) \/ Leave(t)

-----------------------------------------------------------------------------
(* main.                                                                   *)

At(place) == running /\ main = place

\* The front is copied, not removed.
Peek ==
  /\ At("peek") /\ ~ stopping
  /\ IF foundNonce = <<>>
     THEN main' = "sleep" /\ UNCHANGED sendNonce
     ELSE main' = "connect" /\ sendNonce' = Head(foundNonce)
  /\ UNCHANGED <<stopping, running, miners, foundNonce, unsent, connection, handed>>

Connect ==
  /\ At("connect")
  /\ connection' = "open" /\ unsent' = PacketParts
  /\ main' = "send"
  /\ UNCHANGED <<stopping, running, miners, foundNonce, sendNonce, handed>>

ConnectFails ==
  /\ At("connect")
  /\ main' = "sleep"
  /\ UNCHANGED <<stopping, running, miners, foundNonce, sendNonce, unsent, connection, handed>>

\* One send call took a part; with the last one sendData returns true.
SendPart ==
  /\ At("send") /\ connection = "open"
  /\ unsent' = unsent - 1
  /\ IF unsent = 1
     THEN main' = "pop" /\ handed' = Append(handed, sendNonce)
     ELSE UNCHANGED <<main, handed>>
  /\ UNCHANGED <<stopping, running, miners, foundNonce, sendNonce, connection>>

\* Mutant: a solution whose packet failed is popped all the same.
SendFailsPops ==
  /\ At("send") /\ connection = "reset"
  /\ connection' = "closed" /\ unsent' = 0
  /\ main' = "sleep"
  /\ foundNonce' = Tail(foundNonce)
  /\ UNCHANGED <<stopping, running, miners, sendNonce, handed>>

SendFails ==
  /\ At("send") /\ connection = "reset"
  /\ connection' = "closed" /\ unsent' = 0
  /\ main' = "sleep"
  /\ UNCHANGED <<stopping, running, miners, foundNonce, sendNonce, handed>>

\* The other outcome of send on a reset connection.
BrokenPipe ==
  /\ At("send") /\ connection = "reset"
  /\ running' = FALSE
  /\ UNCHANGED <<stopping, miners, foundNonce, sender>>

\* Mutant: the newest solution is popped.
PopNewest ==
  /\ At("pop")
  /\ foundNonce' = SubSeq(foundNonce, 1, Len(foundNonce) - 1)
  /\ connection' = "closed"
  /\ main' = "sleep"
  /\ UNCHANGED <<stopping, running, miners, sendNonce, unsent, handed>>

\* Threads may have pushed since Peek, behind the solution that was sent.
Pop ==
  /\ At("pop")
  /\ foundNonce' = Tail(foundNonce)
  /\ connection' = "closed"
  /\ main' = "sleep"
  /\ UNCHANGED <<stopping, running, miners, sendNonce, unsent, handed>>

Wake ==
  /\ At("sleep")
  /\ main' = "peek"
  /\ UNCHANGED <<stopping, running, miners, foundNonce, sendNonce, unsent, connection, handed>>

\* Mutant: main keeps going until the queue is empty.
LeaveLoopWhenEmpty ==
  /\ At("peek") /\ stopping /\ foundNonce = <<>>
  /\ main' = "join"
  /\ UNCHANGED <<stopping, running, miners, foundNonce, sendNonce, unsent, connection, handed>>

LeaveLoop ==
  /\ At("peek") /\ stopping
  /\ main' = "join"
  /\ UNCHANGED <<stopping, running, miners, foundNonce, sendNonce, unsent, connection, handed>>

JoinAll ==
  /\ At("join") /\ \A t \in Threads : thread[t] = "left"
  /\ running' = FALSE
  /\ UNCHANGED <<stopping, miners, foundNonce, sender>>

Send == SendPart \/ SendFails \/ BrokenPipe
Main == Peek \/ Connect \/ ConnectFails \/ Send \/ Pop \/ Wake \/ LeaveLoop \/ JoinAll

-----------------------------------------------------------------------------
(* Outside.                                                                *)

\* ctrlCHandlerRoutine, between any two steps.
Interrupt ==
  /\ running
  /\ IF stopping THEN running' = FALSE /\ UNCHANGED stopping
                 ELSE stopping' = TRUE /\ UNCHANGED running
  /\ UNCHANGED <<miners, foundNonce, sender>>

NodeResets ==
  /\ running /\ connection = "open"
  /\ connection' = "reset"
  /\ UNCHANGED <<stopping, running, miners, foundNonce, main, sendNonce, unsent, handed>>

QueueNext == Main \/ Interrupt \/ NodeResets \/ \E t \in Threads : Mine(t)

QueueSpec == QueueInit /\ [][QueueNext]_queueVars

\* The threads are scheduled, a nonce's evaluation ends, and a node that is tried
\* again and again is reached and takes the packet some time.
FairQueueSpec ==
  /\ QueueSpec
  /\ WF_queueVars(Main) /\ \A t \in Threads : WF_queueVars(Mine(t))
  /\ SF_queueVars(Connect) /\ SF_queueVars(SendPart) /\ SF_queueVars(SendPart /\ unsent = 1)

-----------------------------------------------------------------------------
\* The process implements the outbox: a failed connection or send, retried a second
\* later with other threads pushing meanwhile, never loses, repeats or reorders a
\* solution.  Between the send and the pop the front of the queue has been handed.
Outbox == INSTANCE SolutionOutbox WITH
  pending <- IF main = "pop" THEN Tail(foundNonce) ELSE foundNonce
ImplementsOutbox == Outbox!Spec

\* A solution in the queue gets to the node, unless the process is told to stop or
\* is killed: every failure is tried again.
EverySolutionHanded ==
  \A solution \in Solutions :
    solution \in Range(foundNonce) ~>
      (solution \in Range(handed) \/ stopping \/ ~ running)

\* Ctrl-C ends the process once: no thread and no send keeps it from joining.
ShutsDown == stopping ~> ~ running
=============================================================================
