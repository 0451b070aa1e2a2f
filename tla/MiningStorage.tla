---------------------------- MODULE MiningStorage ----------------------------
(***************************************************************************)
(* The node's storage for outsourced mining: a ring of active tasks, two   *)
(* sets of solutions for each, and an array of the oracle queries that     *)
(* check solutions.  Every operation runs under one lock and is one step   *)
(* here.  What the node calls, and when, is not part of this repository:   *)
(* any call may come at any time, and a tick's scheduled queries are       *)
(* walked by index while other calls change the array.                     *)
(***************************************************************************)
EXTENDS Numerals, FiniteSets, SequencesExt

CONSTANTS
  Messages,                \* task messages: [jobId, target, data, whole]
  Solutions,               \* digests of solutions
  Ticks, Transactions,     \* ticks, from 1; query transactions [tick, source, taskId, solution]
  MaxNumTasks, MaxNumSolutionsPerTask,
  OracleQueryMaxNumTries,
  AdditionalDataSize,
  TargetBytes, Byte,       \* bytes of a full target (32), values of a byte (256)
  MaxIds                   \* bound: query ids handed out in a behaviour

Jobs == {msg.jobId : msg \in Messages}

ASSUME StorageAssumption ==
  /\ MaxNumTasks \in Nat \ {0} /\ MaxNumSolutionsPerTask \in Nat \ {0}
  /\ 0 \notin Jobs \cup Ticks

ASSUME MessageAssumption ==
  /\ Byte \in Nat \ {0} /\ TargetBytes \in Nat /\ AdditionalDataSize \in Nat
  /\ \A msg \in Messages :
       /\ msg.target.exponent \in Nat
       /\ \A k \in 0..2 : msg.target.mantissa[k] \in 0..(Byte - 1)
       /\ msg.data \in Seq(Nat)

VARIABLES
  activeTasks,      \* [slot -> jobId, 0 while unused]
  nextTaskIndex,
  receivedSolutions, countedRevSolutions,   \* [slot -> set of solutions]
  dogeTasks,        \* [slot -> stored description]
  oracleQueries,    \* [index -> query info and query, Empty in free places]
  ids,              \* how many query ids the oracle machine has handed out
  answered,         \* history: the ids whose failure or reply the storage has taken
  accepted,         \* history: [job -> the message accepted for it, 0 if not active]
  walk              \* a walk over the scheduled queries of a tick

taskVars == <<activeTasks, nextTaskIndex, receivedSolutions, countedRevSolutions, dogeTasks,
              accepted>>
queryVars == <<oracleQueries, ids, answered>>
vars == <<taskVars, queryVars, walk>>

Slots == 0..(MaxNumTasks - 1)
Places == 0..(MaxNumTasks * MaxNumSolutionsPerTask - 1)

\* A place set to zero by _removeOracleQuery: status SCHEDULED, for tick 0.
Empty == [tick |-> 0, status |-> "SCHEDULED", queryId |-> 0, source |-> 0, numTries |-> 0,
          taskId |-> 0, solution |-> 0]

NoWalk == [tick |-> 0, at |-> -1, seen |-> {}, due |-> {}]

Init ==
  /\ activeTasks = [s \in Slots |-> 0] /\ nextTaskIndex = 0
  /\ receivedSolutions = [s \in Slots |-> {}] /\ countedRevSolutions = receivedSolutions
  /\ dogeTasks = [s \in Slots |-> 0]
  /\ accepted = [j \in Jobs |-> 0]
  /\ oracleQueries = [p \in Places |-> Empty] /\ ids = 0 /\ answered = {}
  /\ walk = NoWalk

-----------------------------------------------------------------------------
(* Tasks and solutions.                                                    *)

\* The first index that satisfies the test, or -1.
First(S, Test(_)) ==
  LET hits == {i \in S : Test(i)} IN IF hits = {} THEN -1 ELSE CHOOSE i \in hits : \A k \in hits : i <= k

_findTask(job) == First(Slots, LAMBDA s : activeTasks[s] = job)

\* Mutant: a small exponent starts at byte 0 instead of before it.
ConvertClamped(compact) ==
  [i \in 0..(TargetBytes - 1) |->
     LET start == IF compact.exponent < 3 THEN 0 ELSE compact.exponent - 3
     IN  IF i - start \in 0..2 THEN compact.mantissa[i - start] ELSE 0]

\* The three bytes of the mantissa, placed from byte exponent - 3 on; bytes beyond
\* either end are cut off.
_convertTargetCompactToFull(compact) ==
  [i \in 0..(TargetBytes - 1) |->
     LET k == i - (compact.exponent - 3) IN IF k \in 0..2 THEN compact.mantissa[k] ELSE 0]

\* The description as it is stored; the tail of the data is zeroed.
Stored(msg) ==
  [jobId |-> msg.jobId, target |-> _convertTargetCompactToFull(msg.target),
   data |-> [i \in 1..AdditionalDataSize |-> IF i <= Len(msg.data) THEN msg.data[i] ELSE 0]]

Acceptable(msg) ==
  _findTask(msg.jobId) < 0 /\ msg.whole /\ Len(msg.data) <= AdditionalDataSize

\* Mutant: the evicted task's sets are left to the new one.
AddTaskKeepingSets(msg) ==
  /\ Acceptable(msg)
  /\ activeTasks' = [activeTasks EXCEPT ![nextTaskIndex] = msg.jobId]
  /\ nextTaskIndex' = (nextTaskIndex + 1) % MaxNumTasks
  /\ dogeTasks' = [dogeTasks EXCEPT ![nextTaskIndex] = Stored(msg)]
  /\ accepted' = [j \in Jobs |-> IF j = msg.jobId THEN msg
                               ELSE IF j = activeTasks[nextTaskIndex] THEN 0 ELSE accepted[j]]
  /\ UNCHANGED <<receivedSolutions, countedRevSolutions, queryVars, walk>>

\* addTask: the next place of the ring, whatever it held, with its sets cleared.  (The
\* message's cleanJobQueue is not looked at.)
AddTask(msg) ==
  /\ Acceptable(msg)
  /\ receivedSolutions' = [receivedSolutions EXCEPT ![nextTaskIndex] = {}]
  /\ countedRevSolutions' = [countedRevSolutions EXCEPT ![nextTaskIndex] = {}]
  /\ activeTasks' = [activeTasks EXCEPT ![nextTaskIndex] = msg.jobId]
  /\ nextTaskIndex' = (nextTaskIndex + 1) % MaxNumTasks
  /\ dogeTasks' = [dogeTasks EXCEPT ![nextTaskIndex] = Stored(msg)]
  /\ accepted' = [j \in Jobs |-> IF j = msg.jobId THEN msg
                               ELSE IF j = activeTasks[nextTaskIndex] THEN 0 ELSE accepted[j]]
  /\ UNCHANGED <<queryVars, walk>>

\* QPI::HashSet::add: NULL_INDEX, and no change, when the set is full.
Added(set, solution) ==
  IF Cardinality(set) < MaxNumSolutionsPerTask THEN set \cup {solution} ELSE set

\* addSolution and countSolutionForRevenue, where they change their set.
AddSolution(job, solution) ==
  LET s == _findTask(job)
  IN  /\ s >= 0 /\ solution \notin receivedSolutions[s]
      /\ receivedSolutions' = [receivedSolutions EXCEPT ![s] = Added(@, solution)]
      /\ UNCHANGED <<activeTasks, nextTaskIndex, countedRevSolutions, dogeTasks, accepted,
                     queryVars, walk>>

CountSolutionForRevenue(job, solution) ==
  LET s == _findTask(job)
  IN  /\ s >= 0 /\ solution \notin countedRevSolutions[s]
      /\ countedRevSolutions' = [countedRevSolutions EXCEPT ![s] = Added(@, solution)]
      /\ UNCHANGED <<activeTasks, nextTaskIndex, receivedSolutions, dogeTasks, accepted,
                     queryVars, walk>>

-----------------------------------------------------------------------------
(* Oracle queries: one for each solution to be checked, SCHEDULED for a    *)
(* tick, STARTED with an id, then removed by the reply or tried again.     *)

\* The place of the query a transaction carries, whatever its status.
FindByTx(tx) ==
  First(Places, LAMBDA p : LET q == oracleQueries[p]
                           IN  /\ q.tick = tx.tick /\ q.source = tx.source
                               /\ q.taskId = tx.taskId /\ q.solution = tx.solution)

FindById(id) ==
  First(Places, LAMBDA p : oracleQueries[p].status = "STARTED" /\ oracleQueries[p].queryId = id)

_removeOracleQuery(p) == oracleQueries' = [oracleQueries EXCEPT ![p] = Empty]

Scheduled(q, tick) == [q EXCEPT !.tick = tick, !.status = "SCHEDULED", !.queryId = -1]

\* Nothing is added if the query is there already or no place is free.
AddOracleQuery(tx) ==
  LET p == First(Places, LAMBDA i : oracleQueries[i].tick = 0)
  IN  /\ FindByTx(tx) < 0 /\ p >= 0
      /\ oracleQueries' = [oracleQueries EXCEPT ![p] =
           [tick |-> tx.tick, status |-> "SCHEDULED", queryId |-> -1, source |-> tx.source,
            numTries |-> 0, taskId |-> tx.taskId, solution |-> tx.solution]]
      /\ UNCHANGED <<ids, answered>>

\* The transaction was included, and the oracle machine gave the query its next id.
MarkOracleQueryStarted(tx) ==
  /\ ids < MaxIds /\ ids' = ids + 1
  /\ FindByTx(tx) >= 0
  /\ oracleQueries' = [oracleQueries EXCEPT ![FindByTx(tx)].status = "STARTED",
                                            ![FindByTx(tx)].queryId = ids + 1]
  /\ UNCHANGED answered

\* Mutant: a query tried again keeps its status and id.
RescheduleStillStarted(id, tick) ==
  LET p == FindById(id)
  IN  /\ p >= 0
      /\ LET tries == oracleQueries[p].numTries + 1
         IN  IF tries >= OracleQueryMaxNumTries \/ _findTask(oracleQueries[p].taskId) < 0
               THEN _removeOracleQuery(p)
               ELSE oracleQueries' = [oracleQueries EXCEPT
                      ![p] = [@ EXCEPT !.tick = tick, !.numTries = tries]]
      /\ answered' = answered \cup {id} /\ UNCHANGED ids

\* increaseOracleQueryFailCounterAndReschedule: removed after its last try, or when its
\* task is not active any more.
IncreaseFailCounterAndReschedule(id, tick) ==
  LET p == FindById(id)
  IN  /\ p >= 0
      /\ LET tries == oracleQueries[p].numTries + 1
         IN  IF tries >= OracleQueryMaxNumTries \/ _findTask(oracleQueries[p].taskId) < 0
               THEN _removeOracleQuery(p)
               ELSE oracleQueries' = [oracleQueries EXCEPT
                      ![p] = [Scheduled(@, tick) EXCEPT !.numTries = tries]]
      /\ answered' = answered \cup {id} /\ UNCHANGED ids

RemoveById(id) ==
  /\ FindById(id) >= 0
  /\ _removeOracleQuery(FindById(id))
  /\ answered' = answered \cup {id} /\ UNCHANGED ids

RemoveByTx(tx) ==
  /\ FindByTx(tx) >= 0
  /\ _removeOracleQuery(FindByTx(tx))
  /\ UNCHANGED <<ids, answered>>

RemoveByIndex(p) == _removeOracleQuery(p) /\ UNCHANGED <<ids, answered>>

\* updateOracleQueryScheduledTick writes whatever is at the index, free places too.
UpdateScheduledTick(p, tick) ==
  /\ oracleQueries' = [oracleQueries EXCEPT ![p] = Scheduled(@, tick)]
  /\ UNCHANGED <<ids, answered>>

-----------------------------------------------------------------------------
(* The walk over a tick's queries.                                         *)

IsScheduled(p, tick) == oracleQueries[p].tick = tick /\ oracleQueries[p].status = "SCHEDULED"

\* Mutant: the search starts one place too late.
GetNextSkipping(current, tick) ==
  First({p \in Places : p > current + 1}, LAMBDA p : IsScheduled(p, tick))

GetNextScheduledQueryIndexForTick(current, tick) ==
  First({p \in Places : p > current}, LAMBDA p : IsScheduled(p, tick))

\* What a walk must see: the queries that are due from its start to its end.
StartWalk(tick) ==
  /\ walk.tick = 0
  /\ walk' = [tick |-> tick, at |-> -1, seen |-> {}, due |-> {p \in Places : IsScheduled(p, tick)}]
  /\ UNCHANGED <<taskVars, queryVars>>

WalkOn ==
  /\ walk.tick # 0
  /\ LET p == GetNextScheduledQueryIndexForTick(walk.at, walk.tick)
     IN  IF p < 0 THEN walk' = NoWalk
         ELSE walk' = [walk EXCEPT !.at = p, !.seen = @ \cup {p}]
  /\ UNCHANGED <<taskVars, queryVars>>

QueryCall ==
  /\ \/ \E tx \in Transactions :
          AddOracleQuery(tx) \/ MarkOracleQueryStarted(tx) \/ RemoveByTx(tx)
     \/ \E id \in 1..ids :
          RemoveById(id) \/ \E tick \in Ticks : IncreaseFailCounterAndReschedule(id, tick)
     \/ \E p \in Places :
          RemoveByIndex(p) \/ \E tick \in Ticks : UpdateScheduledTick(p, tick)
  /\ walk' = [walk EXCEPT !.due = {p \in @ : oracleQueries'[p] = oracleQueries[p]}]
  /\ UNCHANGED taskVars

SolutionCall ==
  \E job \in Jobs, s \in Solutions : AddSolution(job, s) \/ CountSolutionForRevenue(job, s)

Next ==
  \/ \E msg \in Messages : AddTask(msg)
  \/ SolutionCall
  \/ QueryCall
  \/ WalkOn
  \/ \E tick \in Ticks : StartWalk(tick)

Spec == Init /\ [][Next]_vars

-----------------------------------------------------------------------------
\* The tasks in the ring, from the oldest to the newest: until every place is taken the
\* oldest is at place 0, then at the one that is taken next.
Ring ==
  IF activeTasks[nextTaskIndex] = 0
  THEN [i \in 1..nextTaskIndex |-> activeTasks[i - 1]]
  ELSE [i \in 1..MaxNumTasks |-> activeTasks[(nextTaskIndex + i - 1) % MaxNumTasks]]
OfJob(sets) ==
  [j \in Jobs |-> IF _findTask(j) < 0 THEN {} ELSE sets[_findTask(j)]]

Ledger == INSTANCE TaskLedger WITH
  active <- Ring,
  received <- OfJob(receivedSolutions), counted <- OfJob(countedRevSolutions)

\* The ring and its sets are a queue of the newest tasks with an account each: a task's
\* solutions enter once while it is active, and no task gets another one's.
ImplementsLedger == Ledger!Spec

Target(compact) ==
  LET mantissa == Value(Byte, compact.mantissa, 3)
      whole == IF compact.exponent < 3 THEN mantissa \div Weight(Byte, 3 - compact.exponent)
               ELSE mantissa * Weight(Byte, compact.exponent - 3)
  IN  whole % Weight(Byte, TargetBytes)

\* An active task is described, to the byte, as in the message that made it active: its
\* target is mantissa * 256^(exponent - 3), and nothing of an evicted task is left.
TasksAsAdded ==
  \A s \in Slots : activeTasks[s] # 0 =>
    LET msg == accepted[activeTasks[s]]
    IN  /\ dogeTasks[s].jobId = activeTasks[s]
        /\ Value(Byte, dogeTasks[s].target, TargetBytes) = Target(msg.target)
        /\ \A i \in 1..AdditionalDataSize :
             dogeTasks[s].data[i] = IF i \in DOMAIN msg.data THEN msg.data[i] ELSE 0

\* An id belongs to one query at most, and no longer once its failure or reply was taken:
\* a notice that comes twice, or after the query was tried again, finds nothing.
AnswersCountOnce ==
  \A p \in Places : oracleQueries[p].status = "STARTED" =>
    LET id == oracleQueries[p].queryId
    IN  id \in (1..ids) \ answered /\ FindById(id) = p

\* The fields of a place of the array, with the ids a cleared or rescheduled query has.
Query ==
  [tick : {tx.tick : tx \in Transactions} \cup Ticks \cup {0},
   status : {"SCHEDULED", "STARTED"}, queryId : Int,
   source : {tx.source : tx \in Transactions} \cup {0}, numTries : Nat,
   taskId : {tx.taskId : tx \in Transactions} \cup {0},
   solution : {tx.solution : tx \in Transactions} \cup {0}]

\* Whatever is called when, a place holds a query's fields, and only ids handed out are
\* answered.
TypeOK == oracleQueries \in [Places -> Query] /\ ids \in Nat /\ answered \subseteq 1..ids

\* A walk that ends has been at every query that was due all along, and it is never twice
\* at the same place, whatever was added, moved or removed meanwhile.
WalkIsComplete ==
  [][WalkOn => IF walk'.tick = 0 THEN walk.due \subseteq walk.seen
               ELSE walk'.at \notin walk.seen]_vars
=============================================================================
