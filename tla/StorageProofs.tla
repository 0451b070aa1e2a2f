---------------------------- MODULE StorageProofs ----------------------------
(***************************************************************************)
(* For every number of tasks and solutions, every transaction and tick:    *)
(* an id belongs to one stored query at most, and to none any more once    *)
(* its failure or its reply was taken; a walk over a tick's queries misses *)
(* none that was due all along; the ring is the ledger of the newest       *)
(* tasks, each described as it was added, to the byte of its target.  Of   *)
(* the task file, whose packed trits are numbers by digits like a target's *)
(* bytes: packing and unpacking are inverse, so that every load that       *)
(* succeeds yields the task of one author.  Of the node's statistics: the  *)
(* counters of phase and epoch together miss exactly the events that came  *)
(* while a phase was being closed.  And of the shares the nodes report: a  *)
(* packed count is read back as it was, unless one beyond ten bits runs    *)
(* into it, and a total is the sum of what was reported.                   *)
(***************************************************************************)
EXTENDS MiningStorage, MiningShares, MiningStats, TaskLoader, TLAPS,
  WellFoundedInduction, SequenceTheorems, FiniteSetTheorems

-----------------------------------------------------------------------------
(* Searching the array.                                                    *)

LEMMA PlacesAreNumbers == Places \subseteq Nat
BY StorageAssumption DEF Places

\* A set of places that is not empty has a first one.
LEMMA FirstExists ==
  ASSUME NEW hits \in SUBSET Nat, hits # {}
  PROVE  \E i \in hits : \A k \in hits : i <= k
<1> DEFINE less == {xy \in Nat \X Nat : xy[1] < xy[2]}
<1>1. IsWellFoundedOn(less, Nat)
  BY NatLessThanWellFounded DEF OpToRel
<1>2. \E i \in hits : \A k \in hits : <<k, i>> \notin less
  BY <1>1, WFMin
<1>3. PICK i \in hits : \A k \in hits : <<k, i>> \notin less
  BY <1>2
<1>4. ASSUME NEW k \in hits, k < i PROVE <<k, i>> \in less
  <2>1. <<k, i>> \in Nat \X Nat /\ <<k, i>>[1] = k /\ <<k, i>>[2] = i
    OBVIOUS
  <2> QED
    BY <1>4, <2>1
<1> HIDE DEF less
<1>5. ASSUME NEW k \in hits PROVE i <= k
  <2>1. ~(k < i)
    BY <1>3, <1>4
  <2>2. i \in Nat /\ k \in Nat
    OBVIOUS
  <2> QED
    BY <2>1, <2>2
<1> QED
  BY <1>5

\* What FindById finds is a started query with that id.
LEMMA FoundById ==
  ASSUME NEW id \in Int, FindById(id) >= 0
  PROVE  /\ FindById(id) \in Places
         /\ oracleQueries[FindById(id)].status = "STARTED"
         /\ oracleQueries[FindById(id)].queryId = id
<1> DEFINE hits == {p \in Places : oracleQueries[p].status = "STARTED"
                                   /\ oracleQueries[p].queryId = id}
<1>1. FindById(id) = IF hits = {} THEN -1 ELSE CHOOSE i \in hits : \A k \in hits : i <= k
  BY DEF FindById, First
<1>2. hits # {}
  BY <1>1
<1>3. hits \subseteq Nat
  BY PlacesAreNumbers
<1>4. \E i \in hits : \A k \in hits : i <= k
  BY <1>2, <1>3, FirstExists
<1>5. FindById(id) \in hits
  BY <1>1, <1>2, <1>4
<1> QED
  BY <1>5

\* What FindByTx finds is a place, for any transaction.
LEMMA FoundByTx ==
  ASSUME NEW tx, FindByTx(tx) >= 0
  PROVE  FindByTx(tx) \in Places
<1> DEFINE hits == {p \in Places : /\ oracleQueries[p].tick = tx.tick
                                   /\ oracleQueries[p].source = tx.source
                                   /\ oracleQueries[p].taskId = tx.taskId
                                   /\ oracleQueries[p].solution = tx.solution}
<1>1. FindByTx(tx) = IF hits = {} THEN -1 ELSE CHOOSE i \in hits : \A k \in hits : i <= k
  BY DEF FindByTx, First
<1>2. hits # {}
  BY <1>1
<1>3. hits \subseteq Nat
  BY PlacesAreNumbers
<1>4. \E i \in hits : \A k \in hits : i <= k
  BY <1>2, <1>3, FirstExists
<1>5. FindByTx(tx) \in hits
  BY <1>1, <1>2, <1>4
<1> QED
  BY <1>5
-----------------------------------------------------------------------------
(* The inductive invariant: AnswersCountOnce in terms of the array instead *)
(* of the search, next to the types.                                       *)

Started(p) == oracleQueries[p].status = "STARTED"

OpenIds == \A p \in Places : Started(p) => oracleQueries[p].queryId \in (1..ids) \ answered

OneQueryPerId ==
  \A p, q \in Places :
    Started(p) /\ Started(q) /\ oracleQueries[p].queryId = oracleQueries[q].queryId => p = q

IInv == TypeOK /\ OpenIds /\ OneQueryPerId

\* Nothing is said of a query that is only scheduled, so a step that leaves every started
\* query as it was, or not started, and takes no answer, keeps the invariant.
LEMMA FewerStarted ==
  ASSUME IInv, TypeOK', ids' = ids, answered' = answered,
         \A p \in Places : Started(p)' => oracleQueries'[p].queryId = oracleQueries[p].queryId
                                          /\ Started(p)
  PROVE  IInv'
BY DEF IInv, OpenIds, OneQueryPerId, Started

\* A step that takes the answer for an id found and leaves that place not started.
LEMMA AnswerTaken ==
  ASSUME IInv, TypeOK', NEW id \in 1..ids, NEW f \in Places, f = FindById(id),
         ids' = ids, answered' = answered \cup {id},
         ~ Started(f)',
         \A p \in Places \ {f} : oracleQueries'[p] = oracleQueries[p]
  PROVE  IInv'
<1>1. Started(f) /\ oracleQueries[f].queryId = id
  <2>1. f >= 0 /\ id \in Int
    BY PlacesAreNumbers
  <2> QED
    BY <2>1, FoundById DEF Started
<1>2. ASSUME NEW p \in Places, Started(p)'
      PROVE  Started(p) /\ oracleQueries'[p].queryId = oracleQueries[p].queryId
             /\ oracleQueries[p].queryId # id
  <2>1. p # f
    BY <1>2
  <2>2. oracleQueries'[p] = oracleQueries[p] /\ Started(p)
    BY <1>2, <2>1 DEF Started
  <2> QED
    BY <1>1, <2>1, <2>2 DEF IInv, OneQueryPerId
<1> QED
  BY <1>2 DEF IInv, OpenIds, OneQueryPerId, Started
-----------------------------------------------------------------------------
(* The calls, one by one.                                                  *)

\* What the calls write is a query again.
LEMMA EmptyType == Empty \in Query /\ Empty.status = "SCHEDULED"
BY DEF Empty, Query

LEMMA AddedType ==
  ASSUME NEW tx \in Transactions
  PROVE  [tick |-> tx.tick, status |-> "SCHEDULED", queryId |-> -1, source |-> tx.source,
          numTries |-> 0, taskId |-> tx.taskId, solution |-> tx.solution] \in Query
BY DEF Query

LEMMA StartedType ==
  ASSUME NEW q \in Query, NEW id \in Int
  PROVE  /\ [q EXCEPT !.status = "STARTED", !.queryId = id] \in Query
         /\ [q EXCEPT !.status = "STARTED", !.queryId = id].queryId = id
BY DEF Query

LEMMA ScheduledType ==
  ASSUME NEW q \in Query, NEW tick \in Ticks
  PROVE  Scheduled(q, tick) \in Query /\ Scheduled(q, tick).status = "SCHEDULED"
<1> DEFINE now == [q EXCEPT !.tick = tick]
<1>1. now \in Query
  BY DEF Query
<1>2. Scheduled(q, tick) = [now EXCEPT !.status = "SCHEDULED", !.queryId = -1]
  BY DEF Query, Scheduled
<1> HIDE DEF now
<1>3. -1 \in Int
  OBVIOUS
<1> QED
  BY <1>1, <1>2, <1>3 DEF Query

LEMMA CountedType ==
  ASSUME NEW q \in Query, NEW n \in Nat
  PROVE  [q EXCEPT !.numTries = n] \in Query /\ [q EXCEPT !.numTries = n].status = q.status
BY DEF Query

\* A place gets a query that is not started; AnswerTaken and FewerStarted for it.
LEMMA AnswerWritten ==
  ASSUME IInv, NEW id \in 1..ids, NEW f \in Places, f = FindById(id),
         NEW new \in Query, new.status = "SCHEDULED",
         oracleQueries' = [oracleQueries EXCEPT ![f] = new],
         ids' = ids, answered' = answered \cup {id}
  PROVE  IInv'
<1>1. TypeOK'
  BY DEF IInv, TypeOK
<1>2. ~ Started(f)' /\ \A p \in Places \ {f} : oracleQueries'[p] = oracleQueries[p]
  BY DEF IInv, TypeOK, Started
<1> QED
  BY <1>1, <1>2, AnswerTaken

LEMMA Overwritten ==
  ASSUME IInv, NEW f, NEW new \in Query, new.status = "SCHEDULED",
         oracleQueries' = [oracleQueries EXCEPT ![f] = new],
         ids' = ids, answered' = answered
  PROVE  IInv'
<1>1. TypeOK'
  BY DEF IInv, TypeOK
<1>2. ASSUME NEW p \in Places, Started(p)' PROVE oracleQueries'[p] = oracleQueries[p]
  BY <1>2 DEF IInv, TypeOK, Started
<1> QED
  BY <1>1, <1>2, FewerStarted DEF Started

LEMMA InitIInv == Init => IInv
<1> SUFFICES ASSUME Init PROVE IInv
  OBVIOUS
<1>1. oracleQueries = [p \in Places |-> Empty] /\ ids = 0 /\ answered = {}
  BY DEF Init
<1>2. TypeOK
  BY <1>1, EmptyType DEF TypeOK
<1>3. \A p \in Places : ~ Started(p)
  BY <1>1 DEF Started, Empty
<1> QED
  BY <1>2, <1>3 DEF IInv, OpenIds, OneQueryPerId

LEMMA AddKeeps ==
  ASSUME IInv, NEW tx \in Transactions, AddOracleQuery(tx)
  PROVE  IInv'
<1> DEFINE new == [tick |-> tx.tick, status |-> "SCHEDULED", queryId |-> -1,
                   source |-> tx.source, numTries |-> 0, taskId |-> tx.taskId,
                   solution |-> tx.solution]
<1>1. PICK p : /\ oracleQueries' = [oracleQueries EXCEPT ![p] = new]
               /\ ids' = ids /\ answered' = answered
  BY DEF AddOracleQuery
<1>2. new \in Query /\ new.status = "SCHEDULED"
  BY AddedType
<1> HIDE DEF new
<1> QED
  BY <1>1, <1>2, Overwritten

\* The only step that starts a query: with an id never given before.
LEMMA MarkKeeps ==
  ASSUME IInv, NEW tx \in Transactions, MarkOracleQueryStarted(tx)
  PROVE  IInv'
<1>1. PICK f \in Places :
        /\ oracleQueries' = [oracleQueries EXCEPT ![f].status = "STARTED", ![f].queryId = ids + 1]
        /\ ids' = ids + 1 /\ answered' = answered
  BY FoundByTx DEF MarkOracleQueryStarted
<1> DEFINE new == [oracleQueries[f] EXCEPT !.status = "STARTED", !.queryId = ids + 1]
<1>2. oracleQueries[f] \in Query /\ ids \in Nat
  BY DEF IInv, TypeOK
<1>3. new \in Query /\ new.queryId = ids + 1
  <2>1. oracleQueries[f] \in Query /\ ids + 1 \in Int
    BY <1>2
  <2> QED
    BY <2>1, StartedType
<1>4. oracleQueries' = [oracleQueries EXCEPT ![f] = new]
  BY <1>1 DEF IInv, TypeOK
<1> HIDE DEF new
<1>5. TypeOK'
  <2>1. oracleQueries' \in [Places -> Query]
    BY <1>3, <1>4 DEF IInv, TypeOK
  <2>2. ids' \in Nat /\ answered' \subseteq 1..ids'
    BY <1>1, <1>2 DEF IInv, TypeOK
  <2> QED
    BY <2>1, <2>2 DEF TypeOK
<1>6. oracleQueries'[f].queryId = ids + 1
  BY <1>3, <1>4 DEF IInv, TypeOK
<1>7. \A q \in Places \ {f} :
        /\ oracleQueries'[q] = oracleQueries[q]
        /\ Started(q)' => Started(q) /\ oracleQueries'[q].queryId \in (1..ids) \ answered
  BY <1>4 DEF IInv, TypeOK, OpenIds, Started
<1>8. ids + 1 \notin 1..ids /\ ids + 1 \in (1..ids') \ answered' /\ 1..ids \subseteq 1..ids'
  BY <1>1, <1>2 DEF IInv, TypeOK
<1>9. OpenIds'
  <2>1. ASSUME NEW q \in Places, Started(q)'
        PROVE  oracleQueries'[q].queryId \in (1..ids') \ answered'
    BY <1>1, <1>6, <1>7, <1>8, <2>1
  <2> QED
    BY <2>1 DEF OpenIds
<1>10. OneQueryPerId'
  <2>1. ASSUME NEW p \in Places, NEW q \in Places, Started(p)', Started(q)',
               oracleQueries'[p].queryId = oracleQueries'[q].queryId
        PROVE  p = q
    <3>1. p = f <=> q = f
      BY <1>6, <1>7, <1>8, <2>1
    <3> QED
      BY <1>7, <2>1, <3>1 DEF IInv, OneQueryPerId
  <2> QED
    BY <2>1 DEF OneQueryPerId
<1> QED
  BY <1>5, <1>9, <1>10 DEF IInv

LEMMA FailKeeps ==
  ASSUME IInv, NEW id \in 1..ids, NEW tick \in Ticks, IncreaseFailCounterAndReschedule(id, tick)
  PROVE  IInv'
<1>1. PICK f \in Places : f = FindById(id)
  BY FoundById DEF IncreaseFailCounterAndReschedule
<1>2. PICK new \in Query :
        /\ oracleQueries' = [oracleQueries EXCEPT ![f] = new] /\ new.status = "SCHEDULED"
  <2> DEFINE again == Scheduled(oracleQueries[f], tick)
             tries == oracleQueries[f].numTries + 1
  <2>1. oracleQueries[f] \in Query /\ tries \in Nat
    BY DEF IInv, TypeOK, Query
  <2>2. again \in Query /\ again.status = "SCHEDULED"
    BY <2>1, ScheduledType
  <2>3. \/ oracleQueries' = [oracleQueries EXCEPT ![f] = Empty]
        \/ oracleQueries' = [oracleQueries EXCEPT ![f] = [again EXCEPT !.numTries = tries]]
    BY <1>1 DEF IncreaseFailCounterAndReschedule, _removeOracleQuery, IInv, TypeOK
  <2> HIDE DEF again, tries
  <2>4. /\ [again EXCEPT !.numTries = tries] \in Query
        /\ [again EXCEPT !.numTries = tries].status = "SCHEDULED"
    BY <2>1, <2>2, CountedType
  <2> QED
    BY <2>3, <2>4, EmptyType
<1>3. ids' = ids /\ answered' = answered \cup {id}
  BY DEF IncreaseFailCounterAndReschedule
<1> QED
  BY <1>1, <1>2, <1>3, AnswerWritten

LEMMA RemoveByIdKeeps ==
  ASSUME IInv, NEW id \in 1..ids, RemoveById(id)
  PROVE  IInv'
<1>1. PICK f \in Places : f = FindById(id)
  BY FoundById DEF RemoveById
<1> QED
  BY <1>1, EmptyType, AnswerWritten DEF RemoveById, _removeOracleQuery

LEMMA QueryCallKeeps == IInv /\ QueryCall => IInv'
<1> SUFFICES ASSUME IInv, QueryCall PROVE IInv'
  OBVIOUS
<1>1. ASSUME NEW tx \in Transactions, RemoveByTx(tx) PROVE IInv'
  BY <1>1, EmptyType, Overwritten DEF RemoveByTx, _removeOracleQuery
<1>2. ASSUME NEW p \in Places, RemoveByIndex(p) PROVE IInv'
  BY <1>2, EmptyType, Overwritten DEF RemoveByIndex, _removeOracleQuery
<1>3. ASSUME NEW p \in Places, NEW tick \in Ticks, UpdateScheduledTick(p, tick) PROVE IInv'
  <2> DEFINE new == Scheduled(oracleQueries[p], tick)
  <2>1. new \in Query /\ new.status = "SCHEDULED"
    BY ScheduledType DEF IInv, TypeOK
  <2>2. oracleQueries' = [oracleQueries EXCEPT ![p] = new] /\ ids' = ids /\ answered' = answered
    BY <1>3 DEF UpdateScheduledTick, IInv, TypeOK
  <2> HIDE DEF new
  <2> QED
    BY <2>1, <2>2, Overwritten
<1> QED
  BY <1>1, <1>2, <1>3, AddKeeps, MarkKeeps, FailKeeps, RemoveByIdKeeps DEF QueryCall

LEMMA NextIInv == IInv /\ [Next]_vars => IInv'
<1> SUFFICES ASSUME IInv, [Next]_vars PROVE IInv'
  OBVIOUS
<1>1. CASE QueryCall
  BY <1>1, QueryCallKeeps
<1>2. CASE UNCHANGED queryVars
  BY <1>2 DEF IInv, TypeOK, OpenIds, OneQueryPerId, Started, queryVars
<1>3. QueryCall \/ UNCHANGED queryVars
  BY DEF Next, vars, AddTask, SolutionCall, AddSolution, CountSolutionForRevenue, WalkOn,
         StartWalk, queryVars
<1> QED
  BY <1>1, <1>2, <1>3

\* With one query to an id at most, the search by id finds that one.
LEMMA IInvImpliesAnswersCountOnce == IInv => AnswersCountOnce
<1> SUFFICES ASSUME IInv, NEW p \in Places, Started(p)
             PROVE  /\ oracleQueries[p].queryId \in (1..ids) \ answered
                    /\ FindById(oracleQueries[p].queryId) = p
  BY DEF AnswersCountOnce, Started
<1> DEFINE id == oracleQueries[p].queryId
           hits == {q \in Places : oracleQueries[q].status = "STARTED"
                                   /\ oracleQueries[q].queryId = id}
<1>1. hits = {p}
  BY DEF IInv, OneQueryPerId, Started
<1>2. FindById(id) = IF hits = {} THEN -1 ELSE CHOOSE i \in hits : \A k \in hits : i <= k
  BY DEF FindById, First
<1>3. p \in Nat /\ p <= p
  BY PlacesAreNumbers
<1> HIDE DEF hits
<1>4. FindById(id) = p
  BY <1>1, <1>2, <1>3
<1> QED
  BY <1>4 DEF IInv, OpenIds

-----------------------------------------------------------------------------
\* The array, the ids handed out and the answers stay within their types.
THEOREM SpecTypeOK == Spec => []TypeOK
<1>1. IInv => TypeOK
  BY DEF IInv
<1> QED
  BY <1>1, InitIInv, NextIInv, PTL DEF Spec

\* A notice for an id finds the one query it was given to, and only until an answer for
\* it was taken: late and repeated notices of the oracle machine change nothing.
THEOREM SpecAnswersCountOnce == Spec => []AnswersCountOnce
BY InitIInv, NextIInv, IInvImpliesAnswersCountOnce, PTL DEF Spec

-----------------------------------------------------------------------------
(* The walk over a tick's queries: the array may change under it.          *)

Walk == [tick : Ticks \cup {0}, at : Int, seen : SUBSET Places, due : SUBSET Places]

\* Behind the walk is what it has seen; what is due is still scheduled as it was, and is
\* ahead of the walk or was seen.
WalkInv ==
  /\ walk \in Walk
  /\ \A p \in walk.seen : p <= walk.at
  /\ \A p \in walk.due : IsScheduled(p, walk.tick) /\ (p <= walk.at => p \in walk.seen)

\* The next query of a walk is the first one scheduled ahead of it, if there is one.
LEMMA NextScheduled ==
  ASSUME NEW at \in Int, NEW tick,
         NEW next, next = GetNextScheduledQueryIndexForTick(at, tick)
  PROVE  LET ahead == {p \in Places : p > at /\ IsScheduled(p, tick)}
         IN  /\ next < 0 => ahead = {}
             /\ ~ (next < 0) => next \in ahead /\ \A p \in ahead : next <= p
<1> DEFINE ahead == {p \in Places : p > at /\ IsScheduled(p, tick)}
<1>1. next = IF ahead = {} THEN -1 ELSE CHOOSE i \in ahead : \A k \in ahead : i <= k
  <2>1. {p \in {q \in Places : q > at} : IsScheduled(p, tick)} = ahead
    OBVIOUS
  <2> QED
    BY <2>1 DEF GetNextScheduledQueryIndexForTick, First
<1>2. ahead \subseteq Nat
  BY PlacesAreNumbers
<1>3. ahead # {} => \E i \in ahead : \A k \in ahead : i <= k
  BY <1>2, FirstExists
<1>4. ahead # {} => next \in ahead /\ \A k \in ahead : next <= k
  <2> HIDE DEF ahead
  <2> QED
    BY <1>1, <1>3
<1> QED
  BY <1>1, <1>2, <1>4

LEMMA InitWalkInv == Init => WalkInv
BY DEF Init, NoWalk, WalkInv, Walk

LEMMA NextWalkInv == WalkInv /\ [Next]_vars => WalkInv'
<1> SUFFICES ASSUME WalkInv, [Next]_vars PROVE WalkInv'
  OBVIOUS
<1>1. ASSUME NEW tick \in Ticks, StartWalk(tick) PROVE WalkInv'
  <2> DEFINE due == {p \in Places : IsScheduled(p, tick)}
  <2>1. walk' = [tick |-> tick, at |-> -1, seen |-> {}, due |-> due]
    BY <1>1 DEF StartWalk
  <2>2. \A p \in due : ~ (p <= -1) /\ IsScheduled(p, tick)'
    <3>1. \A p \in Places : ~ (p <= -1)
      BY PlacesAreNumbers
    <3>2. \A p \in due : p \in Places /\ IsScheduled(p, tick)
      OBVIOUS
    <3>3. oracleQueries' = oracleQueries
      BY <1>1 DEF StartWalk, queryVars
    <3> HIDE DEF due
    <3> QED
      BY <3>1, <3>2, <3>3 DEF IsScheduled
  <2> HIDE DEF due
  <2>3. due \subseteq Places
    BY DEF due
  <2>4. walk' \in Walk
    BY <2>1, <2>3 DEF Walk
  <2> QED
    BY <2>1, <2>2, <2>4 DEF WalkInv
<1>2. CASE WalkOn
  <2> DEFINE next == GetNextScheduledQueryIndexForTick(walk.at, walk.tick)
  <2>1. CASE next < 0
    BY <1>2, <2>1 DEF WalkOn, WalkInv, Walk, NoWalk
  <2>2. CASE ~ (next < 0)
    <3>1. walk' = [walk EXCEPT !.at = next, !.seen = walk.seen \cup {next}]
      BY <1>2, <2>2 DEF WalkOn, WalkInv, Walk
    <3>2. /\ next \in Places /\ next > walk.at
          /\ \A p \in Places : p > walk.at /\ IsScheduled(p, walk.tick) => next <= p
      <4>1. walk.at \in Int
        BY DEF WalkInv, Walk
      <4> QED
        BY <2>2, <4>1, NextScheduled
    <3> HIDE DEF next
    <3>3. walk' \in Walk /\ walk'.at = next /\ walk'.seen = walk.seen \cup {next}
          /\ walk'.due = walk.due /\ walk'.tick = walk.tick
      <4>1. next \in Int /\ walk.seen \cup {next} \in SUBSET Places /\ walk \in Walk
        BY <3>2, PlacesAreNumbers DEF WalkInv, Walk
      <4> QED
        BY <3>1, <4>1 DEF Walk
    <3>4. \A p \in walk'.seen : p <= next
      BY <3>2, <3>3, PlacesAreNumbers DEF WalkInv, Walk
    <3>5. ASSUME NEW p \in walk.due
          PROVE  IsScheduled(p, walk.tick)' /\ (p <= next => p \in walk'.seen)
      <4>1. IsScheduled(p, walk.tick) /\ p \in Places /\ (p <= walk.at => p \in walk.seen)
            /\ p \in Nat /\ next \in Nat /\ walk.at \in Int
        BY <3>2, PlacesAreNumbers DEF WalkInv, Walk
      <4>2. p <= next => p <= walk.at \/ p = next
        BY <3>2, <4>1
      <4> QED
        BY <1>2, <3>3, <4>1, <4>2 DEF WalkOn, queryVars, IsScheduled
    <3> QED
      BY <3>3, <3>4, <3>5 DEF WalkInv
  <2> QED
    BY <2>1, <2>2
<1>3. CASE QueryCall
  <2>1. walk' = [walk EXCEPT !.due = {p \in walk.due : oracleQueries'[p] = oracleQueries[p]}]
    BY <1>3 DEF QueryCall, WalkInv, Walk
  <2>2. walk' \in Walk /\ walk'.tick = walk.tick /\ walk'.at = walk.at /\ walk'.seen = walk.seen
        /\ walk'.due = {p \in walk.due : oracleQueries'[p] = oracleQueries[p]}
    BY <2>1 DEF WalkInv, Walk
  <2> QED
    BY <2>2 DEF WalkInv, IsScheduled
<1>4. CASE UNCHANGED <<queryVars, walk>>
  BY <1>4 DEF WalkInv, queryVars, IsScheduled
<1> QED
  BY <1>1, <1>2, <1>3, <1>4
     DEF Next, vars, AddTask, SolutionCall, AddSolution, CountSolutionForRevenue

\* Whatever is added, moved or removed while a tick's queries are walked, a walk that ends
\* was at every query that was due all along, and none is handed out twice.
THEOREM SpecWalkIsComplete == Spec => WalkIsComplete
<1>1. WalkInv /\ WalkOn => IF walk'.tick = 0 THEN walk.due \subseteq walk.seen
                           ELSE walk'.at \notin walk.seen
  <2> SUFFICES ASSUME WalkInv, WalkOn
               PROVE  IF walk'.tick = 0 THEN walk.due \subseteq walk.seen
                      ELSE walk'.at \notin walk.seen
    OBVIOUS
  <2> DEFINE next == GetNextScheduledQueryIndexForTick(walk.at, walk.tick)
  <2>1. walk \in Walk /\ walk.at \in Int /\ walk.due \subseteq Places /\ walk.seen \subseteq Places
    BY DEF WalkInv, Walk
  <2>2. CASE next < 0
    <3>1. \A p \in Places : p > walk.at => ~ IsScheduled(p, walk.tick)
      BY <2>1, <2>2, NextScheduled
    <3>2. ASSUME NEW p \in walk.due PROVE p <= walk.at
      <4>1. p \in Places /\ p \in Int
        <5>1. p \in walk.due /\ walk.due \subseteq Places
          BY <2>1
        <5>2. p \in Places
          BY <5>1
        <5> QED
          BY <5>2, PlacesAreNumbers
      <4>2. IsScheduled(p, walk.tick)
        BY DEF WalkInv
      <4>3. ~ (p > walk.at)
        BY <3>1, <4>1, <4>2
      <4> QED
        BY <2>1, <4>1, <4>3
    <3>3. walk'.tick = 0
      BY <2>2 DEF WalkOn, NoWalk
    <3> QED
      BY <3>2, <3>3 DEF WalkInv
  <2>3. CASE ~ (next < 0)
    <3>1. walk' = [walk EXCEPT !.at = next, !.seen = walk.seen \cup {next}] /\ walk.tick # 0
      BY <2>1, <2>3 DEF WalkOn, Walk
    <3>2. next \in Places /\ next > walk.at
      BY <2>1, <2>3, NextScheduled
    <3> HIDE DEF next
    <3>3. walk'.tick # 0 /\ walk'.at = next
      BY <2>1, <3>1 DEF Walk
    <3>4. next \notin walk.seen
      BY <2>1, <3>2, PlacesAreNumbers DEF WalkInv
    <3> QED
      BY <3>3, <3>4
  <2> QED
    BY <2>2, <2>3
<1> QED
  BY <1>1, InitWalkInv, NextWalkInv, PTL DEF Spec, WalkIsComplete

-----------------------------------------------------------------------------
(* The ring of tasks as a queue of the newest ones.                        *)

\* A sum below twice the modulus, reduced.
LEMMA Wrapped ==
  ASSUME NEW m \in Nat \ {0}, NEW k \in 0..(2 * m - 1)
  PROVE  k % m = IF k < m THEN k ELSE k - m
<1>1. k \div m \in Nat /\ k % m \in 0..(m - 1) /\ k = (k \div m) * m + (k % m)
  OBVIOUS
<1> DEFINE q == k \div m  r == k % m
<1>2. q \in Nat /\ r \in 0..(m - 1) /\ k = q * m + r
  BY <1>1
<1> HIDE DEF q, r
<1>3. q = 0 \/ q = 1
  <2>1. CASE q >= 2
    <3>1. q * m >= 2 * m
      BY <1>2, <2>1
    <3> QED
      BY <1>2, <3>1
  <2> QED
    BY <1>2, <2>1
<1>4. r = IF k < m THEN k ELSE k - m
  BY <1>2, <1>3
<1> QED
  BY <1>4 DEF r

\* A task is in one place at most, and the places are taken in order: those not taken
\* yet, if any, are the next one and all behind it.
RingInv ==
  /\ activeTasks \in [Slots -> Jobs \cup {0}] /\ nextTaskIndex \in Slots
  /\ receivedSolutions \in [Slots -> SUBSET Solutions]
  /\ countedRevSolutions \in [Slots -> SUBSET Solutions]
  /\ \A s, u \in Slots : activeTasks[s] = activeTasks[u] /\ activeTasks[s] # 0 => s = u
  /\ \/ \A s \in Slots : activeTasks[s] # 0
     \/ \A s \in Slots : activeTasks[s] = 0 <=> s >= nextTaskIndex

LEMMA InitRingInv == Init => RingInv
<1>1. 0 \in Slots /\ \A s \in Slots : s >= 0
  BY StorageAssumption DEF Slots
<1> QED
  BY <1>1 DEF Init, RingInv

\* Finding a task finds the only place it is in.
LEMMA FoundTask ==
  ASSUME RingInv, NEW job \in Jobs
  PROVE  /\ _findTask(job) >= 0 => _findTask(job) \in Slots /\ activeTasks[_findTask(job)] = job
         /\ ~ (_findTask(job) >= 0) => \A s \in Slots : activeTasks[s] # job
         /\ \A s \in Slots : activeTasks[s] = job => _findTask(job) = s
         /\ (\A s \in Slots : activeTasks[s] # job) => _findTask(job) < 0
<1> DEFINE hits == {s \in Slots : activeTasks[s] = job}
<1>1. _findTask(job) = IF hits = {} THEN -1 ELSE CHOOSE i \in hits : \A k \in hits : i <= k
  BY DEF _findTask, First
<1>2. Slots \subseteq Nat
  BY StorageAssumption DEF Slots
<1>3. hits # {} => \E i \in hits : \A k \in hits : i <= k
  BY <1>2, FirstExists
<1>4. hits # {} => _findTask(job) \in hits
  BY <1>1, <1>3
<1>5. \A s, u \in hits : s = u
  BY StorageAssumption DEF RingInv
<1>6. hits # {} => _findTask(job) >= 0
  <2>1. hits # {} => _findTask(job) \in Nat
    BY <1>2, <1>4
  <2> QED
    BY <2>1
<1>7. hits = {} => _findTask(job) = -1
  BY <1>1
<1> QED
  BY <1>4, <1>5, <1>6, <1>7

\* Where the i-th task of a full ring is.
PlaceAt(n, i) == IF n + i - 1 < MaxNumTasks THEN n + i - 1 ELSE n + i - 1 - MaxNumTasks

LEMMA PlaceInRing ==
  ASSUME NEW n \in Slots, NEW i \in 1..MaxNumTasks
  PROVE  (n + i - 1) % MaxNumTasks = PlaceAt(n, i) /\ PlaceAt(n, i) \in Slots
<1> DEFINE k == n + i - 1
<1>1. MaxNumTasks \in Nat \ {0} /\ k \in 0..(2 * MaxNumTasks - 1)
  BY StorageAssumption DEF Slots
<1>2. PlaceAt(n, i) = IF k < MaxNumTasks THEN k ELSE k - MaxNumTasks
  <2>1. n \in Int /\ i \in Int /\ MaxNumTasks \in Int
    BY <1>1 DEF Slots
  <2> QED
    BY <2>1 DEF PlaceAt
<1>3. PlaceAt(n, i) \in Slots
  <2>1. n \in Int /\ i \in Int /\ 0 <= n /\ n < MaxNumTasks /\ 1 <= i /\ i <= MaxNumTasks
    BY <1>1 DEF Slots
  <2>2. PlaceAt(n, i) \in 0..(MaxNumTasks - 1)
    BY <1>1, <2>1 DEF PlaceAt
  <2> QED
    BY <2>2 DEF Slots
<1> HIDE DEF k
<1>4. k % MaxNumTasks = PlaceAt(n, i)
  BY <1>1, <1>2, Wrapped
<1> QED
  BY <1>3, <1>4 DEF k

\* The ring before and after it is full.
LEMMA RingIs ==
  ASSUME RingInv
  PROVE  /\ activeTasks[nextTaskIndex] = 0 =>
              /\ Ring = [i \in 1..nextTaskIndex |-> activeTasks[i - 1]]
              /\ \A s \in Slots : activeTasks[s] = 0 <=> s >= nextTaskIndex
         /\ activeTasks[nextTaskIndex] # 0 =>
              /\ Ring = [i \in 1..MaxNumTasks |-> activeTasks[PlaceAt(nextTaskIndex, i)]]
              /\ \A s \in Slots : activeTasks[s] # 0
<1>1. [i \in 1..MaxNumTasks |-> activeTasks[(nextTaskIndex + i - 1) % MaxNumTasks]]
      = [i \in 1..MaxNumTasks |-> activeTasks[PlaceAt(nextTaskIndex, i)]]
  BY PlaceInRing DEF RingInv
<1>2. nextTaskIndex >= nextTaskIndex
  BY StorageAssumption DEF RingInv, Slots
<1> QED
  BY <1>1, <1>2 DEF Ring, RingInv

\* The ring holds the tasks that are found, and no others.
RingOfTasks ==
  /\ Ring \in Seq(Jobs)
  /\ \A job \in Jobs : job \in ToSet(Ring) <=> \E s \in Slots : activeTasks[s] = job

LEMMA RingHolds == RingInv => RingOfTasks
<1> SUFFICES ASSUME RingInv
             PROVE  /\ Ring \in Seq(Jobs)
                    /\ \A job \in Jobs :
                         job \in ToSet(Ring) <=> \E s \in Slots : activeTasks[s] = job
  BY DEF RingOfTasks
<1> USE StorageAssumption
<1>1. CASE activeTasks[nextTaskIndex] = 0
  <2>1. Ring = [i \in 1..nextTaskIndex |-> activeTasks[i - 1]] /\ nextTaskIndex \in Nat
        /\ \A i \in 1..nextTaskIndex : i - 1 \in Slots /\ activeTasks[i - 1] # 0
    BY <1>1, RingIs DEF RingInv, Slots
  <2>2. \A i \in 1..nextTaskIndex : activeTasks[i - 1] \in Jobs
    BY <2>1 DEF RingInv
  <2>3. ASSUME NEW s \in Slots, activeTasks[s] # 0
        PROVE  s + 1 \in 1..nextTaskIndex /\ Ring[s + 1] = activeTasks[s]
    <3>1. s < nextTaskIndex
      BY <1>1, <2>3, RingIs DEF RingInv, Slots
    <3> QED
      BY <2>1, <3>1 DEF Slots
  <2>4. Ring \in Seq(Jobs) /\ DOMAIN Ring = 1..nextTaskIndex
    BY <2>1, <2>2
  <2> QED
    BY <2>1, <2>3, <2>4 DEF ToSet
<1>2. CASE activeTasks[nextTaskIndex] # 0
  <2>1. /\ Ring = [i \in 1..MaxNumTasks |-> activeTasks[PlaceAt(nextTaskIndex, i)]]
        /\ nextTaskIndex \in Slots /\ MaxNumTasks \in Nat
        /\ \A i \in 1..MaxNumTasks : /\ PlaceAt(nextTaskIndex, i) \in Slots
                                     /\ activeTasks[PlaceAt(nextTaskIndex, i)] # 0
    BY <1>2, RingIs, PlaceInRing DEF RingInv
  <2>2. \A i \in 1..MaxNumTasks : activeTasks[PlaceAt(nextTaskIndex, i)] \in Jobs
    BY <2>1 DEF RingInv
  <2>3. ASSUME NEW s \in Slots
        PROVE  \E i \in 1..MaxNumTasks : PlaceAt(nextTaskIndex, i) = s
    <3> DEFINE i == IF s >= nextTaskIndex THEN s - nextTaskIndex + 1
                    ELSE s - nextTaskIndex + 1 + MaxNumTasks
    <3>1. i \in 1..MaxNumTasks /\ PlaceAt(nextTaskIndex, i) = s
      BY <2>1 DEF PlaceAt, Slots
    <3> QED
      BY <3>1
  <2>4. Ring \in Seq(Jobs) /\ DOMAIN Ring = 1..MaxNumTasks
    BY <2>1, <2>2
  <2> QED
    BY <2>1, <2>3, <2>4 DEF ToSet
<1> QED
  BY <1>1, <1>2

\* The accounts of the found tasks.
AccountsOfTasks ==
  \A job \in Jobs :
    /\ \A s \in Slots : activeTasks[s] = job =>
         /\ OfJob(receivedSolutions)[job] = receivedSolutions[s]
         /\ OfJob(countedRevSolutions)[job] = countedRevSolutions[s]
    /\ (\A s \in Slots : activeTasks[s] # job) =>
         OfJob(receivedSolutions)[job] = {} /\ OfJob(countedRevSolutions)[job] = {}

LEMMA AccountOf == RingInv => AccountsOfTasks
<1> SUFFICES ASSUME RingInv, NEW job \in Jobs
             PROVE  /\ \A s \in Slots : activeTasks[s] = job =>
                         /\ OfJob(receivedSolutions)[job] = receivedSolutions[s]
                         /\ OfJob(countedRevSolutions)[job] = countedRevSolutions[s]
                    /\ (\A s \in Slots : activeTasks[s] # job) =>
                         /\ OfJob(receivedSolutions)[job] = {}
                         /\ OfJob(countedRevSolutions)[job] = {}
  BY DEF AccountsOfTasks
<1>1. \A s \in Slots : ~ (s < 0)
  BY StorageAssumption DEF Slots
<1> QED
  BY <1>1, FoundTask DEF OfJob

\* Both hold of the state after a step as well.
LEMMA NextRing == RingInv' => RingOfTasks' /\ AccountsOfTasks'
BY RingHolds, AccountOf, PTL

\* A new task takes the next place; in the ledger it joins the queue, which the oldest
\* leaves if every place was taken.
LEMMA AddTaskTakesPlace ==
  ASSUME RingInv, NEW msg \in Messages, AddTask(msg)
  PROVE  /\ RingInv'
         /\ msg.jobId \in Jobs /\ \A s \in Slots : activeTasks[s] # msg.jobId
         /\ nextTaskIndex' = IF nextTaskIndex + 1 < MaxNumTasks THEN nextTaskIndex + 1 ELSE 0
<1> DEFINE job == msg.jobId
           n == nextTaskIndex
<1>1. job \in Jobs /\ job # 0 /\ n \in Slots /\ 0 \in Slots /\ MaxNumTasks \in Nat \ {0}
  BY StorageAssumption DEF Jobs, RingInv, Slots
<1>2. \A s \in Slots : activeTasks[s] # job
  <2>1. _findTask(job) < 0
    BY DEF AddTask, Acceptable
  <2>2. ASSUME NEW s \in Slots, activeTasks[s] = job PROVE FALSE
    <3>1. _findTask(job) = s /\ ~ (s < 0)
      BY <1>1, <2>2, FoundTask DEF Slots
    <3> QED
      BY <2>1, <3>1
  <2> QED
    BY <2>2
<1>3. n' = IF n + 1 < MaxNumTasks THEN n + 1 ELSE 0
  <2> DEFINE k == n + 1
  <2>1. k \in 0..(2 * MaxNumTasks - 1) /\ (~ (k < MaxNumTasks) => k - MaxNumTasks = 0)
    BY <1>1 DEF Slots
  <2>2. n' = k % MaxNumTasks
    BY DEF AddTask
  <2> HIDE DEF k
  <2>3. k % MaxNumTasks = IF k < MaxNumTasks THEN k ELSE k - MaxNumTasks
    BY <1>1, <2>1, Wrapped
  <2> QED
    BY <2>1, <2>2, <2>3 DEF k
<1>4. /\ activeTasks' = [activeTasks EXCEPT ![n] = job]
      /\ receivedSolutions' = [receivedSolutions EXCEPT ![n] = {}]
      /\ countedRevSolutions' = [countedRevSolutions EXCEPT ![n] = {}]
  BY DEF AddTask
<1>5. n' \in Slots
  BY <1>1, <1>3 DEF Slots
<1> HIDE DEF job
<1>6. /\ activeTasks' \in [Slots -> Jobs \cup {0}]
      /\ receivedSolutions' \in [Slots -> SUBSET Solutions]
      /\ countedRevSolutions' \in [Slots -> SUBSET Solutions]
      /\ \A s \in Slots : activeTasks'[s] = IF s = n THEN job ELSE activeTasks[s]
  BY <1>1, <1>4 DEF RingInv
<1>7. \A s, u \in Slots : activeTasks'[s] = activeTasks'[u] /\ activeTasks'[s] # 0 => s = u
  BY <1>1, <1>2, <1>6 DEF RingInv
<1>8. \/ \A s \in Slots : activeTasks'[s] # 0
      \/ \A s \in Slots : activeTasks'[s] = 0 <=> s >= n'
  <2>1. CASE \A s \in Slots : activeTasks[s] # 0
    BY <1>1, <1>6, <2>1
  <2>2. CASE \A s \in Slots : activeTasks[s] = 0 <=> s >= n
    <3>1. \A s \in Slots : activeTasks'[s] = 0 <=> s >= n + 1
      BY <1>1, <1>6, <2>2 DEF Slots
    <3>2. ~ (n + 1 < MaxNumTasks) => \A s \in Slots : ~ (s >= n + 1)
      BY <1>1 DEF Slots
    <3> QED
      BY <1>3, <3>1, <3>2
  <2> QED
    BY <2>1, <2>2 DEF RingInv
<1>9. RingInv'
  BY <1>5, <1>6, <1>7, <1>8 DEF RingInv
<1> QED
  BY <1>1, <1>2, <1>3, <1>9 DEF job

LEMMA Appended ==
  ASSUME NEW S, NEW q \in Seq(S), NEW e \in S
  PROVE  Append(q, e) = [i \in 1..(Len(q) + 1) |-> IF i <= Len(q) THEN q[i] ELSE e]
<1> DEFINE r == Append(q, e)
<1>1. /\ r \in Seq(S) /\ Len(r) = Len(q) + 1 /\ r[Len(q) + 1] = e
      /\ \A i \in 1..Len(q) : r[i] = q[i]
  BY AppendProperties
<1>2. Len(q) \in Nat
  OBVIOUS
<1> HIDE DEF r
<1>3. r = [i \in 1..(Len(q) + 1) |-> r[i]]
  BY <1>1
<1>4. \A i \in 1..(Len(q) + 1) : r[i] = IF i <= Len(q) THEN q[i] ELSE e
  BY <1>1, <1>2
<1> QED
  BY <1>3, <1>4 DEF r

LEMMA RingGrows ==
  ASSUME RingInv, NEW msg \in Messages, AddTask(msg)
  PROVE  Ring' = Append(IF Len(Ring) = MaxNumTasks THEN Tail(Ring) ELSE Ring, msg.jobId)
<1> DEFINE job == msg.jobId
           n == nextTaskIndex
           m == MaxNumTasks
<1>1. /\ n \in Slots /\ n' \in Slots /\ m \in Nat \ {0} /\ job \in Jobs /\ job # 0
      /\ n' = IF n + 1 < m THEN n + 1 ELSE 0
      /\ Ring \in Seq(Jobs)
  BY AddTaskTakesPlace, RingHolds, StorageAssumption DEF RingInv, RingOfTasks
<1>2. \A s \in Slots : activeTasks'[s] = IF s = n THEN job ELSE activeTasks[s]
  BY <1>1 DEF AddTask, RingInv
<1>3. Ring' = IF activeTasks'[n'] = 0
              THEN [i \in 1..n' |-> activeTasks'[i - 1]]
              ELSE [i \in 1..m |-> activeTasks'[PlaceAt(n', i)]]
  <2>1. [i \in 1..m |-> activeTasks'[(n' + i - 1) % m]]
        = [i \in 1..m |-> activeTasks'[PlaceAt(n', i)]]
    BY <1>1, PlaceInRing
  <2> QED
    BY <2>1 DEF Ring
<1> HIDE DEF job
<1>4. CASE activeTasks[n] = 0
  <2>1. /\ Ring = [i \in 1..n |-> activeTasks[i - 1]]
        /\ \A s \in Slots : activeTasks[s] = 0 <=> s >= n
    BY <1>4, RingIs
  <2>2. n \in Nat /\ n < m
    BY <1>1 DEF Slots
  <2>3. Len(Ring) = n
    BY <2>1, <2>2
  <2>4. Append(Ring, job) = [i \in 1..(n + 1) |-> IF i <= n THEN activeTasks[i - 1] ELSE job]
    BY <1>1, <2>1, <2>2, <2>3
  <2>5. CASE n + 1 < m
    <3>1. n' = n + 1 /\ activeTasks'[n'] = 0
      BY <1>1, <1>2, <2>1, <2>5 DEF Slots
    <3>2. \A i \in 1..(n + 1) : activeTasks'[i - 1] = IF i <= n THEN activeTasks[i - 1] ELSE job
      BY <1>1, <1>2, <2>5 DEF Slots
    <3>3. Ring' = [i \in 1..(n + 1) |-> activeTasks'[i - 1]]
      BY <1>3, <3>1
    <3>4. Ring' = Append(Ring, job)
      BY <2>4, <3>2, <3>3
    <3>5. Len(Ring) # MaxNumTasks
      BY <2>2, <2>3
    <3> QED
      BY <3>4, <3>5 DEF job
  <2>6. CASE ~ (n + 1 < m)
    <3>1. n' = 0 /\ n + 1 = m /\ 0 \in Slots
      BY <1>1, <2>6 DEF Slots
    <3>2. activeTasks'[0] # 0
      <4>1. n # 0 => activeTasks[0] # 0
        BY <2>1, <2>2, <3>1
      <4> QED
        BY <1>1, <1>2, <3>1, <4>1
    <3>3. \A i \in 1..m : PlaceAt(0, i) = i - 1
      BY <1>1 DEF PlaceAt
    <3>4. \A i \in 1..m : activeTasks'[i - 1] = IF i <= n THEN activeTasks[i - 1] ELSE job
      BY <1>1, <1>2, <3>1 DEF Slots
    <3>5. Ring' = [i \in 1..m |-> activeTasks'[i - 1]]
      BY <1>3, <3>1, <3>2, <3>3
    <3>6. Append(Ring, job) = [i \in 1..m |-> IF i <= n THEN activeTasks[i - 1] ELSE job]
      BY <2>4, <3>1
    <3>7. Ring' = Append(Ring, job)
      BY <3>4, <3>5, <3>6
    <3>8. Len(Ring) # MaxNumTasks
      BY <2>2, <2>3
    <3> QED
      BY <3>7, <3>8 DEF job
  <2> QED
    BY <2>5, <2>6
<1>5. CASE activeTasks[n] # 0
  <2>1. /\ Ring = [i \in 1..m |-> activeTasks[PlaceAt(n, i)]]
        /\ \A s \in Slots : activeTasks[s] # 0
    BY <1>5, RingIs
  <2>2. Len(Ring) = m
    BY <1>1, <2>1
  <2>3. Append(Tail(Ring), job)
        = [i \in 1..m |-> IF i < m THEN activeTasks[PlaceAt(n, i + 1)] ELSE job]
    <3> DEFINE q == Tail(Ring)
    <3>1. q \in Seq(Jobs) /\ Len(q) = m - 1 /\ \A i \in 1..Len(q) : q[i] = Ring[i + 1]
      <4>1. Ring # <<>>
        BY <1>1, <2>2
      <4> QED
        BY <1>1, <2>2, <4>1, HeadTailProperties
    <3> HIDE DEF q
    <3>2. \A i \in 1..m : i < m => q[i] = activeTasks[PlaceAt(n, i + 1)]
      <4>1. ASSUME NEW i \in 1..m, i < m PROVE q[i] = activeTasks[PlaceAt(n, i + 1)]
        <5>1. i \in 1..Len(q) /\ i + 1 \in 1..m
          BY <1>1, <3>1, <4>1
        <5>2. Ring[i + 1] = activeTasks[PlaceAt(n, i + 1)]
          BY <2>1, <5>1
        <5> QED
          BY <3>1, <5>1, <5>2
      <4> QED
        BY <4>1
    <3>3. Append(q, job) = [i \in 1..m |-> IF i < m THEN q[i] ELSE job]
      <4>1. Append(q, job) = [i \in 1..(Len(q) + 1) |-> IF i <= Len(q) THEN q[i] ELSE job]
        <5>1. q \in Seq(Jobs) /\ job \in Jobs
          BY <1>1, <3>1
        <5> QED
          BY <5>1, Appended
      <4>2. Len(q) + 1 = m /\ \A i \in 1..m : i <= Len(q) <=> i < m
        BY <1>1, <3>1
      <4> QED
        BY <4>1, <4>2
    <3> QED
      BY <3>2, <3>3 DEF q
  <2>4. activeTasks'[n'] # 0
    BY <1>1, <1>2, <2>1
  <2>5. \A i \in 1..m : activeTasks'[PlaceAt(n', i)]
                        = IF i < m THEN activeTasks[PlaceAt(n, i + 1)] ELSE job
    <3>1. ASSUME NEW i \in 1..m
          PROVE  /\ PlaceAt(n', i) \in Slots
                 /\ i < m => PlaceAt(n', i) = PlaceAt(n, i + 1) /\ PlaceAt(n', i) # n
                 /\ ~ (i < m) => PlaceAt(n', i) = n
      BY <1>1 DEF PlaceAt, Slots
    <3> QED
      BY <1>2, <3>1
  <2> QED
    BY <1>3, <2>2, <2>3, <2>4, <2>5 DEF job
<1> QED
  BY <1>4, <1>5

\* With its place the new task takes two empty accounts; those of the other tasks in the
\* queue stay as they were.
LEMMA AddTaskOfLedger ==
  ASSUME RingInv, NEW msg \in Messages, AddTask(msg)
  PROVE  Ledger!AddTask(msg.jobId)
<1> DEFINE job == msg.jobId
           n == nextTaskIndex
<1>1. /\ RingInv' /\ job \in Jobs /\ n \in Slots /\ job # 0
      /\ \A s \in Slots : activeTasks[s] # job
  BY AddTaskTakesPlace, StorageAssumption DEF RingInv
<1>2. /\ activeTasks' = [activeTasks EXCEPT ![n] = job]
      /\ receivedSolutions' = [receivedSolutions EXCEPT ![n] = {}]
      /\ countedRevSolutions' = [countedRevSolutions EXCEPT ![n] = {}]
  BY DEF AddTask
<1>3. \A s \in Slots :
        /\ activeTasks'[s] = IF s = n THEN job ELSE activeTasks[s]
        /\ receivedSolutions'[s] = IF s = n THEN {} ELSE receivedSolutions[s]
        /\ countedRevSolutions'[s] = IF s = n THEN {} ELSE countedRevSolutions[s]
  BY <1>1, <1>2 DEF RingInv
<1>4. job \notin ToSet(Ring)
  BY <1>1, RingHolds DEF RingOfTasks
<1>5. Ring' = Append(IF Len(Ring) = MaxNumTasks THEN Tail(Ring) ELSE Ring, job)
  BY RingGrows
<1> HIDE DEF job
<1>6. \A j \in Jobs : j \in ToSet(Ring') <=> \E s \in Slots : activeTasks'[s] = j
  BY <1>1, NextRing DEF RingOfTasks
<1>7. \A j \in Jobs :
        /\ \A s \in Slots : activeTasks[s] = j =>
             /\ OfJob(receivedSolutions)[j] = receivedSolutions[s]
             /\ OfJob(countedRevSolutions)[j] = countedRevSolutions[s]
        /\ (\A s \in Slots : activeTasks[s] # j) =>
             OfJob(receivedSolutions)[j] = {} /\ OfJob(countedRevSolutions)[j] = {}
  BY AccountOf DEF AccountsOfTasks
<1>8. \A j \in Jobs :
        /\ \A s \in Slots : activeTasks'[s] = j =>
             /\ OfJob(receivedSolutions)'[j] = receivedSolutions'[s]
             /\ OfJob(countedRevSolutions)'[j] = countedRevSolutions'[s]
        /\ (\A s \in Slots : activeTasks'[s] # j) =>
             OfJob(receivedSolutions)'[j] = {} /\ OfJob(countedRevSolutions)'[j] = {}
  BY <1>1, NextRing DEF AccountsOfTasks
<1>9. ASSUME NEW j \in Jobs
      PROVE  /\ OfJob(receivedSolutions)'[j] =
                  IF j \in ToSet(Ring') \ {job} THEN OfJob(receivedSolutions)[j] ELSE {}
             /\ OfJob(countedRevSolutions)'[j] =
                  IF j \in ToSet(Ring') \ {job} THEN OfJob(countedRevSolutions)[j] ELSE {}
  <2>1. CASE j = job
    <3>1. activeTasks'[n] = j /\ receivedSolutions'[n] = {} /\ countedRevSolutions'[n] = {}
      BY <1>1, <1>3, <2>1
    <3> QED
      BY <1>1, <1>8, <2>1, <3>1
  <2>2. CASE j # job /\ j \in ToSet(Ring')
    <3>1. PICK s \in Slots : activeTasks'[s] = j
      BY <1>6, <2>2
    <3>2. s # n /\ activeTasks[s] = j
      BY <1>3, <2>2, <3>1
    <3>3. OfJob(receivedSolutions)'[j] = receivedSolutions[s]
          /\ OfJob(countedRevSolutions)'[j] = countedRevSolutions[s]
      BY <1>3, <1>8, <3>1, <3>2
    <3> QED
      BY <1>7, <2>2, <3>2, <3>3
  <2>3. CASE j \notin ToSet(Ring')
    <3>1. \A s \in Slots : activeTasks'[s] # j
      BY <1>6, <2>3
    <3> QED
      BY <1>8, <2>3, <3>1
  <2> QED
    BY <2>1, <2>2, <2>3
<1>10. /\ OfJob(receivedSolutions)' =
            [j \in Jobs |-> IF j \in ToSet(Ring') \ {job} THEN OfJob(receivedSolutions)[j] ELSE {}]
       /\ OfJob(countedRevSolutions)' =
            [j \in Jobs |-> IF j \in ToSet(Ring') \ {job} THEN OfJob(countedRevSolutions)[j]
                            ELSE {}]
  <2>1. /\ OfJob(receivedSolutions)' = [j \in Jobs |-> OfJob(receivedSolutions)'[j]]
        /\ OfJob(countedRevSolutions)' = [j \in Jobs |-> OfJob(countedRevSolutions)'[j]]
    BY DEF OfJob
  <2> QED
    BY <1>9, <2>1
<1> QED
  BY <1>4, <1>5, <1>10 DEF Ledger!AddTask, Ledger!ToSet, ToSet, job

\* The ledger counts sets like the storage.
LEMMA SameCardinality == \A S : Ledger!Cardinality(S) = Cardinality(S)
BY DEF Ledger!Cardinality, Cardinality

\* A solution enters the account of the place its task is in, if there is room.
LEMMA AddSolutionOfLedger ==
  ASSUME RingInv, NEW job \in Jobs, NEW solution \in Solutions, AddSolution(job, solution)
  PROVE  RingInv' /\ (Ledger!Receive(job, solution) \/ UNCHANGED Ledger!ledger)
<1> DEFINE s == _findTask(job)
           sets == receivedSolutions
<1>1. /\ s \in Slots /\ activeTasks[s] = job
      /\ solution \notin sets[s]
      /\ sets' = [sets EXCEPT ![s] = Added(sets[s], solution)]
      /\ UNCHANGED <<activeTasks, nextTaskIndex, countedRevSolutions>>
  BY FoundTask DEF AddSolution, RingInv
<1> HIDE DEF s
<1>2. /\ sets' \in [Slots -> SUBSET Solutions] /\ sets \in [Slots -> SUBSET Solutions]
      /\ Cardinality(sets[s]) < MaxNumSolutionsPerTask =>
           \A u \in Slots : sets'[u] = IF u = s THEN sets[s] \cup {solution} ELSE sets[u]
      /\ ~ (Cardinality(sets[s]) < MaxNumSolutionsPerTask) => sets' = sets
  <2>1. sets \in [Slots -> SUBSET Solutions]
    BY DEF RingInv
  <2> QED
    BY <1>1, <2>1 DEF Added
<1>3. RingInv'
  BY <1>1, <1>2 DEF RingInv
<1>4. UNCHANGED <<Ring, OfJob(countedRevSolutions)>>
  BY <1>1 DEF Ring, OfJob, _findTask, First
<1>5. CASE Cardinality(sets[s]) < MaxNumSolutionsPerTask
  <2>1. OfJob(sets)[job] = sets[s] /\ job \in ToSet(Ring)
    BY <1>1, AccountOf, RingHolds DEF AccountsOfTasks, RingOfTasks
  <2>2. OfJob(sets)' = [OfJob(sets) EXCEPT ![job] = OfJob(sets)[job] \cup {solution}]
    <3>1. ASSUME NEW j \in Jobs
          PROVE  OfJob(sets)'[j] = IF j = job THEN OfJob(sets)[job] \cup {solution}
                                   ELSE OfJob(sets)[j]
      <4>1. _findTask(j)' = _findTask(j)
        BY <1>1 DEF _findTask, First
      <4>2. /\ OfJob(sets)'[j] = IF _findTask(j) < 0 THEN {} ELSE sets'[_findTask(j)]
            /\ OfJob(sets)[j] = IF _findTask(j) < 0 THEN {} ELSE sets[_findTask(j)]
        BY <4>1 DEF OfJob
      <4>3. _findTask(j) < 0 \/ (_findTask(j) \in Slots /\ activeTasks[_findTask(j)] = j)
        BY FoundTask
      <4>4. s = _findTask(job) /\ ~ (s < 0)
        BY <1>1, StorageAssumption DEF s, Slots
      <4> QED
        BY <1>1, <1>2, <1>5, <2>1, <4>2, <4>3, <4>4
    <3>2. OfJob(sets) = [j \in Jobs |-> OfJob(sets)[j]]
          /\ OfJob(sets)' = [j \in Jobs |-> OfJob(sets)'[j]]
      BY DEF OfJob
    <3> QED
      BY <3>1, <3>2
  <2> QED
    BY <1>1, <1>3, <1>4, <1>5, <2>1, <2>2, SameCardinality
       DEF Ledger!Receive, Ledger!Enters, Ledger!ToSet, ToSet
<1>6. CASE ~ (Cardinality(sets[s]) < MaxNumSolutionsPerTask)
  <2>1. sets' = sets
    BY <1>2, <1>6
  <2>2. UNCHANGED OfJob(sets)
    <3>1. UNCHANGED activeTasks
      BY <1>1
    <3> QED
      BY <2>1, <3>1 DEF OfJob, _findTask, First
  <2> QED
    BY <1>3, <1>4, <2>2 DEF Ledger!ledger
<1> QED
  BY <1>3, <1>5, <1>6

LEMMA CountSolutionOfLedger ==
  ASSUME RingInv, NEW job \in Jobs, NEW solution \in Solutions, CountSolutionForRevenue(job, solution)
  PROVE  RingInv' /\ (Ledger!Count(job, solution) \/ UNCHANGED Ledger!ledger)
<1> DEFINE s == _findTask(job)
           sets == countedRevSolutions
<1>1. /\ s \in Slots /\ activeTasks[s] = job
      /\ solution \notin sets[s]
      /\ sets' = [sets EXCEPT ![s] = Added(sets[s], solution)]
      /\ UNCHANGED <<activeTasks, nextTaskIndex, receivedSolutions>>
  BY FoundTask DEF CountSolutionForRevenue, RingInv
<1> HIDE DEF s
<1>2. /\ sets' \in [Slots -> SUBSET Solutions] /\ sets \in [Slots -> SUBSET Solutions]
      /\ Cardinality(sets[s]) < MaxNumSolutionsPerTask =>
           \A u \in Slots : sets'[u] = IF u = s THEN sets[s] \cup {solution} ELSE sets[u]
      /\ ~ (Cardinality(sets[s]) < MaxNumSolutionsPerTask) => sets' = sets
  <2>1. sets \in [Slots -> SUBSET Solutions]
    BY DEF RingInv
  <2> QED
    BY <1>1, <2>1 DEF Added
<1>3. RingInv'
  BY <1>1, <1>2 DEF RingInv
<1>4. UNCHANGED <<Ring, OfJob(receivedSolutions)>>
  BY <1>1 DEF Ring, OfJob, _findTask, First
<1>5. CASE Cardinality(sets[s]) < MaxNumSolutionsPerTask
  <2>1. OfJob(sets)[job] = sets[s] /\ job \in ToSet(Ring)
    BY <1>1, AccountOf, RingHolds DEF AccountsOfTasks, RingOfTasks
  <2>2. OfJob(sets)' = [OfJob(sets) EXCEPT ![job] = OfJob(sets)[job] \cup {solution}]
    <3>1. ASSUME NEW j \in Jobs
          PROVE  OfJob(sets)'[j] = IF j = job THEN OfJob(sets)[job] \cup {solution}
                                   ELSE OfJob(sets)[j]
      <4>1. _findTask(j)' = _findTask(j)
        BY <1>1 DEF _findTask, First
      <4>2. /\ OfJob(sets)'[j] = IF _findTask(j) < 0 THEN {} ELSE sets'[_findTask(j)]
            /\ OfJob(sets)[j] = IF _findTask(j) < 0 THEN {} ELSE sets[_findTask(j)]
        BY <4>1 DEF OfJob
      <4>3. _findTask(j) < 0 \/ (_findTask(j) \in Slots /\ activeTasks[_findTask(j)] = j)
        BY FoundTask
      <4>4. s = _findTask(job) /\ ~ (s < 0)
        BY <1>1, StorageAssumption DEF s, Slots
      <4> QED
        BY <1>1, <1>2, <1>5, <2>1, <4>2, <4>3, <4>4
    <3>2. OfJob(sets) = [j \in Jobs |-> OfJob(sets)[j]]
          /\ OfJob(sets)' = [j \in Jobs |-> OfJob(sets)'[j]]
      BY DEF OfJob
    <3> QED
      BY <3>1, <3>2
  <2> QED
    BY <1>1, <1>3, <1>4, <1>5, <2>1, <2>2, SameCardinality
       DEF Ledger!Count, Ledger!Enters, Ledger!ToSet, ToSet
<1>6. CASE ~ (Cardinality(sets[s]) < MaxNumSolutionsPerTask)
  <2>1. sets' = sets
    BY <1>2, <1>6
  <2>2. UNCHANGED OfJob(sets)
    <3>1. UNCHANGED activeTasks
      BY <1>1
    <3> QED
      BY <2>1, <3>1 DEF OfJob, _findTask, First
  <2> QED
    BY <1>3, <1>4, <2>2 DEF Ledger!ledger
<1> QED
  BY <1>3, <1>5, <1>6

LEMMA NextOfLedger ==
  RingInv /\ [Next]_vars => RingInv' /\ [Ledger!Next]_(Ledger!ledger)
<1> SUFFICES ASSUME RingInv, [Next]_vars PROVE RingInv' /\ [Ledger!Next]_(Ledger!ledger)
  OBVIOUS
<1>1. ASSUME NEW msg \in Messages, AddTask(msg)
      PROVE  RingInv' /\ [Ledger!Next]_(Ledger!ledger)
  BY <1>1, AddTaskTakesPlace, AddTaskOfLedger DEF Ledger!Next
<1>2. CASE SolutionCall
  BY <1>2, AddSolutionOfLedger, CountSolutionOfLedger DEF SolutionCall, Ledger!Next
<1>3. CASE UNCHANGED taskVars
  <2>1. RingInv'
    BY <1>3 DEF taskVars, RingInv
  <2>2. UNCHANGED <<Ring, OfJob(receivedSolutions), OfJob(countedRevSolutions)>>
    BY <1>3 DEF taskVars, Ring, OfJob, _findTask, First
  <2> QED
    BY <2>1, <2>2 DEF Ledger!ledger
<1> QED
  BY <1>1, <1>2, <1>3 DEF Next, vars, QueryCall, WalkOn, StartWalk

LEMMA InitOfLedger == Init => Ledger!Init
<1> SUFFICES ASSUME Init PROVE Ledger!Init
  OBVIOUS
<1>1. \A s \in Slots : activeTasks[s] = 0
  BY DEF Init
<1>2. nextTaskIndex = 0 /\ 0 \in Slots
  BY StorageAssumption DEF Init, Slots
<1>3. Ring = <<>>
  BY <1>1, <1>2 DEF Ring
<1>4. \A j \in Jobs : _findTask(j) = -1
  BY <1>1, StorageAssumption DEF _findTask, First
<1> QED
  BY <1>3, <1>4 DEF Ledger!Init, OfJob

\* For every number of places and solutions, the ring with its two sets per place is the
\* ledger of the newest tasks: no task finds another's solutions in its accounts, and
\* none is counted twice while its task is active.
THEOREM SpecImplementsLedger == Spec => ImplementsLedger
<1>1. Init => RingInv /\ Ledger!Init
  BY InitRingInv, InitOfLedger
<1>2. RingInv /\ [Next]_vars => RingInv' /\ [Ledger!Next]_(Ledger!ledger)
  BY NextOfLedger
<1> QED
  BY <1>1, <1>2, PTL DEF Spec, ImplementsLedger, Ledger!Spec

-----------------------------------------------------------------------------
(* The stored target as a number.  Weight and Value are recursive functions; *)
(* they exist, and go on byte by byte.                                       *)

LEMMA NatSetInduction ==
  ASSUME NEW A, 0 \in A, \A k \in Nat : k \in A => k + 1 \in A
  PROVE  Nat \subseteq A
<1> DEFINE out == Nat \ A
<1>1. SUFFICES ASSUME out # {} PROVE FALSE
  OBVIOUS
<1>2. PICK i \in out : \A k \in out : i <= k
  BY <1>1, FirstExists
<1>3. i # 0 /\ i - 1 \in Nat /\ ~ (i <= i - 1)
  OBVIOUS
<1>4. i - 1 \in A /\ (i - 1) + 1 = i
  BY <1>2, <1>3
<1> QED
  BY <1>3, <1>4

\* A function on 0..n that starts with x and goes on by G.
Steps(f, S, x, G, n) ==
  f \in [0..n -> S] /\ f[0] = x /\ \A k \in 1..n : f[k] = G[<<k, f[k - 1]>>]

LEMMA StepsExist ==
  ASSUME NEW S, NEW x \in S, NEW G \in [Nat \X S -> S], NEW n \in Nat
  PROVE  \E f : Steps(f, S, x, G, n)
<1> DEFINE A == {k \in Nat : \E f : Steps(f, S, x, G, k)}
<1>1. 0 \in A
  <2>1. Steps([t \in 0..0 |-> x], S, x, G, 0)
    BY DEF Steps
  <2> QED
    BY <2>1
<1>2. ASSUME NEW k \in Nat, k \in A PROVE k + 1 \in A
  <2>1. PICK f : Steps(f, S, x, G, k)
    BY <1>2
  <2> DEFINE y == G[<<k + 1, f[k]>>]
             g == [t \in 0..(k + 1) |-> IF t = k + 1 THEN y ELSE f[t]]
  <2>2. f[k] \in S /\ y \in S
    BY <2>1 DEF Steps
  <2>3. g \in [0..(k + 1) -> S] /\ g[0] = x
    BY <2>1, <2>2 DEF Steps
  <2>4. ASSUME NEW t \in 1..(k + 1) PROVE g[t] = G[<<t, g[t - 1]>>]
    <3>1. CASE t = k + 1
      <4>1. t - 1 = k /\ k \in 0..(k + 1) /\ k # k + 1 /\ t \in 0..(k + 1)
        BY <3>1
      <4>2. g[t] = y /\ g[k] = f[k]
        BY <3>1, <4>1
      <4> HIDE DEF g
      <4> QED
        BY <3>1, <4>1, <4>2
    <3>2. CASE t # k + 1
      <4>1. t \in 1..k /\ g[t] = f[t] /\ g[t - 1] = f[t - 1]
        BY <3>2
      <4> QED
        BY <2>1, <4>1 DEF Steps
    <3> QED
      BY <3>1, <3>2
  <2> HIDE DEF g
  <2>5. Steps(g, S, x, G, k + 1)
    BY <2>3, <2>4 DEF Steps
  <2> QED
    BY <2>5
<1> HIDE DEF A
<1>3. n \in A
  BY <1>1, <1>2, NatSetInduction
<1> QED
  BY <1>3 DEF A

\* Two functions that start alike and go on alike.
InStep(f, g, n) == f[0] = g[0] /\ \A k \in 1..n : f[k - 1] = g[k - 1] => f[k] = g[k]

LEMMA SameSteps ==
  ASSUME NEW f, NEW g, NEW n \in Nat, InStep(f, g, n)
  PROVE  \A k \in 0..n : f[k] = g[k]
<1> DEFINE A == {k \in Nat : k <= n => f[k] = g[k]}
<1>1. 0 \in A
  BY DEF InStep
<1>2. ASSUME NEW k \in Nat, k \in A PROVE k + 1 \in A
  <2>1. CASE k + 1 <= n
    <3>1. k + 1 \in 1..n /\ (k + 1) - 1 = k /\ f[k] = g[k]
      BY <1>2, <2>1
    <3> QED
      BY <3>1 DEF InStep
  <2>2. CASE ~ (k + 1 <= n)
    BY <2>2
  <2> QED
    BY <2>1, <2>2
<1> HIDE DEF A
<1>3. Nat \subseteq A
  BY <1>1, <1>2, NatSetInduction
<1> QED
  BY <1>3 DEF A

Powers(f, base, n) == f = [k \in 0..n |-> IF k = 0 THEN 1 ELSE base * f[k - 1]]

LEMMA PowersOf ==
  ASSUME NEW base \in Nat \ {0}, NEW n \in Nat
  PROVE  \E f \in [0..n -> Nat \ {0}] :
           /\ f[0] = 1 /\ \A k \in 1..n : f[k] = base * f[k - 1]
           /\ Weight(base, n) = f[n]
<1> DEFINE S == Nat \ {0}
           G == [kv \in Nat \X S |-> base * kv[2]]
<1>1. G \in [Nat \X S -> S]
  <2>1. \A v \in S : base * v \in S
    OBVIOUS
  <2> QED
    BY <2>1
<1>2. PICK f : Steps(f, S, 1, G, n)
  <2> HIDE DEF G, S
  <2>1. 1 \in S
    BY DEF S
  <2> QED
    BY <1>1, <2>1, StepsExist
<1>3. f \in [0..n -> S] /\ f[0] = 1 /\ \A k \in 1..n : f[k] = base * f[k - 1]
  <2>1. \A k \in 1..n : f[k - 1] \in S /\ k \in Nat
    BY <1>2 DEF Steps
  <2>2. \A k \in Nat, v \in S : G[<<k, v>>] = base * v
    OBVIOUS
  <2> QED
    BY <1>2, <2>1, <2>2 DEF Steps
<1> HIDE DEF G, S
<1>4. Powers(f, base, n)
  <2>1. \A k \in 0..n : k = 0 \/ k \in 1..n
    OBVIOUS
  <2>2. \A k \in 0..n : f[k] = IF k = 0 THEN 1 ELSE base * f[k - 1]
    BY <1>3, <2>1
  <2> QED
    BY <1>3, <2>2 DEF Powers
<1> DEFINE p == CHOOSE g : Powers(g, base, n)
<1>5. Powers(p, base, n) /\ Weight(base, n) = p[n]
  BY <1>4 DEF Powers, Weight
<1> HIDE DEF p
<1>6. p[n] = f[n]
  <2>1. p[0] = 1 /\ \A k \in 1..n : p[k] = base * p[k - 1]
    <3>1. 0 \in 0..n /\ \A k \in 1..n : k \in 0..n /\ k # 0
      OBVIOUS
    <3> QED
      BY <1>5, <3>1 DEF Powers
  <2>2. InStep(p, f, n)
    BY <1>3, <2>1 DEF InStep
  <2>3. \A k \in 0..n : p[k] = f[k]
    BY <2>2, SameSteps
  <2> QED
    BY <2>3
<1> QED
  BY <1>3, <1>5, <1>6 DEF S

LEMMA WeightGrows ==
  ASSUME NEW base \in Nat \ {0}
  PROVE  /\ Weight(base, 0) = 1
         /\ \A n \in Nat : /\ Weight(base, n) \in Nat \ {0}
                          /\ Weight(base, n + 1) = base * Weight(base, n)
<1>1. Weight(base, 0) = 1
  BY PowersOf
<1>2. ASSUME NEW n \in Nat
      PROVE  Weight(base, n) \in Nat \ {0} /\ Weight(base, n + 1) = base * Weight(base, n)
  <2>1. PICK f :
          /\ f \in [0..n -> Nat \ {0}]
          /\ f[0] = 1 /\ \A k \in 1..n : f[k] = base * f[k - 1]
          /\ Weight(base, n) = f[n]
    BY PowersOf
  <2>2. PICK g :
          /\ g \in [0..(n + 1) -> Nat \ {0}]
          /\ g[0] = 1 /\ \A k \in 1..(n + 1) : g[k] = base * g[k - 1]
          /\ Weight(base, n + 1) = g[n + 1]
    <3>1. n + 1 \in Nat
      OBVIOUS
    <3> QED
      BY <3>1, PowersOf
  <2>3. g[n] = f[n]
    <3>0. \A k \in 1..n : k \in 1..(n + 1)
      OBVIOUS
    <3>1. InStep(f, g, n)
      <4>1. ASSUME NEW k \in 1..n, f[k - 1] = g[k - 1] PROVE f[k] = g[k]
        <5>1. f[k] = base * f[k - 1]
          BY <2>1
        <5>2. g[k] = base * g[k - 1]
          BY <2>2, <3>0
        <5> QED
          BY <4>1, <5>1, <5>2
      <4> QED
        BY <2>1, <2>2, <4>1 DEF InStep
    <3>2. \A k \in 0..n : f[k] = g[k]
      BY <3>1, SameSteps
    <3> QED
      BY <3>2
  <2>4. g[n + 1] = base * g[n]
    <3>1. n + 1 \in 1..(n + 1) /\ (n + 1) - 1 = n
      OBVIOUS
    <3> QED
      BY <2>2, <3>1
  <2> QED
    BY <2>1, <2>2, <2>3, <2>4
<1> QED
  BY <1>1, <1>2

Sums(f, summands, n) == f = [k \in 0..n |-> IF k = 0 THEN 0 ELSE f[k - 1] + summands[k - 1]]

\* The sum of the first summands, from one to the next.
PartialSum(f, summands, n) ==
  /\ f \in [0..n -> Nat] /\ f[0] = 0
  /\ \A k \in 1..n : f[k] = f[k - 1] + summands[k - 1]
  /\ Total(summands, n) = f[n]

LEMMA SumOf ==
  ASSUME NEW summands, NEW n \in Nat, \A i \in 0..(n - 1) : summands[i] \in Nat
  PROVE  \E f : PartialSum(f, summands, n)
<1> DEFINE term(k) == IF k \in 1..n THEN summands[k - 1] ELSE 0
           G == [kv \in Nat \X Nat |-> kv[2] + term(kv[1])]
<1>0. \A k \in Nat : term(k) \in Nat
  <2>1. \A k \in 1..n : k - 1 \in 0..(n - 1)
    OBVIOUS
  <2> QED
    BY <2>1
<1>1. G \in [Nat \X Nat -> Nat]
  <2> HIDE DEF term
  <2> QED
    BY <1>0
<1>2. PICK f : Steps(f, Nat, 0, G, n)
  <2> HIDE DEF G
  <2> QED
    BY <1>1, StepsExist
<1>3. f \in [0..n -> Nat] /\ f[0] = 0 /\ \A k \in 1..n : f[k] = f[k - 1] + summands[k - 1]
  <2>1. \A k \in 1..n : f[k - 1] \in Nat /\ k \in Nat
    <3> HIDE DEF G
    <3> QED
      BY <1>2 DEF Steps
  <2>2. \A k \in Nat, v \in Nat : G[<<k, v>>] = v + term(k)
    <3> HIDE DEF term
    <3> QED
      OBVIOUS
  <2>3. \A k \in 1..n : term(k) = summands[k - 1]
    OBVIOUS
  <2> HIDE DEF G, term
  <2>4. \A k \in 1..n : f[k] = f[k - 1] + term(k)
    BY <1>2, <2>1, <2>2 DEF Steps
  <2> QED
    BY <1>2, <2>3, <2>4 DEF Steps
<1> HIDE DEF G
<1>4. Sums(f, summands, n)
  <2>1. \A k \in 0..n : k = 0 \/ k \in 1..n
    OBVIOUS
  <2>2. \A k \in 0..n : f[k] = IF k = 0 THEN 0 ELSE f[k - 1] + summands[k - 1]
    BY <1>3, <2>1
  <2> QED
    BY <1>3, <2>2 DEF Sums
<1> DEFINE p == CHOOSE g : Sums(g, summands, n)
<1>5. Sums(p, summands, n) /\ Total(summands, n) = p[n]
  BY <1>4 DEF Sums, Total
<1> HIDE DEF p
<1>6. p[n] = f[n]
  <2>1. p[0] = 0 /\ \A k \in 1..n : p[k] = p[k - 1] + summands[k - 1]
    <3>1. 0 \in 0..n /\ \A k \in 1..n : k \in 0..n /\ k # 0
      OBVIOUS
    <3> QED
      BY <1>5, <3>1 DEF Sums
  <2>2. InStep(p, f, n)
    BY <1>3, <2>1 DEF InStep
  <2>3. \A k \in 0..n : p[k] = f[k]
    BY <2>2, SameSteps
  <2> QED
    BY <2>3
<1>7. PartialSum(f, summands, n)
  BY <1>3, <1>5, <1>6 DEF PartialSum
<1> QED
  BY <1>7

\* The number read so far, from digit to digit.
PartialSums(f, base, digits, n) ==
  /\ f \in [0..n -> Nat] /\ f[0] = 0
  /\ \A k \in 1..n : f[k] = f[k - 1] + digits[k - 1] * Weight(base, k - 1)
  /\ Value(base, digits, n) = f[n]

LEMMA SumsOf ==
  ASSUME NEW base \in Nat \ {0}, NEW digits, NEW n \in Nat,
         \A i \in 0..(n - 1) : digits[i] \in Nat
  PROVE  \E f : PartialSums(f, base, digits, n)
<1> DEFINE summands == [k \in 0..(n - 1) |-> digits[k] * Weight(base, k)]
<1>1. \A k \in 0..(n - 1) : summands[k] = digits[k] * Weight(base, k)
  OBVIOUS
<1>2. \A k \in 0..(n - 1) : summands[k] \in Nat
  <2>1. \A k \in 0..(n - 1) : digits[k] \in Nat /\ Weight(base, k) \in Nat
    BY WeightGrows
  <2> QED
    BY <2>1
<1>3. Value(base, digits, n) = Total(summands, n)
  BY DEF Value
<1> HIDE DEF summands
<1>4. PICK f : PartialSum(f, summands, n)
  BY <1>2, SumOf
<1>5. \A k \in 1..n : k - 1 \in 0..(n - 1)
  OBVIOUS
<1>6. PartialSums(f, base, digits, n)
  BY <1>1, <1>3, <1>4, <1>5 DEF PartialSum, PartialSums
<1> QED
  BY <1>6

LEMMA DivMod ==
  ASSUME NEW a \in Nat, NEW d \in Nat \ {0}, NEW q \in Nat, NEW r \in Nat,
         r < d, a = q * d + r
  PROVE  a % d = r /\ a \div d = q
OBVIOUS

LEMMA NextSum ==
  ASSUME NEW base \in Nat \ {0}, NEW s \in Nat, NEW w \in Nat \ {0}, s < w, NEW b \in 0..(base - 1)
  PROVE  s + b * w < base * w
<1>1. base \in Nat \ {0} /\ b \in Nat /\ b + 1 <= base
  OBVIOUS
<1>2. (b + 1) * w <= base * w
  BY <1>1
<1>3. (b + 1) * w = b * w + w
  BY <1>1
<1>4. b * w \in Nat /\ base * w \in Nat
  BY <1>1
<1> QED
  BY <1>2, <1>3, <1>4

LEMMA NextRest ==
  ASSUME NEW base \in Nat \ {0}, NEW s \in Nat, NEW w \in Nat, NEW b \in Nat, NEW x \in Nat
  PROVE  (s + b * w) + x * (base * w) = s + (b + base * x) * w
<1>1. base \in Nat
  OBVIOUS
<1>2. (b + base * x) * w = b * w + x * (base * w)
  BY <1>1
<1>3. b * w \in Nat /\ x * (base * w) \in Nat
  BY <1>1
<1> QED
  BY <1>2, <1>3

\* If r is a number without its first k digits for each k, the first n digits are the
\* number modulo the weight of the next.
LEMMA Digits ==
  ASSUME NEW base \in Nat \ {0}, NEW digits, NEW r, NEW n \in Nat,
         \A k \in 0..n : r[k] \in Nat,
         \A k \in 0..(n - 1) : digits[k] \in 0..(base - 1) /\ r[k] = digits[k] + base * r[k + 1]
  PROVE  Value(base, digits, n) = r[0] % Weight(base, n)
<1>0. PICK f : PartialSums(f, base, digits, n)
  <2>1. \A k \in 0..(n - 1) : digits[k] \in Nat
    OBVIOUS
  <2> QED
    BY <2>1, SumsOf
<1>1. /\ f \in [0..n -> Nat] /\ f[0] = 0
      /\ \A k \in 1..n : f[k] = f[k - 1] + digits[k - 1] * Weight(base, k - 1)
      /\ Value(base, digits, n) = f[n]
  BY <1>0 DEF PartialSums
<1> DEFINE split(k) == f[k] + r[k] * Weight(base, k) = r[0] /\ f[k] < Weight(base, k)
           A == {k \in Nat : k <= n => split(k)}
<1>2. 0 \in A
  <2>1. r[0] \in Nat /\ 0 + r[0] * 1 = r[0]
    <3>1. r[0] \in Nat
      OBVIOUS
    <3> QED
      BY <3>1
  <2>2. f[0] = 0 /\ Weight(base, 0) = 1 /\ 0 < 1
    BY <1>1, WeightGrows
  <2>3. split(0)
    BY <2>1, <2>2
  <2> HIDE DEF split
  <2> QED
    BY <2>3
<1>3. ASSUME NEW k \in Nat, k \in A PROVE k + 1 \in A
  <2>1. CASE k + 1 <= n
    <3>1. k \in 0..n /\ k + 1 \in 0..n /\ k \in 0..(n - 1) /\ k + 1 \in 1..n /\ (k + 1) - 1 = k
      BY <2>1
    <3>2. split(k)
      BY <1>3, <2>1
    <3>3. f[k] \in Nat /\ r[k] \in Nat /\ r[k + 1] \in Nat /\ digits[k] \in 0..(base - 1)
          /\ digits[k] \in Nat
      BY <1>1, <3>1
    <3>4. Weight(base, k) \in Nat \ {0} /\ Weight(base, k + 1) = base * Weight(base, k)
      BY WeightGrows
    <3>5. f[k + 1] = f[k] + digits[k] * Weight(base, k)
      BY <1>1, <3>1
    <3>6. f[k + 1] < Weight(base, k + 1)
      BY <3>2, <3>3, <3>4, <3>5, NextSum
    <3>7. f[k + 1] + r[k + 1] * Weight(base, k + 1) = f[k] + (digits[k] + base * r[k + 1]) * Weight(base, k)
      <4> DEFINE s == f[k]
                 w == Weight(base, k)
                 b == digits[k]
                 x == r[k + 1]
      <4>1. s \in Nat /\ w \in Nat /\ b \in Nat /\ x \in Nat
        BY <3>3, <3>4
      <4> HIDE DEF s, w, b, x
      <4>2. (s + b * w) + x * (base * w) = s + (b + base * x) * w
        BY <4>1, NextRest
      <4> QED
        BY <3>4, <3>5, <4>2 DEF s, w, b, x
    <3>8. r[k] = digits[k] + base * r[k + 1]
      BY <3>1
    <3>9. split(k + 1)
      BY <3>2, <3>6, <3>7, <3>8
    <3> HIDE DEF split
    <3> QED
      BY <3>9
  <2>2. CASE ~ (k + 1 <= n)
    BY <2>2
  <2> QED
    BY <2>1, <2>2
<1> HIDE DEF A
<1>4. n \in A
  BY <1>2, <1>3, NatSetInduction
<1>5. f[n] + r[n] * Weight(base, n) = r[0] /\ f[n] < Weight(base, n)
  BY <1>4 DEF A
<1>6. f[n] \in Nat /\ r[n] \in Nat /\ r[0] \in Nat /\ Weight(base, n) \in Nat \ {0}
  BY <1>1, WeightGrows
<1>7. r[0] = r[n] * Weight(base, n) + f[n]
  BY <1>5, <1>6
<1>8. r[0] % Weight(base, n) = f[n]
  <2> DEFINE w == Weight(base, n)
             a == r[0]
             q == r[n]
             s == f[n]
  <2>1. w \in Nat \ {0} /\ a \in Nat /\ q \in Nat /\ s \in Nat /\ s < w /\ a = q * w + s
    BY <1>5, <1>6, <1>7
  <2> HIDE DEF w, a, q, s
  <2>2. a % w = s
    BY <2>1, DivMod
  <2> QED
    BY <2>2 DEF w, a, s
<1> QED
  BY <1>1, <1>8

LEMMA SumsBelow ==
  ASSUME NEW base \in Nat \ {0}, NEW digits, NEW n \in Nat, NEW f,
         PartialSums(f, base, digits, n),
         \A k \in 0..(n - 1) : digits[k] \in 0..(base - 1)
  PROVE  \A k \in 0..n : f[k] \in Nat /\ f[k] < Weight(base, k)
<1> DEFINE A == {k \in Nat : k <= n => f[k] < Weight(base, k)}
<1>1. 0 \in A
  <2>1. f[0] = 0 /\ Weight(base, 0) = 1
    BY WeightGrows DEF PartialSums
  <2> QED
    BY <2>1
<1>2. ASSUME NEW k \in Nat, k \in A PROVE k + 1 \in A
  <2>1. CASE k + 1 <= n
    <3> DEFINE s == f[k]
               w == Weight(base, k)
               b == digits[k]
    <3>1. k \in 0..n /\ k \in 0..(n - 1) /\ k + 1 \in 1..n /\ (k + 1) - 1 = k
      BY <2>1
    <3>2. s \in Nat /\ s < w /\ b \in 0..(base - 1) /\ w \in Nat \ {0}
      BY <1>2, <2>1, <3>1, WeightGrows DEF PartialSums
    <3>3. f[k + 1] = s + b * w
      BY <3>1 DEF PartialSums
    <3>4. Weight(base, k + 1) = base * w
      BY WeightGrows
    <3> HIDE DEF s, w, b
    <3>5. s + b * w < base * w
      BY <3>2, NextSum
    <3> QED
      BY <3>3, <3>4, <3>5
  <2>2. CASE ~ (k + 1 <= n)
    BY <2>2
  <2> QED
    BY <2>1, <2>2
<1> HIDE DEF A
<1>3. Nat \subseteq A
  BY <1>1, <1>2, NatSetInduction
<1> QED
  BY <1>3 DEF A, PartialSums

\* The digits above one add a multiple of what it can carry.
LEMMA DigitsAbove ==
  ASSUME NEW base \in Nat \ {0}, NEW digits, NEW n \in Nat, NEW f,
         PartialSums(f, base, digits, n),
         \A k \in 0..(n - 1) : digits[k] \in Nat,
         NEW j \in 0..n
  PROVE  \E q \in Nat : f[n] = f[j] + q * Weight(base, j)
<1> DEFINE w == Weight(base, j)
           above(k) == /\ \E c \in Nat : Weight(base, j + k) = c * w
                       /\ j + k <= n => \E q \in Nat : f[j + k] = f[j] + q * w
           A == {k \in Nat : above(k)}
<1>0. j \in Nat /\ w \in Nat /\ f[j] \in Nat
  <2>1. j \in Nat
    OBVIOUS
  <2>2. w \in Nat
    BY <2>1, WeightGrows
  <2>3. f[j] \in Nat
    BY DEF PartialSums
  <2> QED
    BY <2>1, <2>2, <2>3
<1>1. 0 \in A
  <2>1. j + 0 = j /\ w = 1 * w /\ f[j] = f[j] + 0 * w
    BY <1>0
  <2>2. above(0)
    BY <2>1
  <2> HIDE DEF above
  <2> QED
    BY <2>2
<1>2. ASSUME NEW k \in Nat, k \in A PROVE k + 1 \in A
  <2>0. j + (k + 1) = (j + k) + 1 /\ j + k \in Nat
    BY <1>0
  <2>1. PICK c \in Nat : Weight(base, j + k) = c * w
    BY <1>2
  <2>2. Weight(base, (j + k) + 1) = base * Weight(base, j + k)
    BY <2>0, WeightGrows
  <2> HIDE DEF w
  <2>3. base * (c * w) = (base * c) * w /\ base * c \in Nat
    BY <1>0
  <2>4. CASE j + (k + 1) <= n
    <3>1. j + k <= n /\ j + k \in 0..(n - 1) /\ (j + k) + 1 \in 1..n
          /\ ((j + k) + 1) - 1 = j + k
      BY <2>0, <2>4
    <3>2. PICK q \in Nat : f[j + k] = f[j] + q * w
      BY <1>2, <3>1
    <3> DEFINE d == digits[j + k]
    <3>3. d \in Nat /\ f[(j + k) + 1] = f[j + k] + d * (c * w)
      BY <2>1, <3>1 DEF PartialSums
    <3> HIDE DEF d
    <3>4. f[j] + q * w + d * (c * w) = f[j] + (q + d * c) * w /\ q + d * c \in Nat
      <4>1. d * c \in Nat /\ q * w \in Nat
        BY <1>0, <3>3
      <4>2. d * (c * w) = (d * c) * w
        BY <1>0, <3>3
      <4>3. (q + d * c) * w = q * w + (d * c) * w /\ (d * c) * w \in Nat
        BY <1>0, <4>1
      <4> QED
        BY <1>0, <4>1, <4>2, <4>3
    <3>5. above(k + 1)
      BY <2>0, <2>1, <2>2, <2>3, <3>2, <3>3, <3>4
    <3> HIDE DEF above
    <3> QED
      BY <3>5
  <2>5. CASE ~ (j + (k + 1) <= n)
    BY <2>0, <2>1, <2>2, <2>3, <2>5
  <2> QED
    BY <2>4, <2>5
<1> HIDE DEF A
<1>3. Nat \subseteq A
  BY <1>1, <1>2, NatSetInduction
<1>4. n - j \in Nat /\ j + (n - j) = n /\ n <= n
  BY <1>0
<1>5. n - j \in A
  BY <1>3, <1>4
<1> DEFINE m == n - j
<1>6. m \in A
  BY <1>5
<1> HIDE DEF m
<1>7. j + m <= n => \E q \in Nat : f[j + m] = f[j] + q * w
  BY <1>6 DEF A
<1>8. j + m = n
  BY <1>4 DEF m
<1> QED
  BY <1>4, <1>7, <1>8

\* Division and remainder find the digit again.
LEMMA DigitOf ==
  ASSUME NEW base \in Nat \ {0}, NEW digits, NEW n \in Nat,
         \A k \in 0..(n - 1) : digits[k] \in 0..(base - 1),
         NEW j \in 0..(n - 1)
  PROVE  (Value(base, digits, n) \div Weight(base, j)) % base = digits[j]
<1>1. \A k \in 0..(n - 1) : digits[k] \in Nat
  OBVIOUS
<1>2. PICK f : PartialSums(f, base, digits, n)
  BY <1>1, SumsOf
<1>3. j \in 0..n /\ j + 1 \in 0..n /\ j + 1 \in 1..n /\ (j + 1) - 1 = j /\ j \in Nat
  OBVIOUS
<1> DEFINE s == f[j]
           w == Weight(base, j)
           b == digits[j]
<1>4. PICK q \in Nat : f[n] = f[j + 1] + q * Weight(base, j + 1)
  BY <1>1, <1>2, <1>3, DigitsAbove
<1>5. f[j + 1] = s + b * w /\ Weight(base, j + 1) = base * w /\ w \in Nat \ {0}
  BY <1>2, <1>3, WeightGrows DEF PartialSums
<1>6. s \in Nat /\ s < w /\ b \in Nat /\ b < base
  BY <1>2, <1>3, SumsBelow
<1>7. Value(base, digits, n) = f[n]
  BY <1>2 DEF PartialSums
<1> DEFINE v == f[n]
<1>8. v = (s + b * w) + q * (base * w)
  BY <1>4, <1>5
<1> HIDE DEF s, w, b, v
<1>9. v = (b + base * q) * w + s /\ b + base * q \in Nat /\ v \in Nat
  <2>1. (s + b * w) + q * (base * w) = s + (b + base * q) * w
    BY <1>5, <1>6, NextRest
  <2>2. base * q \in Nat
    OBVIOUS
  <2>3. b + base * q \in Nat
    BY <1>6, <2>2
  <2>4. (b + base * q) * w \in Nat
    BY <1>5, <2>3
  <2> QED
    BY <1>6, <1>8, <2>1, <2>3, <2>4
<1>10. v \div w = b + base * q
  BY <1>5, <1>6, <1>9, DivMod
<1>11. (b + base * q) % base = b
  <2>1. b + base * q = q * base + b
    BY <1>6
  <2> QED
    BY <1>6, <1>9, <2>1, DivMod
<1> QED
  BY <1>7, <1>10, <1>11 DEF v, w, b

LEMMA ByteWeights ==
  /\ Byte \in Nat \ {0} /\ Weight(Byte, 0) = 1
  /\ \A n \in Nat : /\ Weight(Byte, n) \in Nat \ {0}
                   /\ Weight(Byte, n + 1) = Byte * Weight(Byte, n)
BY MessageAssumption, WeightGrows

\* A mantissa without its first bytes.
Rest(m, d) ==
  CASE d = 0 -> m[0] + Byte * (m[1] + Byte * m[2])
    [] d = 1 -> m[1] + Byte * m[2]
    [] d = 2 -> m[2]
    [] OTHER -> 0

LEMMA RestOf ==
  ASSUME NEW m, \A k \in 0..2 : m[k] \in 0..(Byte - 1)
  PROVE  /\ \A d \in Nat : Rest(m, d) \in Nat
         /\ \A d \in 0..2 : Rest(m, d) = m[d] + Byte * Rest(m, d + 1)
         /\ Value(Byte, m, 3) = Rest(m, 0)
<1>1. Byte \in Nat \ {0} /\ m[0] \in Nat /\ m[1] \in Nat /\ m[2] \in Nat
  BY MessageAssumption
<1>2. m[1] + Byte * m[2] \in Nat /\ Byte * (m[1] + Byte * m[2]) \in Nat
  <2>1. Byte * m[2] \in Nat
    BY <1>1
  <2> QED
    BY <1>1, <2>1
<1>3. Rest(m, 0) = m[0] + Byte * Rest(m, 1) /\ Rest(m, 1) = m[1] + Byte * Rest(m, 2)
      /\ Rest(m, 2) = m[2] + Byte * Rest(m, 3)
  BY <1>1 DEF Rest
<1>4. \A d \in Nat : Rest(m, d) \in Nat
  BY <1>1, <1>2 DEF Rest
<1>5. \A d \in 0..2 : Rest(m, d) = m[d] + Byte * Rest(m, d + 1)
  <2>1. \A d \in 0..2 : (d = 0 /\ d + 1 = 1) \/ (d = 1 /\ d + 1 = 2) \/ (d = 2 /\ d + 1 = 3)
    OBVIOUS
  <2> QED
    BY <1>3, <2>1
<1>6. Value(Byte, m, 3) = Rest(m, 0)
  <2>1. \A k \in 0..(3 - 1) : m[k] \in Nat
    BY MessageAssumption
  <2>2. PICK f : PartialSums(f, Byte, m, 3)
    <3> DEFINE n == 3
    <3>1. n \in Nat /\ \A k \in 0..(n - 1) : m[k] \in Nat
      BY <2>1
    <3> HIDE DEF n
    <3>2. \E f : PartialSums(f, Byte, m, n)
      BY <3>1, ByteWeights, SumsOf
    <3> QED
      BY <3>2 DEF n
  <2>3. Weight(Byte, 0) = 1 /\ Weight(Byte, 1) = Byte /\ Weight(Byte, 2) = Byte * Byte
    <3>1. Weight(Byte, 0 + 1) = Byte * Weight(Byte, 0) /\ Weight(Byte, 1 + 1) = Byte * Weight(Byte, 1)
      BY ByteWeights
    <3> QED
      BY <1>1, <3>1, ByteWeights
  <2>4. f[1] = f[0] + m[0] * Weight(Byte, 0) /\ f[2] = f[1] + m[1] * Weight(Byte, 1)
        /\ f[3] = f[2] + m[2] * Weight(Byte, 2)
    <3>1. 1 \in 1..3 /\ 2 \in 1..3 /\ 3 \in 1..3 /\ 1 - 1 = 0 /\ 2 - 1 = 1 /\ 3 - 1 = 2
      OBVIOUS
    <3> QED
      BY <2>2, <3>1 DEF PartialSums
  <2>5. f[3] = m[0] + m[1] * Byte + m[2] * (Byte * Byte)
    BY <1>1, <2>2, <2>3, <2>4 DEF PartialSums
  <2>6. m[0] + m[1] * Byte + m[2] * (Byte * Byte) = m[0] + Byte * (m[1] + Byte * m[2])
    BY <1>1
  <2> QED
    BY <2>2, <2>5, <2>6 DEF Rest, PartialSums
<1> QED
  BY <1>4, <1>5, <1>6

\* What the target says, whatever its exponent, and cut to the bytes there are.
Whole(m, e) ==
  IF e < 3 THEN Rest(m, 0) \div Weight(Byte, 3 - e) ELSE Rest(m, 0) * Weight(Byte, e - 3)

\* Divided by Byte, Byte^2, Byte^3 a mantissa loses its first one, two, three bytes.
LEMMA ShortExponent ==
  ASSUME NEW m, \A k \in 0..2 : m[k] \in 0..(Byte - 1), NEW e \in 0..2
  PROVE  Whole(m, e) = Rest(m, 3 - e)
<1> DEFINE a == m[0]
           b == m[1]
           c == m[2]
<1>1. Byte \in Nat \ {0} /\ a \in Nat /\ b \in Nat /\ c \in Nat
      /\ a \in 0..(Byte - 1) /\ b \in 0..(Byte - 1) /\ c \in 0..(Byte - 1)
      /\ a < Byte /\ b < Byte /\ c < Byte
  BY MessageAssumption
<1>2. Rest(m, 0) = a + Byte * (b + Byte * c) /\ Rest(m, 1) = b + Byte * c
      /\ Rest(m, 2) = c /\ Rest(m, 3) = 0
  BY DEF Rest
<1>3. Weight(Byte, 1) = Byte /\ Weight(Byte, 2) = Byte * Byte /\ Weight(Byte, 3) = Byte * (Byte * Byte)
      /\ Weight(Byte, 2) \in Nat \ {0} /\ Weight(Byte, 3) \in Nat \ {0}
  <2>1. Weight(Byte, 0 + 1) = Byte * Weight(Byte, 0) /\ Weight(Byte, 1 + 1) = Byte * Weight(Byte, 1)
        /\ Weight(Byte, 2 + 1) = Byte * Weight(Byte, 2)
    BY ByteWeights
  <2>2. 0 + 1 = 1 /\ 1 + 1 = 2 /\ 2 + 1 = 3
    OBVIOUS
  <2> QED
    BY <1>1, <2>1, <2>2, ByteWeights
<1> HIDE DEF a, b, c
<1>4. Rest(m, 0) \in Nat /\ Rest(m, 1) \in Nat
  BY RestOf
<1>5. Rest(m, 0) = Rest(m, 1) * Byte + a
  BY <1>1, <1>2, <1>4
<1>6. a + b * Byte \in Nat /\ a + b * Byte < Byte * Byte
  BY <1>1, NextSum
<1>7. Rest(m, 0) = c * (Byte * Byte) + (a + b * Byte)
  BY <1>1, <1>2
<1>8. Rest(m, 0) < Byte * (Byte * Byte)
  <2>1. Byte * Byte \in Nat \ {0}
    BY <1>1
  <2>2. (a + b * Byte) + c * (Byte * Byte) < Byte * (Byte * Byte)
    BY <1>1, <1>6, <2>1, NextSum
  <2>3. c * (Byte * Byte) \in Nat
    BY <1>1, <2>1
  <2> QED
    BY <1>6, <1>7, <2>2, <2>3
<1>9. CASE e = 2
  <2>1. Rest(m, 0) \div Byte = Rest(m, 1)
    BY <1>1, <1>4, <1>5, DivMod
  <2> QED
    BY <1>9, <1>3, <2>1 DEF Whole
<1>10. CASE e = 1
  <2>1. Rest(m, 0) \div Weight(Byte, 2) = c
    BY <1>1, <1>3, <1>4, <1>6, <1>7, DivMod
  <2> QED
    BY <1>10, <1>2, <2>1 DEF Whole
<1>11. CASE e = 0
  <2>1. Rest(m, 0) = 0 * Weight(Byte, 3) + Rest(m, 0)
    BY <1>3, <1>4
  <2>2. Rest(m, 0) \div Weight(Byte, 3) = 0
    BY <1>3, <1>4, <1>8, <2>1, DivMod
  <2> QED
    BY <1>11, <1>2, <2>2 DEF Whole
<1> QED
  BY <1>9, <1>10, <1>11

\* The bytes written are the number the compact target stands for.
LEMMA ConvertIsTarget ==
  ASSUME NEW c, c.exponent \in Nat, \A k \in 0..2 : c.mantissa[k] \in 0..(Byte - 1)
  PROVE  Value(Byte, _convertTargetCompactToFull(c), TargetBytes) = Target(c)
<1> DEFINE m == c.mantissa
           e == c.exponent
           bytes == _convertTargetCompactToFull(c)
           rest(k) == IF k <= e - 3 THEN Rest(m, 0) * Weight(Byte, (e - 3) - k)
                      ELSE Rest(m, k - (e - 3))
           r == [k \in 0..TargetBytes |-> rest(k)]
<1>1. e \in Nat /\ TargetBytes \in Nat /\ Byte \in Nat \ {0}
      /\ (\A k \in 0..2 : m[k] \in 0..(Byte - 1))
  BY MessageAssumption
<1>2. ASSUME NEW i \in 0..(TargetBytes - 1)
      PROVE  bytes[i] = IF i - (e - 3) \in 0..2 THEN m[i - (e - 3)] ELSE 0
  BY DEF _convertTargetCompactToFull
<1> HIDE DEF m, e, bytes
<1>3. /\ \A d \in Nat : Rest(m, d) \in Nat
      /\ \A d \in 0..2 : Rest(m, d) = m[d] + Byte * Rest(m, d + 1)
  BY <1>1, RestOf
<1>4. ASSUME NEW k \in Nat PROVE rest(k) \in Nat
  <2>1. CASE k <= e - 3
    <3>1. (e - 3) - k \in Nat
      BY <1>1, <2>1
    <3>2. Weight(Byte, (e - 3) - k) \in Nat /\ Rest(m, 0) \in Nat
      BY <1>3, <3>1, ByteWeights
    <3>3. \A x, y \in Nat : x * y \in Nat
      OBVIOUS
    <3> QED
      BY <2>1, <3>2, <3>3
  <2>2. CASE ~ (k <= e - 3)
    <3>1. k - (e - 3) \in Nat
      BY <1>1, <2>2
    <3> QED
      BY <1>3, <2>2, <3>1
  <2> QED
    BY <2>1, <2>2
<1>5. ASSUME NEW k \in 0..(TargetBytes - 1)
      PROVE  bytes[k] \in 0..(Byte - 1) /\ rest(k) = bytes[k] + Byte * rest(k + 1)
  <2> DEFINE d == k - (e - 3)
  <2>0. k \in Nat /\ d \in Int /\ (k + 1) - (e - 3) = d + 1 /\ 0 \in 0..(Byte - 1)
    BY <1>1
  <2>1. CASE d < 0
    <3> DEFINE w == (e - 3) - (k + 1)
    <3>1. w \in Nat /\ (e - 3) - k = w + 1 /\ k <= e - 3 /\ k + 1 <= e - 3 /\ bytes[k] = 0
      BY <1>1, <1>2, <2>0, <2>1
    <3>2. Weight(Byte, w) \in Nat /\ Weight(Byte, w + 1) = Byte * Weight(Byte, w) /\ Rest(m, 0) \in Nat
      BY <1>3, <3>1, ByteWeights
    <3>3. rest(k) = Rest(m, 0) * Weight(Byte, w + 1) /\ rest(k + 1) = Rest(m, 0) * Weight(Byte, w)
      BY <3>1
    <3> HIDE DEF w, rest
    <3>4. Rest(m, 0) * (Byte * Weight(Byte, w)) = 0 + Byte * (Rest(m, 0) * Weight(Byte, w))
      BY <1>1, <3>2
    <3> QED
      BY <2>0, <3>1, <3>2, <3>3, <3>4
  <2>2. CASE d \in 0..2
    <3>1. bytes[k] = m[d]
      BY <1>2, <2>2
    <3>2. rest(k) = Rest(m, d)
      <4>1. CASE d = 0
        <5>1. k <= e - 3 /\ (e - 3) - k = 0 /\ Rest(m, 0) \in Nat
          BY <1>1, <1>3, <2>0, <4>1
        <5>2. rest(k) = Rest(m, 0) * 1
          BY <5>1, ByteWeights
        <5> HIDE DEF rest
        <5> QED
          BY <4>1, <5>1, <5>2
      <4>2. CASE d # 0
        <5>1. ~ (k <= e - 3)
          BY <1>1, <2>0, <2>2, <4>2
        <5> QED
          BY <5>1
      <4> QED
        BY <4>1, <4>2
    <3>3. rest(k + 1) = Rest(m, d + 1)
      <4>1. ~ (k + 1 <= e - 3)
        BY <1>1, <2>0, <2>2
      <4> QED
        BY <2>0, <4>1
    <3> HIDE DEF d, rest
    <3> QED
      BY <1>1, <1>3, <2>2, <3>1, <3>2, <3>3
  <2>3. CASE d > 2
    <3>1. bytes[k] = 0 /\ ~ (k <= e - 3) /\ ~ (k + 1 <= e - 3)
      BY <1>1, <1>2, <2>0, <2>3
    <3>2. rest(k) = Rest(m, d) /\ rest(k + 1) = Rest(m, d + 1)
      BY <2>0, <3>1
    <3>3. Rest(m, d) = 0 /\ Rest(m, d + 1) = 0
      BY <2>0, <2>3 DEF Rest
    <3> HIDE DEF d, rest
    <3> QED
      BY <1>1, <2>0, <3>1, <3>2, <3>3
  <2> QED
    BY <2>0, <2>1, <2>2, <2>3
<1>6. /\ \A k \in 0..TargetBytes : r[k] \in Nat
      /\ \A k \in 0..(TargetBytes - 1) :
           bytes[k] \in 0..(Byte - 1) /\ r[k] = bytes[k] + Byte * r[k + 1]
  <2>1. \A k \in 0..TargetBytes : r[k] = rest(k)
    OBVIOUS
  <2>2. \A k \in 0..(TargetBytes - 1) : k \in 0..TargetBytes /\ k + 1 \in 0..TargetBytes
    BY <1>1
  <2>3. \A k \in 0..TargetBytes : k \in Nat
    BY <1>1
  <2> HIDE DEF r, rest
  <2> QED
    BY <1>4, <1>5, <2>1, <2>2, <2>3
<1>7. Value(Byte, bytes, TargetBytes) = r[0] % Weight(Byte, TargetBytes)
  <2> HIDE DEF r
  <2> QED
    BY <1>1, <1>6, Digits
<1>8. r[0] = Whole(m, e)
  <2>1. 0 \in 0..TargetBytes
    BY <1>1
  <2>2. r[0] = rest(0)
    BY <2>1
  <2>3. CASE e < 3
    <3>1. ~ (0 <= e - 3) /\ 0 - (e - 3) = 3 - e /\ e \in 0..2
      BY <1>1, <2>3
    <3>2. rest(0) = Rest(m, 3 - e)
      BY <3>1
    <3> QED
      BY <1>1, <2>2, <3>1, <3>2, ShortExponent
  <2>4. CASE ~ (e < 3)
    <3>1. 0 <= e - 3 /\ (e - 3) - 0 = e - 3
      BY <1>1, <2>4
    <3> QED
      BY <2>2, <2>4, <3>1 DEF Whole
  <2> QED
    BY <2>3, <2>4
<1>9. Target(c) = Whole(m, e) % Weight(Byte, TargetBytes)
  <2>1. Value(Byte, m, 3) = Rest(m, 0)
    BY <1>1, RestOf
  <2> QED
    BY <2>1 DEF Target, Whole, m, e
<1> HIDE DEF r
<1> QED
  BY <1>7, <1>8, <1>9 DEF bytes

-----------------------------------------------------------------------------
(* An active task is described as it was added: the place a new task takes is *)
(* written whole, and no other task's place with it.                          *)

DescribedInv ==
  /\ dogeTasks \in [Slots -> {Stored(msg) : msg \in Messages} \cup {0}]
  /\ accepted \in [Jobs -> Messages \cup {0}]
  /\ \A s \in Slots : activeTasks[s] # 0 =>
       LET msg == accepted[activeTasks[s]]
       IN  msg \in Messages /\ msg.jobId = activeTasks[s] /\ dogeTasks[s] = Stored(msg)

LEMMA AddTaskDescribes ==
  ASSUME RingInv, DescribedInv, NEW msg \in Messages, AddTask(msg)
  PROVE  DescribedInv'
<1> DEFINE n == nextTaskIndex
           job == msg.jobId
           described == Stored(msg)
<1>1. /\ n \in Slots /\ job \in Jobs /\ job # 0
      /\ \A s \in Slots : activeTasks[s] # job
      /\ activeTasks \in [Slots -> Jobs \cup {0}]
      /\ \A s, u \in Slots : activeTasks[s] = activeTasks[u] /\ activeTasks[s] # 0 => s = u
  BY AddTaskTakesPlace, StorageAssumption DEF RingInv
<1>2. /\ activeTasks' = [activeTasks EXCEPT ![n] = job]
      /\ dogeTasks' = [dogeTasks EXCEPT ![n] = described]
      /\ accepted' = [j \in Jobs |-> IF j = job THEN msg
                                    ELSE IF j = activeTasks[n] THEN 0 ELSE accepted[j]]
  BY DEF AddTask
<1>3. described \in {Stored(m) : m \in Messages}
  OBVIOUS
<1> DEFINE Described == {Stored(m) : m \in Messages} \cup {0}
<1>4. dogeTasks \in [Slots -> Described] /\ described \in Described
  BY <1>3 DEF DescribedInv
<1> HIDE DEF described, Described, n, job
<1>5. dogeTasks' \in [Slots -> Described] /\ accepted' \in [Jobs -> Messages \cup {0}]
  BY <1>1, <1>2, <1>4 DEF DescribedInv
<1>6. ASSUME NEW s \in Slots, activeTasks'[s] # 0
      PROVE  /\ accepted'[activeTasks'[s]] \in Messages
             /\ accepted'[activeTasks'[s]].jobId = activeTasks'[s]
             /\ dogeTasks'[s] = Stored(accepted'[activeTasks'[s]])
  <2>1. CASE s = n
    <3>1. activeTasks'[s] = job /\ accepted'[job] = msg /\ dogeTasks'[s] = described
      BY <1>1, <1>2, <1>4, <2>1
    <3> QED
      BY <3>1 DEF described, job
  <2>2. CASE s # n
    <3>1. activeTasks'[s] = activeTasks[s] /\ dogeTasks'[s] = dogeTasks[s]
      BY <1>1, <1>2, <1>4, <2>2
    <3>2. activeTasks[s] \in Jobs /\ activeTasks[s] # job /\ activeTasks[s] # activeTasks[n]
      BY <1>1, <1>6, <2>2, <3>1
    <3>3. accepted'[activeTasks[s]] = accepted[activeTasks[s]]
      BY <1>2, <3>2
    <3> QED
      BY <1>6, <3>1, <3>3 DEF DescribedInv
  <2> QED
    BY <2>1, <2>2
<1> QED
  BY <1>5, <1>6 DEF DescribedInv, Described

LEMMA InitDescribed == Init => DescribedInv
BY DEF Init, DescribedInv

LEMMA NextDescribed == RingInv /\ DescribedInv /\ [Next]_vars => DescribedInv'
<1> SUFFICES ASSUME RingInv, DescribedInv, [Next]_vars PROVE DescribedInv'
  OBVIOUS
<1>1. ASSUME NEW msg \in Messages, AddTask(msg) PROVE DescribedInv'
  BY <1>1, AddTaskDescribes
<1>2. CASE UNCHANGED <<activeTasks, dogeTasks, accepted>>
  BY <1>2 DEF DescribedInv
<1>3. CASE SolutionCall
  BY <1>2, <1>3 DEF SolutionCall, AddSolution, CountSolutionForRevenue
<1>4. CASE UNCHANGED taskVars
  BY <1>2, <1>4 DEF taskVars
<1> QED
  BY <1>1, <1>3, <1>4 DEF Next, vars, QueryCall, WalkOn, StartWalk

LEMMA DescribedAsAdded == DescribedInv => TasksAsAdded
<1> SUFFICES ASSUME DescribedInv, NEW s \in Slots, activeTasks[s] # 0
             PROVE  LET msg == accepted[activeTasks[s]]
                    IN  /\ dogeTasks[s].jobId = activeTasks[s]
                        /\ Value(Byte, dogeTasks[s].target, TargetBytes) = Target(msg.target)
                        /\ \A i \in 1..AdditionalDataSize :
                             dogeTasks[s].data[i] = IF i \in DOMAIN msg.data THEN msg.data[i] ELSE 0
  BY DEF TasksAsAdded
<1> DEFINE msg == accepted[activeTasks[s]]
<1>1. msg \in Messages /\ msg.jobId = activeTasks[s] /\ dogeTasks[s] = Stored(msg)
  BY DEF DescribedInv
<1> HIDE DEF msg
<1>2. /\ Stored(msg).jobId = msg.jobId
      /\ Stored(msg).target = _convertTargetCompactToFull(msg.target)
      /\ Stored(msg).data =
           [i \in 1..AdditionalDataSize |-> IF i <= Len(msg.data) THEN msg.data[i] ELSE 0]
  BY DEF Stored
<1>3. Value(Byte, Stored(msg).target, TargetBytes) = Target(msg.target)
  <2>1. msg.target.exponent \in Nat /\ \A k \in 0..2 : msg.target.mantissa[k] \in 0..(Byte - 1)
    BY <1>1, MessageAssumption
  <2> QED
    BY <1>2, <2>1, ConvertIsTarget
<1>4. \A i \in 1..AdditionalDataSize : i <= Len(msg.data) <=> i \in DOMAIN msg.data
  <2>1. msg.data \in Seq(Nat) /\ AdditionalDataSize \in Nat
    BY <1>1, MessageAssumption
  <2> QED
    BY <2>1
<1> QED
  BY <1>1, <1>2, <1>3, <1>4 DEF msg

\* For every message, number of places, bytes of a target and values of a byte: an
\* active task's stored target is the number its compact form stands for, and its data
\* is the message's, with nothing left of a task that was evicted.
THEOREM SpecTasksAsAdded == Spec => []TasksAsAdded
<1>1. RingInv /\ DescribedInv /\ [Next]_vars => RingInv' /\ DescribedInv'
  BY NextOfLedger, NextDescribed
<1> QED
  BY <1>1, InitRingInv, InitDescribed, DescribedAsAdded, PTL DEF Spec

-----------------------------------------------------------------------------
(* The task file: what is unpacked and parsed is what was packed and          *)
(* serialised, for every dimension and number of trits to a byte.             *)

LEMMA RowAsSeq ==
  ASSUME NEW S, NEW n \in Nat, NEW f \in [1..n -> S]
  PROVE  f \in Seq(S) /\ Len(f) = n
OBVIOUS

LEMMA DivModOf ==
  ASSUME NEW a \in Nat, NEW d \in Nat \ {0}
  PROVE  a \div d \in Nat /\ a % d \in 0..(d - 1) /\ a = (a \div d) * d + (a % d)
<1> DEFINE split(k) == \E q \in Nat, r \in 0..(d - 1) : k = q * d + r
           A == {k \in Nat : split(k)}
<1>1. 0 \in A
  <2>1. 0 \in Nat /\ 0 \in 0..(d - 1) /\ 0 = 0 * d + 0
    OBVIOUS
  <2>2. split(0)
    BY <2>1
  <2> HIDE DEF split
  <2> QED
    BY <2>2
<1>2. ASSUME NEW k \in Nat, k \in A PROVE k + 1 \in A
  <2>1. PICK q \in Nat, r \in 0..(d - 1) : k = q * d + r
    BY <1>2
  <2>2. q * d \in Nat /\ (q + 1) * d = q * d + d
    OBVIOUS
  <2>3. split(k + 1)
    <3>1. CASE r + 1 < d
      <4>1. r + 1 \in 0..(d - 1) /\ k + 1 = q * d + (r + 1)
        BY <2>1, <2>2, <3>1
      <4> QED
        BY <4>1
    <3>2. CASE ~ (r + 1 < d)
      <4>1. q + 1 \in Nat /\ 0 \in 0..(d - 1) /\ k + 1 = (q + 1) * d + 0
        BY <2>1, <2>2, <3>2
      <4> QED
        BY <4>1
    <3> QED
      BY <3>1, <3>2
  <2> HIDE DEF split
  <2> QED
    BY <2>3
<1> HIDE DEF A
<1>3. a \in A
  BY <1>1, <1>2, NatSetInduction
<1>4. PICK q \in Nat, r \in 0..(d - 1) : a = q * d + r
  BY <1>3 DEF A
<1>5. a % d = r /\ a \div d = q
  <2>1. r \in Nat /\ r < d
    OBVIOUS
  <2> QED
    BY <1>4, <2>1, DivMod
<1> QED
  BY <1>4, <1>5

\* The bytes of n trits have room for the byte of each of them.
LEMMA ByteOfTrit ==
  ASSUME NEW n \in Nat, NEW i \in 1..n
  PROVE  /\ (i - 1) \div TritsPerByte + 1 \in 1..PackedBytes(n)
         /\ (i - 1) % TritsPerByte \in 0..(TritsPerByte - 1)
         /\ ((i - 1) \div TritsPerByte) * TritsPerByte + ((i - 1) % TritsPerByte) + 1 = i
<1> DEFINE d == TritsPerByte
           q == (i - 1) \div d
           r == (i - 1) % d
           m == n + (d - 1)
           e == m \div d
<1>1. d \in Nat \ {0} /\ i - 1 \in Nat /\ m \in Nat
  BY FormatAssumption
<1> HIDE DEF d
<1>2. q \in Nat /\ r \in 0..(d - 1) /\ i - 1 = q * d + r
  BY <1>1, DivModOf
<1>3. e \in Nat /\ m % d \in 0..(d - 1) /\ m = e * d + (m % d)
  <2> HIDE DEF m
  <2> QED
    BY <1>1, DivModOf
<1>4. e = PackedBytes(n)
  BY DEF PackedBytes, d
<1> HIDE DEF q, r, e
<1>5. q * d <= n - 1 /\ q * d \in Nat /\ e * d \in Nat
  BY <1>1, <1>2, <1>3
<1>6. q + 1 <= e
  <2>1. SUFFICES ASSUME e <= q PROVE FALSE
    BY <1>2, <1>3
  <2>2. e * d <= q * d
    BY <1>1, <1>2, <1>3, <2>1
  <2>3. m <= q * d + (d - 1)
    BY <1>1, <1>3, <1>5, <2>2
  <2> QED
    BY <1>1, <1>5, <2>3
<1>7. q + 1 \in 1..e /\ q * d + r + 1 = i
  BY <1>1, <1>2, <1>3, <1>5, <1>6
<1>8. q + 1 \in 1..PackedBytes(n)
  BY <1>4, <1>7
<1> QED
  BY <1>2, <1>7, <1>8 DEF q, r, d

LEMMA PackedNat ==
  /\ \A n \in Nat : PackedBytes(n) \in Nat
  /\ InBytes \in Nat /\ OutBytes \in Nat
<1>1. ASSUME NEW n \in Nat PROVE PackedBytes(n) \in Nat
  <2> DEFINE m == n + (TritsPerByte - 1)
  <2>1. m \in Nat /\ TritsPerByte \in Nat \ {0}
    BY FormatAssumption
  <2> HIDE DEF m
  <2>2. m \div TritsPerByte \in Nat
    BY <2>1, DivModOf
  <2> QED
    BY <2>2 DEF PackedBytes, m
<1> QED
  BY <1>1, FormatAssumption DEF InBytes, OutBytes

LEMMA UnpackPacked ==
  ASSUME NEW n \in Nat, NEW trits \in [1..n -> Trit], NEW bytes,
         \A b \in 1..PackedBytes(n) : bytes[b] = PackTrits(trits)[b]
  PROVE  UnpackTrits(bytes, n) = trits
<1>1. SUFFICES ASSUME NEW i \in 1..n PROVE UnpackTrits(bytes, n)[i] = trits[i]
  BY DEF UnpackTrits
<1> DEFINE q == (i - 1) \div TritsPerByte
           r == (i - 1) % TritsPerByte
           digits == [k \in 0..(TritsPerByte - 1) |->
                        IF q * TritsPerByte + k + 1 <= n THEN trits[q * TritsPerByte + k + 1] ELSE 0]
<1>2. q + 1 \in 1..PackedBytes(n) /\ r \in 0..(TritsPerByte - 1) /\ q * TritsPerByte + r + 1 = i
      /\ q \in Nat /\ TritsPerByte \in Nat \ {0}
  <2>1. TritsPerByte \in Nat \ {0} /\ i - 1 \in Nat
    BY FormatAssumption
  <2> QED
    BY <2>1, ByteOfTrit, DivModOf
<1>3. Len(trits) = n
  BY RowAsSeq
<1> HIDE DEF q, r
<1>4. PackTrits(trits)[q + 1] = Value(TritBase, digits, TritsPerByte)
  <2>1. (q + 1) - 1 = q
    BY <1>2
  <2> QED
    BY <1>2, <1>3, <2>1 DEF PackTrits
<1>5. TritBase \in Nat \ {0} /\ \A k \in 0..(TritsPerByte - 1) : digits[k] \in 0..(TritBase - 1)
  <2>1. ASSUME NEW k \in 0..(TritsPerByte - 1) PROVE digits[k] \in 0..2
    <3>1. q * TritsPerByte \in Nat
      BY <1>2
    <3>2. q * TritsPerByte + k + 1 \in Nat \ {0}
      BY <1>2, <3>1
    <3> QED
      BY <3>2 DEF Trit
  <2> QED
    BY <2>1 DEF TritBase
<1>6. digits[r] = trits[i]
  BY <1>2
<1> HIDE DEF digits
<1>7. (Value(TritBase, digits, TritsPerByte) \div Weight(TritBase, r)) % TritBase = trits[i]
  BY <1>2, <1>5, <1>6, DigitOf
<1>8. bytes[q + 1] = Value(TritBase, digits, TritsPerByte)
  BY <1>2, <1>4
<1> QED
  BY <1>7, <1>8 DEF UnpackTrits, q, r

\* Where a byte of a row is in the block.
LEMMA PlaceInBlock ==
  ASSUME NEW p \in Pairs, NEW k \in 1..RowBytes
  PROVE  LET b == (p - 1) * RowBytes + k
         IN  /\ b \in 1..(NumPairs * RowBytes)
             /\ ((b - 1) \div RowBytes) + 1 = p /\ ((b - 1) % RowBytes) + 1 = k
<1> DEFINE w == RowBytes
           b == (p - 1) * w + k
<1>1. InBytes \in Nat /\ OutBytes \in Nat /\ NumPairs \in Nat
  BY FormatAssumption, PackedNat
<1>2. w \in Nat \ {0} /\ k \in 1..w /\ p - 1 \in Nat /\ p <= NumPairs
  BY <1>1 DEF RowBytes, Pairs
<1> HIDE DEF w
<1>3. (p - 1) * w \in Nat /\ (p - 1) * w + w <= NumPairs * w
  <2> DEFINE o == p - 1
  <2>1. o \in Nat /\ o + 1 <= NumPairs
    BY <1>1, <1>2 DEF Pairs
  <2> HIDE DEF o
  <2>2. o * w \in Nat /\ (o + 1) * w = o * w + w
    BY <1>2, <2>1
  <2>3. (o + 1) * w <= NumPairs * w
    BY <1>1, <1>2, <2>1
  <2> QED
    BY <2>2, <2>3 DEF o
<1>4. b \in 1..(NumPairs * w)
  BY <1>1, <1>2, <1>3
<1>5. (b - 1) \div w = p - 1 /\ (b - 1) % w = k - 1
  <2>1. b - 1 = (p - 1) * w + (k - 1) /\ b - 1 \in Nat /\ k - 1 \in Nat /\ k - 1 < w
    BY <1>2, <1>3
  <2> HIDE DEF b
  <2> QED
    BY <1>2, <2>1, DivMod
<1> HIDE DEF b
<1>6. ((b - 1) \div w) + 1 = p /\ ((b - 1) % w) + 1 = k
  BY <1>2, <1>5 DEF Pairs
<1> QED
  BY <1>4, <1>6 DEF w, b

LEMMA DataRoundTrip ==
  ASSUME NEW ins \in [Pairs -> [1..NumInputTrits -> Trit]],
         NEW outs \in [Pairs -> [1..NumOutputTrits -> Trit]]
  PROVE  /\ UnpackInputs(PackDataBlock(ins, outs)) = ins
         /\ UnpackOutputs(PackDataBlock(ins, outs)) = outs
<1> DEFINE block == PackDataBlock(ins, outs)
           S == {block[b] : b \in 1..(NumPairs * RowBytes)}
<1>1. InBytes \in Nat /\ OutBytes \in Nat /\ RowBytes = InBytes + OutBytes /\ NumPairs \in Nat
      /\ NumInputTrits \in Nat /\ NumOutputTrits \in Nat
  BY FormatAssumption, PackedNat DEF RowBytes
<1>2. ASSUME NEW p \in Pairs, NEW k \in 1..RowBytes
      PROVE  /\ block[(p - 1) * RowBytes + k] =
                  IF k <= InBytes THEN PackTrits(ins[p])[k] ELSE PackTrits(outs[p])[k - InBytes]
             /\ block[(p - 1) * RowBytes + k] \in S
  <2> DEFINE b == (p - 1) * RowBytes + k
  <2>1. b \in 1..(NumPairs * RowBytes) /\ ((b - 1) \div RowBytes) + 1 = p
        /\ ((b - 1) % RowBytes) + 1 = k
    BY PlaceInBlock
  <2> HIDE DEF b
  <2>2. block[b] = IF k <= InBytes THEN PackTrits(ins[p])[k] ELSE PackTrits(outs[p])[k - InBytes]
    BY <2>1 DEF PackDataBlock
  <2>3. block[b] \in S
    BY <2>1
  <2> HIDE DEF block, S
  <2> QED
    BY <2>2, <2>3 DEF b
<1> HIDE DEF block, S
<1>3. ASSUME NEW p \in Pairs PROVE UnpackTrits(RowIn(block, p), NumInputTrits) = ins[p]
  <2> DEFINE z == (p - 1) * RowBytes
  <2>0. z \in Nat
    BY <1>1 DEF Pairs
  <2>1. ASSUME NEW k \in 1..InBytes PROVE RowIn(block, p)[k] = PackTrits(ins[p])[k]
    <3>1. \A i \in (z + 1)..(z + InBytes) : block[i] \in S
      <4>1. ASSUME NEW i \in (z + 1)..(z + InBytes) PROVE block[i] \in S
        <5>1. i - z \in 1..RowBytes /\ z + (i - z) = i
          BY <1>1, <2>0
        <5> QED
          BY <1>2, <5>1
      <4> QED
        BY <4>1
    <3>2. k \in 1..((z + InBytes) - (z + 1) + 1) /\ (z + 1) + k - 1 = z + k /\ z + 1 \in Int
          /\ z + InBytes \in Int /\ k \in 1..RowBytes /\ k <= InBytes
      BY <1>1, <2>0
    <3> HIDE DEF z
    <3>3. SubSeq(block, z + 1, z + InBytes)[k] = block[z + k]
      BY <3>1, <3>2, SubSeqProperties
    <3>4. block[z + k] = PackTrits(ins[p])[k]
      BY <1>2, <3>2 DEF z
    <3> QED
      BY <3>3, <3>4 DEF RowIn, z
  <2> QED
    BY <1>1, <2>1, UnpackPacked DEF InBytes
<1>4. ASSUME NEW p \in Pairs PROVE UnpackTrits(RowOut(block, p), NumOutputTrits) = outs[p]
  <2> DEFINE z == (p - 1) * RowBytes
  <2>0. z \in Nat /\ p * RowBytes = z + RowBytes
    BY <1>1 DEF Pairs
  <2>1. ASSUME NEW k \in 1..OutBytes PROVE RowOut(block, p)[k] = PackTrits(outs[p])[k]
    <3>1. \A i \in (z + InBytes + 1)..(z + RowBytes) : block[i] \in S
      <4>1. ASSUME NEW i \in (z + InBytes + 1)..(z + RowBytes) PROVE block[i] \in S
        <5>1. i - z \in 1..RowBytes /\ z + (i - z) = i
          BY <1>1, <2>0
        <5> QED
          BY <1>2, <5>1
      <4> QED
        BY <4>1
    <3> DEFINE j == InBytes + k
    <3>2. k \in 1..((z + RowBytes) - (z + InBytes + 1) + 1)
          /\ (z + InBytes + 1) + k - 1 = z + j /\ z + InBytes + 1 \in Int
          /\ z + RowBytes \in Int /\ j \in 1..RowBytes /\ ~ (j <= InBytes) /\ j - InBytes = k
      BY <1>1, <2>0
    <3> HIDE DEF z, j
    <3>3. SubSeq(block, z + InBytes + 1, z + RowBytes)[k] = block[z + j]
      BY <3>1, <3>2, SubSeqProperties
    <3>4. block[z + j] = PackTrits(outs[p])[k]
      BY <1>2, <3>2 DEF z
    <3> QED
      BY <2>0, <3>3, <3>4 DEF RowOut, z
  <2> QED
    BY <1>1, <2>1, UnpackPacked DEF OutBytes
<1>5. UnpackInputs(block) = ins
  BY <1>3 DEF UnpackInputs
<1>6. UnpackOutputs(block) = outs
  BY <1>4 DEF UnpackOutputs
<1> QED
  BY <1>5, <1>6 DEF block

LEMMA TopologyRoundTrip ==
  ASSUME NEW t \in [input : [1..NumInputTrits -> Neurons],
                    output : [1..NumOutputTrits -> Neurons], signal : Neurons,
                    neighbors : [1..(Population * NumNeighbors) -> Neurons]]
  PROVE  ParseTopologyBlock(SerializeTopologyBlock(t)) = t
<1> DEFINE n == NumInputTrits
           m == NumOutputTrits
           l == Population * NumNeighbors
           a == t.input \o t.output
           b == a \o <<t.signal>>
           block == b \o t.neighbors
<1>1. n \in Nat /\ m \in Nat /\ l \in Nat
  BY FormatAssumption
<1>2. /\ t.input \in Seq(Neurons) /\ Len(t.input) = n
      /\ t.output \in Seq(Neurons) /\ Len(t.output) = m
      /\ t.neighbors \in Seq(Neurons) /\ Len(t.neighbors) = l
      /\ <<t.signal>> \in Seq(Neurons) /\ Len(<<t.signal>>) = 1 /\ <<t.signal>>[1] = t.signal
  BY <1>1, RowAsSeq
<1> HIDE DEF n, m, l
<1>3. /\ a \in Seq(Neurons) /\ Len(a) = n + m
      /\ \A i \in 1..(n + m) : a[i] = IF i <= n THEN t.input[i] ELSE t.output[i - n]
  BY <1>2, ConcatProperties
<1> HIDE DEF a
<1>4. /\ b \in Seq(Neurons) /\ Len(b) = n + m + 1
      /\ \A i \in 1..(n + m + 1) : b[i] = IF i <= n + m THEN a[i] ELSE <<t.signal>>[i - (n + m)]
  BY <1>2, <1>3, ConcatProperties
<1> HIDE DEF b
<1>5. /\ block \in Seq(Neurons) /\ Len(block) = n + m + 1 + l
      /\ \A i \in 1..(n + m + 1 + l) :
           block[i] = IF i <= n + m + 1 THEN b[i] ELSE t.neighbors[i - (n + m + 1)]
  <2> DEFINE c == n + m + 1
  <2>1. b \in Seq(Neurons) /\ Len(b) = c
    BY <1>4
  <2> HIDE DEF c
  <2>2. /\ block \in Seq(Neurons) /\ Len(block) = c + l
        /\ \A i \in 1..(c + l) : block[i] = IF i <= c THEN b[i] ELSE t.neighbors[i - c]
    BY <1>2, <2>1, ConcatProperties
  <2> QED
    BY <2>2 DEF c
<1>6. block = SerializeTopologyBlock(t)
  BY DEF SerializeTopologyBlock, a, b
<1> HIDE DEF block
<1>7. \A i \in 1..Len(block) : block[i] \in Neurons
  BY <1>5
<1>8. SubSeq(block, 1, n) = t.input
  <2>1. ASSUME NEW i \in 1..n PROVE block[i] \in Neurons /\ block[i] = t.input[i]
    <3>1. /\ i \in 1..(n + m) /\ i <= n
          /\ i \in 1..(n + m + 1) /\ i <= n + m
          /\ i \in 1..(n + m + 1 + l) /\ i <= n + m + 1
      BY <1>1
    <3>2. a[i] = t.input[i]
      BY <1>3, <3>1
    <3>3. b[i] = a[i]
      BY <1>4, <3>1
    <3>4. block[i] = b[i] /\ i \in 1..Len(block)
      BY <1>5, <3>1
    <3> QED
      BY <1>7, <3>2, <3>3, <3>4
  <2>2. /\ SubSeq(block, 1, n) \in Seq(Neurons) /\ Len(SubSeq(block, 1, n)) = n
        /\ \A i \in 1..n : SubSeq(block, 1, n)[i] = t.input[i]
    <3>1. 1 \in Int /\ n \in Int /\ n - 1 + 1 = n /\ \A i \in 1..n : 1 + i - 1 = i
      BY <1>1
    <3>2. /\ SubSeq(block, 1, n) \in Seq(Neurons)
          /\ Len(SubSeq(block, 1, n)) = IF 1 <= n THEN n - 1 + 1 ELSE 0
          /\ \A i \in 1..(n - 1 + 1) : SubSeq(block, 1, n)[i] = block[1 + i - 1]
      BY <2>1, <3>1, SubSeqProperties
    <3> QED
      BY <1>1, <2>1, <3>1, <3>2
  <2> QED
    BY <1>2, <2>2, SeqEqual
<1>9. SubSeq(block, n + 1, n + m) = t.output
  <2>1. \A i \in 1..m : block[n + i] \in Neurons /\ block[n + i] = t.output[i]
    <3>1. ASSUME NEW i \in 1..m PROVE block[n + i] \in Neurons /\ block[n + i] = t.output[i]
      <4>1. n + i \in 1..(n + m) /\ n + i \in 1..(n + m + 1) /\ n + i \in 1..(n + m + 1 + l)
            /\ ~ (n + i <= n) /\ n + i <= n + m /\ n + i <= n + m + 1 /\ (n + i) - n = i
        BY <1>1
      <4> QED
        BY <1>3, <1>4, <1>5, <1>7, <4>1
    <3> QED
      BY <3>1
  <2>2. /\ SubSeq(block, n + 1, n + m) \in Seq(Neurons) /\ Len(SubSeq(block, n + 1, n + m)) = m
        /\ \A i \in 1..m : SubSeq(block, n + 1, n + m)[i] = t.output[i]
    <3>1. n + 1 \in Int /\ n + m \in Int /\ (n + m) - (n + 1) + 1 = m
          /\ \A i \in 1..m : (n + 1) + i - 1 = n + i
      BY <1>1
    <3>2. \A i \in (n + 1)..(n + m) : block[i] \in Neurons
      BY <1>1, <1>5, <1>7
    <3>3. /\ SubSeq(block, n + 1, n + m) \in Seq(Neurons)
          /\ Len(SubSeq(block, n + 1, n + m)) =
               IF n + 1 <= n + m THEN (n + m) - (n + 1) + 1 ELSE 0
          /\ \A i \in 1..((n + m) - (n + 1) + 1) :
               SubSeq(block, n + 1, n + m)[i] = block[(n + 1) + i - 1]
      BY <3>1, <3>2, SubSeqProperties
    <3> QED
      BY <1>1, <2>1, <3>1, <3>3
  <2> DEFINE part == SubSeq(block, n + 1, n + m)
  <2>3. part \in Seq(Neurons) /\ Len(part) = Len(t.output)
        /\ \A i \in 1..Len(part) : part[i] = t.output[i]
    BY <1>2, <2>2
  <2> HIDE DEF part
  <2>4. part = t.output
    BY <1>2, <2>3, SeqEqual
  <2> QED
    BY <2>4 DEF part
<1>10. block[n + m + 1] = t.signal
  <2>1. n + m + 1 \in 1..(n + m + 1) /\ n + m + 1 \in 1..(n + m + 1 + l)
        /\ ~ (n + m + 1 <= n + m) /\ (n + m + 1) - (n + m) = 1 /\ n + m + 1 <= n + m + 1
    BY <1>1
  <2> QED
    BY <1>2, <1>4, <1>5, <2>1
<1>11. SubSeq(block, n + m + 2, Len(block)) = t.neighbors
  <2> DEFINE z == n + m + 1
  <2>0. z \in Nat /\ n + m + 2 = z + 1 /\ Len(block) = z + l
    BY <1>1, <1>5
  <2>1. \A i \in 1..l : block[z + i] \in Neurons /\ block[z + i] = t.neighbors[i]
    <3>1. ASSUME NEW i \in 1..l PROVE block[z + i] \in Neurons /\ block[z + i] = t.neighbors[i]
      <4>1. z + i \in 1..(n + m + 1 + l) /\ ~ (z + i <= n + m + 1) /\ (z + i) - (n + m + 1) = i
        BY <1>1
      <4> QED
        BY <1>5, <1>7, <4>1
    <3> QED
      BY <3>1
  <2> HIDE DEF z
  <2>2. /\ SubSeq(block, z + 1, z + l) \in Seq(Neurons) /\ Len(SubSeq(block, z + 1, z + l)) = l
        /\ \A i \in 1..l : SubSeq(block, z + 1, z + l)[i] = t.neighbors[i]
    <3>1. z + 1 \in Int /\ z + l \in Int /\ (z + l) - (z + 1) + 1 = l
          /\ \A i \in 1..l : (z + 1) + i - 1 = z + i
      BY <1>1, <2>0
    <3>2. \A i \in (z + 1)..(z + l) : block[i] \in Neurons
      BY <1>1, <1>7, <2>0
    <3>3. /\ SubSeq(block, z + 1, z + l) \in Seq(Neurons)
          /\ Len(SubSeq(block, z + 1, z + l)) = IF z + 1 <= z + l THEN (z + l) - (z + 1) + 1 ELSE 0
          /\ \A i \in 1..((z + l) - (z + 1) + 1) :
               SubSeq(block, z + 1, z + l)[i] = block[(z + 1) + i - 1]
      BY <3>1, <3>2, SubSeqProperties
    <3> QED
      BY <1>1, <2>0, <2>1, <3>1, <3>3
  <2> QED
    BY <1>2, <2>0, <2>2, SeqEqual
<1>12. ParseTopologyBlock(block) =
         [input |-> t.input, output |-> t.output, signal |-> t.signal, neighbors |-> t.neighbors]
  BY <1>8, <1>9, <1>10, <1>11 DEF ParseTopologyBlock, n, m
<1> QED
  BY <1>6, <1>12

-----------------------------------------------------------------------------
(* The updated neurons in ascending order, by counting those below each.      *)

Below(S, x) == Cardinality({m \in S : m < x})

LEMMA NeuronsAre ==
  Population \in Nat /\ Neurons = 0..(Population - 1)
  /\ IsFiniteSet(Neurons) /\ Cardinality(Neurons) = Population
<1>1. Population \in Nat
  BY FormatAssumption
<1>2. 0 \in Int /\ Population - 1 \in Int
      /\ (IF 0 > Population - 1 THEN 0 ELSE (Population - 1) - 0 + 1) = Population
  BY <1>1
<1>3. IsFiniteSet(0..(Population - 1))
      /\ Cardinality(0..(Population - 1)) = IF 0 > Population - 1 THEN 0 ELSE (Population - 1) - 0 + 1
  BY <1>2, FS_Interval
<1> QED
  BY <1>1, <1>2, <1>3 DEF Neurons

LEMMA BelowGrows ==
  ASSUME NEW S \in SUBSET Neurons
  PROVE  /\ IsFiniteSet(S) /\ Cardinality(S) \in Nat
         /\ Below(S, 0) = 0 /\ Below(S, Population) = Cardinality(S)
         /\ \A x \in Nat : /\ Below(S, x) \in Nat
                           /\ Below(S, x + 1) = IF x \in S THEN Below(S, x) + 1 ELSE Below(S, x)
         /\ \A x, y \in Nat : x <= y => Below(S, x) <= Below(S, y)
<1>1. IsFiniteSet(S) /\ Cardinality(S) \in Nat
  BY NeuronsAre, FS_Subset, FS_CardinalityType
<1>2. \A n \in S : n \in Nat /\ n < Population
  BY NeuronsAre
<1>3. ASSUME NEW x \in Nat PROVE IsFiniteSet({m \in S : m < x}) /\ Below(S, x) \in Nat
  <2>1. {m \in S : m < x} \in SUBSET S
    OBVIOUS
  <2>2. IsFiniteSet({m \in S : m < x})
    BY <1>1, <2>1, FS_Subset
  <2> QED
    BY <2>2, FS_CardinalityType DEF Below
<1>4. Below(S, 0) = 0
  <2>1. {m \in S : m < 0} = {}
    BY <1>2
  <2> QED
    BY <2>1, FS_EmptySet DEF Below
<1>5. Below(S, Population) = Cardinality(S)
  <2>1. {m \in S : m < Population} = S
    BY <1>2
  <2> QED
    BY <2>1 DEF Below
<1>6. ASSUME NEW x \in Nat
      PROVE  Below(S, x + 1) = IF x \in S THEN Below(S, x) + 1 ELSE Below(S, x)
  <2> DEFINE T == {m \in S : m < x}
  <2>1. CASE x \in S
    <3>1. {m \in S : m < x + 1} = T \cup {x}
      <4>1. \A m \in S : m < x + 1 <=> m < x \/ m = x
        BY <1>2
      <4> QED
        BY <2>1, <4>1
    <3>2. x \notin T /\ IsFiniteSet(T)
      BY <1>3
    <3> HIDE DEF T
    <3>3. Cardinality(T \cup {x}) = Cardinality(T) + 1
      BY <3>2, FS_AddElement
    <3> QED
      BY <2>1, <3>1, <3>3 DEF Below, T
  <2>2. CASE x \notin S
    <3>1. {m \in S : m < x + 1} = T
      BY <1>2, <2>2
    <3> QED
      BY <2>2, <3>1 DEF Below
  <2> QED
    BY <2>1, <2>2
<1>7. ASSUME NEW x \in Nat, NEW y \in Nat, x <= y PROVE Below(S, x) <= Below(S, y)
  <2>1. {m \in S : m < x} \in SUBSET {m \in S : m < y}
    BY <1>2, <1>7
  <2>2. IsFiniteSet({m \in S : m < y})
    BY <1>3
  <2> QED
    BY <2>1, <2>2, FS_Subset DEF Below
<1> QED
  BY <1>1, <1>3, <1>4, <1>5, <1>6, <1>7

\* There is an element with any count that is reached below x.
LEMMA CountReached ==
  ASSUME NEW S \in SUBSET Neurons, NEW x \in Nat, NEW k \in 1..Below(S, x)
  PROVE  \E n \in S : Below(S, n) = k - 1
<1> DEFINE reached(y) == \A j \in 1..Below(S, y) : \E n \in S : Below(S, n) = j - 1
           A == {y \in Nat : reached(y)}
<1>1. 0 \in A
  BY BelowGrows
<1>2. ASSUME NEW y \in Nat, y \in A PROVE y + 1 \in A
  <2>1. Below(S, y) \in Nat /\ Below(S, y + 1) = IF y \in S THEN Below(S, y) + 1 ELSE Below(S, y)
    BY BelowGrows
  <2>2. ASSUME NEW j \in 1..Below(S, y + 1) PROVE \E n \in S : Below(S, n) = j - 1
    <3>1. j \in 1..Below(S, y) \/ (y \in S /\ Below(S, y) = j - 1)
      BY <2>1
    <3> QED
      BY <1>2, <3>1
  <2> QED
    BY <2>2
<1> HIDE DEF A
<1>3. x \in A
  BY <1>1, <1>2, NatSetInduction
<1> QED
  BY <1>3 DEF A

LEMMA AscendingIs ==
  ASSUME NEW S \in SUBSET Neurons
  PROVE  /\ Cardinality(S) \in Nat
         /\ Ascending(S) \in [1..Cardinality(S) -> S]
         /\ Len(Ascending(S)) = Cardinality(S)
         /\ \A j, k \in 1..Cardinality(S) : j < k => Ascending(S)[j] < Ascending(S)[k]
         /\ {Ascending(S)[k] : k \in 1..Cardinality(S)} = S
<1> DEFINE c == Cardinality(S)
           a == Ascending(S)
<1>1. c \in Nat /\ Population \in Nat /\ S \subseteq Nat
  BY BelowGrows, NeuronsAre
<1>2. ASSUME NEW k \in 1..c PROVE a[k] \in S /\ Below(S, a[k]) = k - 1
  <2>1. k \in 1..Below(S, Population)
    BY BelowGrows
  <2>2. \E n \in S : Below(S, n) = k - 1
    BY <1>1, <2>1, CountReached
  <2>3. a[k] = CHOOSE n \in S : Below(S, n) = k - 1
    BY DEF Ascending, Below
  <2> HIDE DEF a
  <2> QED
    BY <2>2, <2>3
<1>3. a = [k \in 1..c |-> a[k]]
  BY DEF Ascending
<1> HIDE DEF a, c
<1>4. a \in [1..c -> S]
  BY <1>2, <1>3
<1>5. Len(a) = c
  BY <1>1, <1>4, RowAsSeq
<1>6. ASSUME NEW j \in 1..c, NEW k \in 1..c, j < k PROVE a[j] < a[k]
  <2>1. a[j] \in Nat /\ a[k] \in Nat
    BY <1>1, <1>2
  <2>2. SUFFICES ASSUME a[k] <= a[j] PROVE FALSE
    BY <2>1
  <2>3. Below(S, a[k]) <= Below(S, a[j])
    BY <2>1, <2>2, BelowGrows
  <2> QED
    BY <1>1, <1>2, <1>6, <2>3
<1>7. ASSUME NEW n \in S PROVE \E k \in 1..c : a[k] = n
  <2> DEFINE k == Below(S, n) + 1
  <2>1. n \in Nat /\ n < Population /\ n + 1 \in Nat /\ n + 1 <= Population
    BY NeuronsAre
  <2>2. Below(S, n) \in Nat /\ Below(S, n + 1) = Below(S, n) + 1
        /\ Below(S, n + 1) <= Below(S, Population) /\ Below(S, Population) = c
    BY <1>1, <2>1, BelowGrows DEF c
  <2>3. k \in 1..c
    BY <1>1, <2>2
  <2>4. a[k] \in S /\ Below(S, a[k]) = Below(S, n)
    BY <1>2, <2>2, <2>3
  <2>5. a[k] = n
    <3> DEFINE m == a[k]
    <3>0. m \in S /\ Below(S, m) = Below(S, n)
      BY <2>4
    <3> HIDE DEF m, k
    <3>1. m \in S /\ m \in Nat /\ Below(S, m) = Below(S, n) /\ m + 1 \in Nat
      BY <1>1, <3>0
    <3>2. Below(S, m + 1) = Below(S, m) + 1
      BY <3>1, BelowGrows
    <3>3. ~ (m < n)
      <4>1. SUFFICES ASSUME m + 1 <= n PROVE FALSE
        BY <2>1, <3>1
      <4>2. Below(S, m + 1) <= Below(S, n)
        BY <2>1, <3>1, <4>1, BelowGrows
      <4> QED
        BY <2>2, <3>1, <3>2, <4>2
    <3>4. ~ (n < m)
      <4>1. SUFFICES ASSUME n + 1 <= m PROVE FALSE
        BY <2>1, <3>1
      <4>2. Below(S, n + 1) <= Below(S, m)
        BY <2>1, <3>1, <4>1, BelowGrows
      <4> QED
        BY <2>2, <3>1, <4>2
    <3>5. m = n
      BY <2>1, <3>1, <3>3, <3>4
    <3> QED
      BY <3>5 DEF m
  <2> QED
    BY <2>3, <2>5
<1>8. {a[k] : k \in 1..c} = S
  BY <1>2, <1>7
<1> QED
  BY <1>1, <1>4, <1>5, <1>6, <1>8 DEF a, c

-----------------------------------------------------------------------------
(* Loading.  The header read first fixes, by its hashes, the file all the     *)
(* rest is taken from; a file that is of no task is refused on the way.       *)

Topology == [input : [1..NumInputTrits -> Neurons], output : [1..NumOutputTrits -> Neurons],
             signal : Neurons, neighbors : [1..(Population * NumNeighbors) -> Neurons]]

NotInput(t) == {n \in Neurons : NeuronTypes(t)[n] # "input"}

\* A valid topology has as many input neurons as input trits, and neither its output
\* nor its signal is among them.
LEMMA ValidRoles ==
  ASSUME NEW t \in Topology, ValidTopology(t)
  PROVE  /\ \A i \in 1..NumInputTrits : NeuronTypes(t)[t.input[i]] = "input"
         /\ NotInput(t) = Neurons \ {t.input[i] : i \in 1..NumInputTrits}
         /\ Cardinality(NotInput(t)) = Population - NumInputTrits
         /\ t.output[1] \in NotInput(t) /\ t.signal \in NotInput(t)
<1> DEFINE n == NumInputTrits
           m == NumOutputTrits
           a == t.input \o t.output
           placed == a \o <<t.signal>>
           I == {t.input[i] : i \in 1..n}
<1>1. n \in Nat /\ m = 1 /\ Population \in Nat /\ n <= Population
  BY FormatAssumption
<1>2. /\ t.input \in Seq(Neurons) /\ Len(t.input) = n /\ t.input \in [1..n -> Neurons]
      /\ t.output \in Seq(Neurons) /\ Len(t.output) = m /\ t.output \in [1..m -> Neurons]
      /\ <<t.signal>> \in Seq(Neurons) /\ Len(<<t.signal>>) = 1 /\ <<t.signal>>[1] = t.signal
      /\ t.signal \in Neurons /\ DOMAIN t.input = 1..n /\ DOMAIN t.output = 1..m
  <2>1. /\ t.input \in [1..n -> Neurons] /\ t.output \in [1..m -> Neurons]
        /\ t.signal \in Neurons
    BY DEF Topology
  <2>2. n \in Nat /\ m \in Nat
    BY <1>1
  <2> HIDE DEF n, m
  <2>3. t.input \in Seq(Neurons) /\ Len(t.input) = n
    BY <2>1, <2>2, RowAsSeq
  <2>4. t.output \in Seq(Neurons) /\ Len(t.output) = m
    BY <2>1, <2>2, RowAsSeq
  <2>5. /\ <<t.signal>> \in Seq(Neurons) /\ Len(<<t.signal>>) = 1
        /\ <<t.signal>>[1] = t.signal
    BY <2>1
  <2> QED
    BY <2>1, <2>3, <2>4, <2>5
<1> HIDE DEF n, m
<1>3. /\ a \in Seq(Neurons) /\ Len(a) = n + 1
      /\ \A i \in 1..(n + 1) : a[i] = IF i <= n THEN t.input[i] ELSE t.output[i - n]
  <2>1. /\ a \in Seq(Neurons) /\ Len(a) = Len(t.input) + Len(t.output)
        /\ \A i \in 1..(Len(t.input) + Len(t.output)) :
             a[i] = IF i <= Len(t.input) THEN t.input[i] ELSE t.output[i - Len(t.input)]
    BY <1>2, ConcatProperties
  <2> HIDE DEF a
  <2> QED
    BY <1>1, <1>2, <2>1
<1> HIDE DEF a
<1>4. /\ placed \in Seq(Neurons) /\ Len(placed) = n + 2
      /\ \A i \in 1..(n + 2) : placed[i] = IF i <= n + 1 THEN a[i] ELSE t.signal
  <2> DEFINE s == <<t.signal>>
  <2>1. s \in Seq(Neurons) /\ Len(s) = 1 /\ s[1] = t.signal
    BY <1>2
  <2> HIDE DEF s
  <2>2. /\ a \o s \in Seq(Neurons) /\ Len(a \o s) = Len(a) + Len(s)
        /\ \A i \in 1..(Len(a) + Len(s)) :
             (a \o s)[i] = IF i <= Len(a) THEN a[i] ELSE s[i - Len(a)]
    BY <1>3, <2>1, ConcatProperties
  <2>3. placed = a \o s
    BY DEF s
  <2> HIDE DEF placed
  <2>4. placed \in Seq(Neurons) /\ Len(placed) = n + 2
    BY <1>1, <1>3, <2>1, <2>2, <2>3
  <2>5. ASSUME NEW i \in 1..(n + 2)
        PROVE  placed[i] = IF i <= n + 1 THEN a[i] ELSE t.signal
    <3>1. i \in 1..(Len(a) + Len(s)) /\ (~ (i <= n + 1) => i - Len(a) = 1) /\ Len(a) = n + 1
      BY <1>1, <1>3, <2>1
    <3> QED
      BY <2>1, <2>2, <2>3, <3>1
  <2> QED
    BY <2>4, <2>5
<1>5. \A i, j \in DOMAIN placed : i # j => placed[i] # placed[j]
  BY DEF ValidTopology, a
<1>6. DOMAIN placed = 1..(n + 2)
  BY <1>4
<1> HIDE DEF placed
<1>7. \A i \in 1..n : placed[i] = t.input[i]
  BY <1>1, <1>3, <1>4
<1>8. placed[n + 1] = t.output[1] /\ placed[n + 2] = t.signal
  BY <1>1, <1>2, <1>3, <1>4
<1>9. ASSUME NEW i \in 1..n
      PROVE  /\ t.input[i] # t.output[1] /\ t.input[i] # t.signal
             /\ \A j \in 1..n : i # j => t.input[i] # t.input[j]
  <2>1. i \in 1..(n + 2) /\ n + 1 \in 1..(n + 2) /\ n + 2 \in 1..(n + 2)
        /\ i # n + 1 /\ i # n + 2 /\ \A j \in 1..n : j \in 1..(n + 2)
    BY <1>1
  <2> QED
    BY <1>5, <1>6, <1>7, <1>8, <2>1
<1>10. t.output[1] # t.signal
  <2>1. n + 1 \in 1..(n + 2) /\ n + 2 \in 1..(n + 2) /\ n + 1 # n + 2
    BY <1>1
  <2> QED
    BY <1>5, <1>6, <1>8, <2>1
<1>11. ASSUME NEW x \in Neurons
       PROVE  NeuronTypes(t)[x] = IF x = t.output[1] THEN "output"
                                  ELSE IF x \in I THEN "input" ELSE "evolution"
  <2>1. (\E i \in DOMAIN t.output : t.output[i] = x) <=> x = t.output[1]
    BY <1>1, <1>2
  <2>2. (\E i \in DOMAIN t.input : t.input[i] = x) <=> x \in I
    BY <1>2
  <2> DEFINE isOutput == \E i \in DOMAIN t.output : t.output[i] = x
             isInput == \E i \in DOMAIN t.input : t.input[i] = x
  <2>3. NeuronTypes(t)[x] = CASE isOutput -> "output" [] isInput -> "input"
                              [] OTHER -> "evolution"
    BY DEF NeuronTypes
  <2>4. isOutput <=> x = t.output[1]
    BY <2>1
  <2>5. isInput <=> x \in I
    BY <2>2
  <2>6. x = t.output[1] => x \notin I
    BY <1>9
  <2> HIDE DEF I, isOutput, isInput
  <2> QED
    BY <2>3, <2>4, <2>5, <2>6
<1>12. t.output[1] \in Neurons /\ t.output[1] \notin I /\ t.signal \notin I /\ I \subseteq Neurons
  BY <1>1, <1>2, <1>9
<1>13. \A i \in 1..n : t.input[i] \in I
  OBVIOUS
<1>14. IsFiniteSet(I) /\ Cardinality(I) = n
  <2> DEFINE f == [i \in 1..n |-> t.input[i]]
  <2>1. f \in Bijection(1..n, I)
    <3>1. f \in [1..n -> I] /\ \A i \in 1..n : f[i] = t.input[i]
      OBVIOUS
    <3>2. \A y \in I : \E i \in 1..n : f[i] = y
      OBVIOUS
    <3> HIDE DEF f, I
    <3>3. f \in Injection(1..n, I)
      <4>1. \A x, y \in 1..n : f[x] = f[y] => x = y
        BY <1>9, <3>1
      <4> QED
        BY <3>1, <4>1 DEF Injection, IsInjective
    <3>4. f \in Surjection(1..n, I)
      BY <3>1, <3>2 DEF Surjection
    <3> QED
      BY <3>3, <3>4 DEF Bijection
  <2>2. ExistsBijection(1..n, I)
    BY <2>1 DEF ExistsBijection
  <2>3. IsFiniteSet(1..n) /\ Cardinality(1..n) = n
    <3>1. 1 \in Int /\ n \in Int /\ (IF 1 > n THEN 0 ELSE n - 1 + 1) = n
      BY <1>1
    <3>2. IsFiniteSet(1..n) /\ Cardinality(1..n) = IF 1 > n THEN 0 ELSE n - 1 + 1
      BY <3>1, FS_Interval
    <3> QED
      BY <3>1, <3>2
  <2> HIDE DEF I
  <2> QED
    BY <2>2, <2>3, FS_Bijection
<1> HIDE DEF I
<1>15. NotInput(t) = Neurons \ I
  BY <1>11, <1>12 DEF NotInput
<1>16. Cardinality(Neurons \ I) = Population - n
  <2>1. Cardinality(Neurons \ I) = Cardinality(Neurons) - Cardinality(Neurons \cap I)
    BY NeuronsAre, FS_Difference
  <2>2. Neurons \cap I = I
    BY <1>12
  <2> QED
    BY <1>14, <2>1, <2>2, NeuronsAre
<1>17. \A i \in 1..n : NeuronTypes(t)[t.input[i]] = "input"
  BY <1>2, <1>9, <1>11, <1>13
<1> QED
  BY <1>2, <1>12, <1>15, <1>16, <1>17 DEF n, I

TaskTaken ==
  \E task \in Tasks :
    /\ MinerHas(task) /\ ValidTopology(task.topology)
    /\ neuronTypes = NeuronTypes(task.topology)
    /\ updatedNeuronIndices = UpdatedNeurons(neuronTypes)

LoaderInv ==
  /\ disk \in [file : Files, written : 0..3]
  /\ pc \in {"topology", "data"} =>
       \E f \in Files : header = f.header /\ f.header.dims = Dimensions
  /\ pc = "data" => topology = ParseTopologyBlock(header.topologyHash) /\ ValidTopology(topology)
  /\ pc \in {"gpu", "mining"} => TaskTaken
  /\ gpu # None => \E task \in Tasks : GpuHas(gpu, task)

\* Every file is of a task or refused; either way its hashes are those of its blocks.
LEMMA FileIsOfTask ==
  ASSUME NEW f \in Files, f.header.dims = Dimensions,
         ValidTopology(ParseTopologyBlock(f.header.topologyHash)), ~Malformed(f.header.dataHash)
  PROVE  \E task \in Tasks :
           /\ ParseTopologyBlock(f.header.topologyHash) = task.topology
           /\ UnpackInputs(f.header.dataHash) = task.inputs
           /\ UnpackOutputs(f.header.dataHash) = task.outputs
<1>1. f \notin OtherFiles
  BY FilesAssumption
<1>2. PICK task \in Tasks : f = FileOf(task)
  BY <1>1 DEF Files
<1>3. /\ f.header.topologyHash = SerializeTopologyBlock(task.topology)
      /\ f.header.dataHash = PackDataBlock(task.inputs, task.outputs)
  BY <1>2 DEF FileOf, FileOfBlocks
<1>4. /\ task.topology \in Topology
      /\ task.inputs \in [Pairs -> [1..NumInputTrits -> Trit]]
      /\ task.outputs \in [Pairs -> [1..NumOutputTrits -> Trit]]
  BY FilesAssumption DEF Topology
<1>5. ParseTopologyBlock(f.header.topologyHash) = task.topology
  BY <1>3, <1>4, TopologyRoundTrip DEF Topology
<1>6. /\ UnpackInputs(f.header.dataHash) = task.inputs
      /\ UnpackOutputs(f.header.dataHash) = task.outputs
  BY <1>3, <1>4, DataRoundTrip
<1> QED
  BY <1>5, <1>6

LEMMA InitLoader == LoaderInit => LoaderInv
BY DEF LoaderInit, LoaderInv, Files

LEMMA ReadDataKeeps == LoaderInv /\ ReadData => LoaderInv'
<1> SUFFICES ASSUME LoaderInv, ReadData PROVE LoaderInv'
  OBVIOUS
<1>1. PICK f \in Files : header = f.header /\ f.header.dims = Dimensions
  BY DEF LoaderInv, ReadData
<1>2. /\ disk.file.dataBlock = f.header.dataHash /\ ~Malformed(f.header.dataHash)
      /\ topology = ParseTopologyBlock(f.header.topologyHash) /\ ValidTopology(topology)
  BY <1>1 DEF ReadData, DataAsHashed, LoaderInv
<1>3. PICK task \in Tasks :
        /\ topology = task.topology
        /\ UnpackInputs(f.header.dataHash) = task.inputs
        /\ UnpackOutputs(f.header.dataHash) = task.outputs
  BY <1>1, <1>2, FileIsOfTask
<1>4. TaskTaken'
  <2>1. /\ topology' = task.topology /\ inputs' = task.inputs /\ outputs' = task.outputs
        /\ neuronTypes' = NeuronTypes(task.topology)
        /\ updatedNeuronIndices' = UpdatedNeurons(neuronTypes')
        /\ ValidTopology(task.topology)
    BY <1>2, <1>3 DEF ReadData, DeriveNeuronRoles
  <2> QED
    BY <2>1 DEF TaskTaken, MinerHas
<1>5. gpu' = gpu /\ disk' = disk /\ pc' \in {"gpu", "mining"}
  BY DEF ReadData
<1>6. gpu' # None => \E t \in Tasks : GpuHas(gpu', t)
  BY <1>5 DEF LoaderInv
<1> QED
  BY <1>4, <1>5, <1>6 DEF LoaderInv

LEMMA GpuInitMakes ==
  ASSUME LoaderInv, GpuInit
  PROVE  \E task \in Tasks : GpuHas(gpu', task)
<1>1. PICK task \in Tasks :
        /\ MinerHas(task) /\ ValidTopology(task.topology)
        /\ neuronTypes = NeuronTypes(task.topology)
        /\ updatedNeuronIndices = UpdatedNeurons(neuronTypes)
  BY DEF LoaderInv, GpuInit, TaskTaken
<1> DEFINE t == task.topology
           S == NotInput(t)
           c == Cardinality(S)
           rows == updatedNeuronIndices
<1>2. t \in Topology /\ task.inputs \in [Pairs -> [1..NumInputTrits -> Trit]]
      /\ task.outputs \in [Pairs -> [1..NumOutputTrits -> Trit]]
  BY FilesAssumption DEF Topology
<1>3. topology = t /\ inputs = task.inputs /\ outputs = task.outputs
  BY <1>1 DEF MinerHas
<1>4. rows = Ascending(S)
  BY <1>1 DEF UpdatedNeurons, NotInput
<1>5. S = Neurons \ {t.input[i] : i \in 1..NumInputTrits}
  BY <1>1, <1>2, ValidRoles
<1> HIDE DEF S, t
<1>6. rows \in [1..c -> S] /\ {rows[k] : k \in 1..c} = S
  <2>1. S \in SUBSET Neurons
    BY <1>5
  <2>2. Ascending(S) \in [1..c -> S] /\ {Ascending(S)[k] : k \in 1..c} = S
    BY <2>1, AscendingIs
  <2> QED
    BY <1>4, <2>2
<1> HIDE DEF c
<1>7. /\ gpu'.rows = rows /\ gpu'.signal = t.signal /\ gpu'.output = t.output[1]
      /\ gpu'.wires = [k \in DOMAIN rows |->
            SubSeq(t.neighbors, rows[k] * NumNeighbors + 1, (rows[k] + 1) * NumNeighbors)]
      /\ gpu'.feed = [p \in Pairs |-> {<<t.input[i], inputs[p][i]>> : i \in 1..NumInputTrits}]
      /\ gpu'.expect = [w \in 1..(NumPairs - WindowWidth) |-> outputs[w + WindowWidth][1]]
  BY <1>3 DEF GpuInit
<1>8. DOMAIN t.input = 1..NumInputTrits /\ DOMAIN rows = 1..c
  BY <1>2, <1>6 DEF Topology
<1>9. {gpu'.rows[k] : k \in DOMAIN gpu'.rows} = Neurons \ {t.input[i] : i \in DOMAIN t.input}
  BY <1>5, <1>6, <1>7, <1>8
<1>10. ASSUME NEW k \in DOMAIN rows, NEW i \in 1..NumNeighbors
       PROVE  gpu'.wires[k][i] = t.neighbors[rows[k] * NumNeighbors + i]
  <2> DEFINE n == rows[k]
             lo == n * NumNeighbors
             hi == (n + 1) * NumNeighbors
  <2>1. n \in Nat /\ n + 1 <= Population /\ NumNeighbors \in Nat /\ Population \in Nat
    BY <1>5, <1>6, <1>8, NeuronsAre, FormatAssumption
  <2> HIDE DEF n
  <2>2. lo \in Nat /\ hi = lo + NumNeighbors /\ hi <= Population * NumNeighbors
    <3>1. hi <= Population * NumNeighbors
      BY <2>1
    <3>2. lo \in Nat /\ hi = lo + NumNeighbors
      BY <2>1
    <3> QED
      BY <3>1, <3>2
  <2> HIDE DEF lo, hi
  <2>3. \A j \in (lo + 1)..hi : t.neighbors[j] \in Neurons
    <3>1. \A j \in (lo + 1)..hi : j \in 1..(Population * NumNeighbors)
      BY <2>1, <2>2
    <3> QED
      BY <1>2, <3>1 DEF Topology
  <2>4. lo + 1 \in Int /\ hi \in Int /\ i \in 1..(hi - (lo + 1) + 1) /\ (lo + 1) + i - 1 = lo + i
    BY <2>1, <2>2
  <2>5. SubSeq(t.neighbors, lo + 1, hi)[i] = t.neighbors[lo + i]
    BY <2>3, <2>4, SubSeqProperties
  <2>6. gpu'.wires[k] = SubSeq(t.neighbors, lo + 1, hi)
    BY <1>7 DEF lo, hi, n
  <2> QED
    BY <2>5, <2>6 DEF lo, n
<1>11. \A p \in Pairs, i \in DOMAIN t.input : <<t.input[i], task.inputs[p][i]>> \in gpu'.feed[p]
  BY <1>3, <1>7, <1>8
<1>12. ASSUME NEW p \in (WindowWidth + 1)..NumPairs
       PROVE  gpu'.expect[p - WindowWidth] = task.outputs[p][1]
  <2>1. p - WindowWidth \in 1..(NumPairs - WindowWidth) /\ (p - WindowWidth) + WindowWidth = p
    BY LoaderAssumption, FormatAssumption
  <2> QED
    BY <1>3, <1>7, <2>1
<1>13. GpuHas(gpu', task)
  BY <1>7, <1>9, <1>10, <1>11, <1>12 DEF GpuHas, t
<1> QED
  BY <1>13

LEMMA NextLoader == LoaderInv /\ [LoaderNext]_loaderVars => LoaderInv'
<1> SUFFICES ASSUME LoaderInv, [LoaderNext]_loaderVars PROVE LoaderInv'
  OBVIOUS
<1> USE DEF LoaderInv
<1>1. CASE Truncate
  BY <1>1 DEF Truncate, minerVars, TaskTaken, MinerHas
<1>2. CASE WritePart
  BY <1>2 DEF WritePart, minerVars, TaskTaken, MinerHas
<1>3. CASE ReadHeader
  <2>1. disk.file \in Files /\ header' = disk.file.header /\ header'.dims = Dimensions
    BY <1>3 DEF ReadHeader
  <2> QED
    BY <1>3, <2>1 DEF ReadHeader, minerVars
<1>4. CASE ReadTopology
  <2>1. topology' = ParseTopologyBlock(header.topologyHash)
        /\ pc' = IF ValidTopology(topology') THEN "data" ELSE "failed"
    BY <1>4 DEF ReadTopology, TopologyAsHashed
  <2>2. header' = header /\ gpu' = gpu /\ disk' = disk /\ pc = "topology"
    BY <1>4 DEF ReadTopology
  <2> QED
    BY <2>1, <2>2
<1>5. CASE ReadData
  BY <1>5, ReadDataKeeps
<1>6. CASE LoadFails
  BY <1>6 DEF LoadFails
<1>7. CASE GpuInit
  <2>1. \E task \in Tasks : GpuHas(gpu', task)
    BY <1>7, GpuInitMakes
  <2>2. TaskTaken'
    BY <1>7 DEF GpuInit, minerVars, TaskTaken, MinerHas
  <2>3. disk' = disk /\ pc' = "mining"
    BY <1>7 DEF GpuInit
  <2> QED
    BY <2>1, <2>2, <2>3
<1>8. CASE Rekey
  BY <1>8 DEF Rekey
<1>9. CASE UNCHANGED loaderVars
  BY <1>9 DEF loaderVars, minerVars, TaskTaken, MinerHas
<1> QED
  BY <1>1, <1>2, <1>3, <1>4, <1>5, <1>6, <1>7, <1>8, <1>9 DEF LoaderNext

\* For every set of tasks, every format and however the file is replaced while it is
\* read: what the miner has is one author's task, and so is what the GPU was given.
THEOREM SpecLoadedIsOneTask == LoaderSpec => []LoadedIsOneTask
<1>1. LoaderInv => LoadedIsOneTask
  BY DEF LoaderInv, LoadedIsOneTask, TaskTaken
<1> QED
  BY <1>1, InitLoader, NextLoader, PTL DEF LoaderSpec

\* After any number of loads the updated neurons are the others than the inputs, each
\* once and in ascending order, output and signal among them.
THEOREM SpecRolesFitTopology == LoaderSpec => []RolesFitTopology
<1>1. LoaderInv => RolesFitTopology
  <2> SUFFICES ASSUME LoaderInv, pc \in {"gpu", "mining"} PROVE RolesFitTopology
    BY DEF RolesFitTopology
  <2>1. PICK task \in Tasks :
          /\ MinerHas(task) /\ ValidTopology(task.topology)
          /\ neuronTypes = NeuronTypes(task.topology)
          /\ updatedNeuronIndices = UpdatedNeurons(neuronTypes)
    BY DEF LoaderInv, TaskTaken
  <2> DEFINE t == task.topology
             S == NotInput(t)
             rows == updatedNeuronIndices
  <2>2. t \in Topology
    BY FilesAssumption DEF Topology
  <2>3. topology = t /\ rows = Ascending(S) /\ S \in SUBSET Neurons
    BY <2>1 DEF MinerHas, UpdatedNeurons, NotInput
  <2> HIDE DEF S, t
  <2>4. /\ \A i \in 1..NumInputTrits : neuronTypes[t.input[i]] = "input"
        /\ Cardinality(S) = Population - NumInputTrits
        /\ t.output[1] \in S /\ t.signal \in S
    BY <2>1, <2>2, ValidRoles DEF t, S
  <2>5. /\ Len(rows) = Cardinality(S) /\ rows \in [1..Cardinality(S) -> S]
        /\ \A j, k \in 1..Cardinality(S) : j < k => rows[j] < rows[k]
        /\ {rows[k] : k \in 1..Cardinality(S)} = S
    BY <2>3, AscendingIs
  <2>6. DOMAIN rows = 1..Cardinality(S) /\ DOMAIN topology.input = 1..NumInputTrits
    BY <2>2, <2>3, <2>5 DEF Topology
  <2> QED
    BY <2>3, <2>4, <2>5, <2>6 DEF RolesFitTopology
<1> QED
  BY <1>1, InitLoader, NextLoader, PTL DEF LoaderSpec

-----------------------------------------------------------------------------
(* The statistics, which share no state with the storage.                  *)

StatsTypeOK ==
  /\ phaseV2 \in Int /\ lastPhases \in Int /\ loaded \in Int
  /\ events \in Int /\ late \in Int
  /\ reset \in {"idle", "add", "clear"}

\* Where the events are that are not late: in both counters; in the epoch's and in what
\* was loaded; in the epoch's alone.
Whereabouts ==
  /\ reset = "idle" => lastPhases + phaseV2 = events - late
  /\ reset = "add" => lastPhases + loaded = events - late
  /\ reset = "clear" => lastPhases = events - late

LEMMA StatsInitKeeps == StatsInit => StatsTypeOK /\ Whereabouts
BY DEF StatsInit, StatsTypeOK, Whereabouts

LEMMA StatsNextKeeps ==
  StatsTypeOK /\ Whereabouts /\ [StatsNext]_statsVars => StatsTypeOK' /\ Whereabouts'
<1> SUFFICES ASSUME StatsTypeOK, Whereabouts, [StatsNext]_statsVars
             PROVE  StatsTypeOK' /\ Whereabouts'
  OBVIOUS
<1> USE DEF StatsTypeOK, Whereabouts
<1>1. CASE Event
  BY <1>1 DEF Event
<1>2. CASE Load
  BY <1>2 DEF Load
<1>3. CASE Accumulate
  BY <1>3 DEF Accumulate
<1>4. CASE Clear
  BY <1>4 DEF Clear
<1>5. CASE EpochReset
  BY <1>5 DEF EpochReset
<1>6. CASE UNCHANGED statsVars
  BY <1>6 DEF statsVars
<1> QED
  BY <1>1, <1>2, <1>3, <1>4, <1>5, <1>6 DEF StatsNext

\* Closing a phase while other threads go on counting loses only what they count between
\* the load and the reset, and adds nothing twice.
THEOREM SpecEventsAccounted == StatsSpec => []EventsAccounted
<1>1. StatsTypeOK /\ Whereabouts => EventsAccounted
  BY DEF Whereabouts, EventsAccounted
<1> QED
  BY <1>1, StatsInitKeeps, StatsNextKeeps, PTL DEF StatsSpec

-----------------------------------------------------------------------------
(* Share reports.  A field of ten bits lies in two bytes and is or-ed into    *)
(* them; where the two parts of a byte have no bit in common, or is plus.     *)

LEMMA PowersOfTwo ==
  /\ Pow2(0) = 1 /\ Pow2(1) = 2 /\ Pow2(2) = 4 /\ Pow2(3) = 8 /\ Pow2(4) = 16
  /\ Pow2(5) = 32 /\ Pow2(6) = 64 /\ Pow2(7) = 128 /\ Pow2(8) = 256
<1>1. Pow2(0) = 1 /\ \A n \in Nat : Pow2(n + 1) = 2 * Pow2(n)
  BY WeightGrows DEF Pow2
<1> HIDE DEF Pow2
<1>2. Pow2(0 + 1) = 2 * Pow2(0) /\ Pow2(1 + 1) = 2 * Pow2(1) /\ Pow2(2 + 1) = 2 * Pow2(2)
      /\ Pow2(3 + 1) = 2 * Pow2(3) /\ Pow2(4 + 1) = 2 * Pow2(4) /\ Pow2(5 + 1) = 2 * Pow2(5)
      /\ Pow2(6 + 1) = 2 * Pow2(6) /\ Pow2(7 + 1) = 2 * Pow2(7)
  BY <1>1
<1>3. /\ 0 + 1 = 1 /\ 1 + 1 = 2 /\ 2 + 1 = 3 /\ 3 + 1 = 4 /\ 4 + 1 = 5 /\ 5 + 1 = 6
      /\ 6 + 1 = 7 /\ 7 + 1 = 8
  OBVIOUS
<1> QED
  BY <1>1, <1>2, <1>3

AByte == 0..255

LEMMA BitsOf ==
  ASSUME NEW x
  PROVE  /\ Bit(x, 0) = (x \div 1) % 2 /\ Bit(x, 1) = (x \div 2) % 2
         /\ Bit(x, 2) = (x \div 4) % 2 /\ Bit(x, 3) = (x \div 8) % 2
         /\ Bit(x, 4) = (x \div 16) % 2 /\ Bit(x, 5) = (x \div 32) % 2
         /\ Bit(x, 6) = (x \div 64) % 2 /\ Bit(x, 7) = (x \div 128) % 2
BY PowersOfTwo DEF Bit, Pow2

LEMMA BitPlaces ==
  \A k \in 0..7 : k = 0 \/ k = 1 \/ k = 2 \/ k = 3 \/ k = 4 \/ k = 5 \/ k = 6 \/ k = 7
OBVIOUS

\* The bits make up the byte.
LEMMA ByteOfBits ==
  ASSUME NEW x \in AByte, NEW digits, \A k \in 0..7 : digits[k] = Bit(x, k)
  PROVE  Value(2, digits, 8) = x
<1> DEFINE r == [k \in 0..8 |-> x \div Pow2(k)]
<1>1. /\ r[0] = x \div 1 /\ r[1] = x \div 2 /\ r[2] = x \div 4 /\ r[3] = x \div 8
      /\ r[4] = x \div 16 /\ r[5] = x \div 32 /\ r[6] = x \div 64 /\ r[7] = x \div 128
      /\ r[8] = x \div 256
  BY PowersOfTwo
<1> HIDE DEF r
<1>2. x \in Nat /\ x < 256
  BY DEF AByte
<1>3. \A k \in 0..8 : r[k] \in Nat
  <2>1. r[0] \in Nat /\ r[1] \in Nat /\ r[2] \in Nat /\ r[3] \in Nat /\ r[4] \in Nat
        /\ r[5] \in Nat /\ r[6] \in Nat /\ r[7] \in Nat /\ r[8] \in Nat
    BY <1>1, <1>2
  <2>2. \A k \in 0..8 : k = 0 \/ k = 1 \/ k = 2 \/ k = 3 \/ k = 4 \/ k = 5 \/ k = 6 \/ k = 7 \/ k = 8
    OBVIOUS
  <2> QED
    BY <2>1, <2>2
<1>4. \A k \in 0..7 : digits[k] \in 0..1 /\ r[k] = digits[k] + 2 * r[k + 1]
  <2>1. /\ digits[0] = (x \div 1) % 2 /\ digits[1] = (x \div 2) % 2
        /\ digits[2] = (x \div 4) % 2 /\ digits[3] = (x \div 8) % 2
        /\ digits[4] = (x \div 16) % 2 /\ digits[5] = (x \div 32) % 2
        /\ digits[6] = (x \div 64) % 2 /\ digits[7] = (x \div 128) % 2
    BY BitsOf
  <2>2. digits[0] \in 0..1 /\ r[0] = digits[0] + 2 * r[0 + 1]
    <3>1. (x \div 1) % 2 \in 0..1 /\ x \div 1 = ((x \div 1) % 2) + 2 * (x \div 2)
      BY <1>2
    <3> QED
      BY <1>1, <2>1, <3>1
  <2>3. digits[1] \in 0..1 /\ r[1] = digits[1] + 2 * r[1 + 1]
    <3>1. (x \div 2) % 2 \in 0..1 /\ x \div 2 = ((x \div 2) % 2) + 2 * (x \div 4)
      BY <1>2
    <3> QED
      BY <1>1, <2>1, <3>1
  <2>4. digits[2] \in 0..1 /\ r[2] = digits[2] + 2 * r[2 + 1]
    <3>1. (x \div 4) % 2 \in 0..1 /\ x \div 4 = ((x \div 4) % 2) + 2 * (x \div 8)
      BY <1>2
    <3> QED
      BY <1>1, <2>1, <3>1
  <2>5. digits[3] \in 0..1 /\ r[3] = digits[3] + 2 * r[3 + 1]
    <3>1. (x \div 8) % 2 \in 0..1 /\ x \div 8 = ((x \div 8) % 2) + 2 * (x \div 16)
      BY <1>2
    <3> QED
      BY <1>1, <2>1, <3>1
  <2>6. digits[4] \in 0..1 /\ r[4] = digits[4] + 2 * r[4 + 1]
    <3>1. (x \div 16) % 2 \in 0..1 /\ x \div 16 = ((x \div 16) % 2) + 2 * (x \div 32)
      BY <1>2
    <3> QED
      BY <1>1, <2>1, <3>1
  <2>7. digits[5] \in 0..1 /\ r[5] = digits[5] + 2 * r[5 + 1]
    <3>1. (x \div 32) % 2 \in 0..1 /\ x \div 32 = ((x \div 32) % 2) + 2 * (x \div 64)
      BY <1>2
    <3> QED
      BY <1>1, <2>1, <3>1
  <2>8. digits[6] \in 0..1 /\ r[6] = digits[6] + 2 * r[6 + 1]
    <3>1. (x \div 64) % 2 \in 0..1 /\ x \div 64 = ((x \div 64) % 2) + 2 * (x \div 128)
      BY <1>2
    <3> QED
      BY <1>1, <2>1, <3>1
  <2>9. digits[7] \in 0..1 /\ r[7] = digits[7] + 2 * r[7 + 1]
    <3>1. (x \div 128) % 2 \in 0..1 /\ x \div 128 = ((x \div 128) % 2) + 2 * (x \div 256)
      BY <1>2
    <3> QED
      BY <1>1, <2>1, <3>1
  <2> QED
    BY <2>2, <2>3, <2>4, <2>5, <2>6, <2>7, <2>8, <2>9, BitPlaces
<1>5. Value(2, digits, 8) = r[0] % Weight(2, 8)
  <2>1. \A k \in 0..(8 - 1) : digits[k] \in 0..(2 - 1) /\ r[k] = digits[k] + 2 * r[k + 1]
    <3>1. 2 - 1 = 1 /\ 8 - 1 = 7
      OBVIOUS
    <3> QED
      BY <1>4, <3>1
  <2> DEFINE base == 2
             n == 8
  <2>2. base \in Nat \ {0} /\ n \in Nat
    OBVIOUS
  <2>3. /\ \A k \in 0..n : r[k] \in Nat
        /\ \A k \in 0..(n - 1) : digits[k] \in 0..(base - 1) /\ r[k] = digits[k] + base * r[k + 1]
    BY <1>3, <2>1
  <2> HIDE DEF base, n
  <2>4. Value(base, digits, n) = r[0] % Weight(base, n)
    BY <2>2, <2>3, Digits
  <2> QED
    BY <2>4 DEF base, n
<1>6. r[0] = x /\ Weight(2, 8) = 256 /\ x % 256 = x
  BY <1>1, <1>2, PowersOfTwo DEF Pow2
<1> QED
  BY <1>5, <1>6

\* Two bytes with no bit in common: each bit of the sum is that of the one with bits there.
LEMMA BitsApart ==
  ASSUME NEW x \in Nat, NEW y \in Nat, x < 256,
         \/ x % 1 = 0 /\ y < 1
         \/ x % 4 = 0 /\ y < 4
         \/ x % 16 = 0 /\ y < 16
         \/ x % 64 = 0 /\ y < 64
         \/ x % 256 = 0 /\ y < 256
  PROVE  \A d \in {1, 2, 4, 8, 16, 32, 64, 128} :
           \/ (x \div d) % 2 = 0 /\ ((x + y) \div d) % 2 = (y \div d) % 2
           \/ (y \div d) % 2 = 0 /\ ((x + y) \div d) % 2 = (x \div d) % 2
<1> DEFINE low(d) == (x \div d) % 2 = 0 /\ ((x + y) \div d) % 2 = (y \div d) % 2
           high(d) == (y \div d) % 2 = 0 /\ ((x + y) \div d) % 2 = (x \div d) % 2
<1>1. CASE x % 1 = 0 /\ y < 1
  <2>1. high(1) /\ high(2) /\ high(4) /\ high(8) /\ high(16) /\ high(32) /\ high(64) /\ high(128)
    BY <1>1
  <2> QED
    BY <2>1
<1>2. CASE x % 4 = 0 /\ y < 4
  <2>1. low(1) /\ low(2)
    BY <1>2
  <2>2. y \div 4 = 0 /\ (x + y) \div 4 = x \div 4
    BY <1>2
  <2>3. y \div 8 = 0 /\ (x + y) \div 8 = x \div 8
    BY <1>2
  <2>4. y \div 16 = 0 /\ (x + y) \div 16 = x \div 16
    BY <1>2
  <2>5. y \div 32 = 0 /\ (x + y) \div 32 = x \div 32
    BY <1>2
  <2>6. y \div 64 = 0 /\ (x + y) \div 64 = x \div 64
    BY <1>2
  <2>7. y \div 128 = 0 /\ (x + y) \div 128 = x \div 128
    BY <1>2
  <2> QED
    BY <2>1, <2>2, <2>3, <2>4, <2>5, <2>6, <2>7
<1>3. CASE x % 16 = 0 /\ y < 16
  <2>1. low(1) /\ low(2) /\ low(4) /\ low(8) /\ high(16) /\ high(32) /\ high(64) /\ high(128)
    BY <1>3
  <2> QED
    BY <2>1
<1>4. CASE x % 64 = 0 /\ y < 64
  <2>1. low(1) /\ low(2) /\ low(4) /\ low(8) /\ low(16) /\ low(32) /\ high(64) /\ high(128)
    BY <1>4
  <2> QED
    BY <2>1
<1>5. CASE x % 256 = 0 /\ y < 256
  <2>1. low(1) /\ low(2) /\ low(4) /\ low(8) /\ low(16) /\ low(32) /\ low(64) /\ low(128)
    BY <1>5
  <2> QED
    BY <2>1
<1> QED
  BY <1>1, <1>2, <1>3, <1>4, <1>5

\* Or with the parts of a byte on either side of bit k is plus.
LEMMA OrApart ==
  ASSUME NEW x \in AByte, NEW y \in AByte, NEW k \in {0, 2, 4, 6, 8},
         x % Pow2(k) = 0, y < Pow2(k)
  PROVE  /\ x + y \in AByte
         /\ ByteOr(x, y) = x + y /\ ByteOr(y, x) = x + y
<1> DEFINE z == x + y
           joined(i) == IF Bit(x, i) = 1 \/ Bit(y, i) = 1 THEN 1 ELSE 0
<1>1. x \in Nat /\ x < 256 /\ y \in Nat /\ y < 256
  BY DEF AByte
<1>2. \/ x % 1 = 0 /\ y < 1
      \/ x % 4 = 0 /\ y < 4
      \/ x % 16 = 0 /\ y < 16
      \/ x % 64 = 0 /\ y < 64
      \/ x % 256 = 0 /\ y < 256
  <2>1. k = 0 \/ k = 2 \/ k = 4 \/ k = 6 \/ k = 8
    OBVIOUS
  <2>2. Pow2(k) = 1 \/ Pow2(k) = 4 \/ Pow2(k) = 16 \/ Pow2(k) = 64 \/ Pow2(k) = 256
    BY <2>1, PowersOfTwo
  <2> DEFINE w == Pow2(k)
  <2>3. x % w = 0 /\ y < w
    OBVIOUS
  <2> HIDE DEF w
  <2> QED
    BY <2>2, <2>3 DEF w
<1>3. z \in AByte
  BY <1>1, <1>2 DEF AByte
<1>4. \A i \in 0..7 : joined(i) = Bit(z, i)
  <2> DEFINE bit(v, d) == (v \div d) % 2
  <2>1. \A d \in {1, 2, 4, 8, 16, 32, 64, 128} :
          \/ bit(x, d) = 0 /\ bit(z, d) = bit(y, d)
          \/ bit(y, d) = 0 /\ bit(z, d) = bit(x, d)
    BY <1>1, <1>2, BitsApart
  <2>2. \A v, d \in Nat : d # 0 => bit(v, d) \in {0, 1}
    OBVIOUS
  <2>3. \A d \in {1, 2, 4, 8, 16, 32, 64, 128} :
          bit(z, d) = IF bit(x, d) = 1 \/ bit(y, d) = 1 THEN 1 ELSE 0
    <3>1. \A d \in {1, 2, 4, 8, 16, 32, 64, 128} : d \in Nat /\ d # 0
      OBVIOUS
    <3> HIDE DEF bit, z
    <3> QED
      BY <1>1, <2>1, <2>2, <3>1
  <2>4. /\ Bit(x, 0) = bit(x, 1) /\ Bit(x, 1) = bit(x, 2) /\ Bit(x, 2) = bit(x, 4)
        /\ Bit(x, 3) = bit(x, 8) /\ Bit(x, 4) = bit(x, 16) /\ Bit(x, 5) = bit(x, 32)
        /\ Bit(x, 6) = bit(x, 64) /\ Bit(x, 7) = bit(x, 128)
    BY BitsOf
  <2>5. /\ Bit(y, 0) = bit(y, 1) /\ Bit(y, 1) = bit(y, 2) /\ Bit(y, 2) = bit(y, 4)
        /\ Bit(y, 3) = bit(y, 8) /\ Bit(y, 4) = bit(y, 16) /\ Bit(y, 5) = bit(y, 32)
        /\ Bit(y, 6) = bit(y, 64) /\ Bit(y, 7) = bit(y, 128)
    BY BitsOf
  <2>6. /\ Bit(z, 0) = bit(z, 1) /\ Bit(z, 1) = bit(z, 2) /\ Bit(z, 2) = bit(z, 4)
        /\ Bit(z, 3) = bit(z, 8) /\ Bit(z, 4) = bit(z, 16) /\ Bit(z, 5) = bit(z, 32)
        /\ Bit(z, 6) = bit(z, 64) /\ Bit(z, 7) = bit(z, 128)
    BY BitsOf
  <2> HIDE DEF bit, z
  <2>7. /\ joined(0) = Bit(z, 0) /\ joined(1) = Bit(z, 1) /\ joined(2) = Bit(z, 2)
        /\ joined(3) = Bit(z, 3) /\ joined(4) = Bit(z, 4) /\ joined(5) = Bit(z, 5)
        /\ joined(6) = Bit(z, 6) /\ joined(7) = Bit(z, 7)
    BY <2>3, <2>4, <2>5, <2>6
  <2> HIDE DEF joined
  <2> QED
    BY <2>7, BitPlaces
<1> HIDE DEF z
<1>5. ByteOr(x, y) = z
  <2> DEFINE digits == [i \in 0..7 |-> joined(i)]
  <2>1. \A i \in 0..7 : digits[i] = Bit(z, i)
    BY <1>4
  <2>2. ByteOr(x, y) = Value(2, digits, 8)
    BY DEF ByteOr
  <2> HIDE DEF digits
  <2> QED
    BY <1>3, <2>1, <2>2, ByteOfBits
<1>6. ByteOr(y, x) = z
  <2> DEFINE digits == [i \in 0..7 |-> IF Bit(y, i) = 1 \/ Bit(x, i) = 1 THEN 1 ELSE 0]
  <2>1. \A i \in 0..7 : digits[i] = Bit(z, i)
    BY <1>4
  <2>2. ByteOr(y, x) = Value(2, digits, 8)
    BY DEF ByteOr
  <2> HIDE DEF digits
  <2> QED
    BY <1>3, <2>1, <2>2, ByteOfBits
<1> QED
  BY <1>3, <1>5, <1>6 DEF z

\* However they overlap, or makes a byte of two.
LEMMA OrIsByte == \A x, y \in AByte : ByteOr(x, y) \in AByte
<1> SUFFICES ASSUME NEW x \in AByte, NEW y \in AByte PROVE ByteOr(x, y) \in AByte
  OBVIOUS
<1> DEFINE digits == [i \in 0..7 |-> IF Bit(x, i) = 1 \/ Bit(y, i) = 1 THEN 1 ELSE 0]
<1>1. \A i \in 0..7 : digits[i] \in 0..1
  OBVIOUS
<1>2. ByteOr(x, y) = Value(2, digits, 8)
  BY DEF ByteOr
<1> HIDE DEF digits
<1>3. 2 \in Nat \ {0} /\ 8 \in Nat /\ 2 - 1 = 1 /\ 8 - 1 = 7
  OBVIOUS
<1>4. Value(2, digits, 8) \in Nat /\ Value(2, digits, 8) < Weight(2, 8)
  <2> DEFINE base == 2
             n == 8
  <2>1. base \in Nat \ {0} /\ n \in Nat /\ \A k \in 0..(n - 1) : digits[k] \in 0..(base - 1)
    BY <1>1, <1>3
  <2> HIDE DEF base, n
  <2>2. PICK f : PartialSums(f, base, digits, n)
    <3>1. \A k \in 0..(n - 1) : digits[k] \in Nat
      BY <2>1
    <3> QED
      BY <2>1, <3>1, SumsOf
  <2>3. \A k \in 0..n : f[k] \in Nat /\ f[k] < Weight(base, k)
    BY <2>1, <2>2, SumsBelow
  <2>4. Value(base, digits, n) \in Nat /\ Value(base, digits, n) < Weight(base, n)
    BY <2>1, <2>2, <2>3 DEF PartialSums
  <2> QED
    BY <2>4 DEF base, n
<1>5. Weight(2, 8) = 256
  BY PowersOfTwo DEF Pow2
<1> QED
  BY <1>2, <1>4, <1>5 DEF AByte

\* The four places a field may have in its five bytes.
LEMMA FieldBits ==
  ASSUME NEW idx \in Computors
  PROVE  /\ idx \in Nat /\ FirstByte(idx) \in Nat /\ FirstByte(idx) + 2 <= PacketBytes
         /\ \/ idx % 4 = 0 /\ LastBit0(idx) = 8 /\ FirstBit1(idx) = 2
            \/ idx % 4 = 1 /\ LastBit0(idx) = 6 /\ FirstBit1(idx) = 4
            \/ idx % 4 = 2 /\ LastBit0(idx) = 4 /\ FirstBit1(idx) = 6
            \/ idx % 4 = 3 /\ LastBit0(idx) = 2 /\ FirstBit1(idx) = 8
<1>1. idx \in Nat /\ idx + 1 <= NumComputors /\ NumComputors \in Nat /\ PacketBytes \in Int
      /\ NumComputors * 10 <= PacketBytes * 8
  BY SharesAssumption DEF Computors
<1>2. FirstByte(idx) \in Nat /\ FirstByte(idx) + 2 <= PacketBytes
  <2> DEFINE q == idx \div 4
             z == idx % 4
  <2>1. q \in Nat /\ z \in 0..3 /\ idx = 4 * q + z
    BY <1>1
  <2>2. idx * 10 + 10 <= PacketBytes * 8
    BY <1>1
  <2>3. FirstByte(idx) = idx + q
    BY DEF FirstByte
  <2> HIDE DEF q, z
  <2>4. 40 * q + 10 * z + 10 <= PacketBytes * 8
    BY <2>1, <2>2
  <2>5. 5 * q + z + 2 <= PacketBytes
    BY <1>1, <2>1, <2>4
  <2> QED
    BY <1>1, <2>1, <2>3, <2>5
<1>3. idx % 4 = 0 \/ idx % 4 = 1 \/ idx % 4 = 2 \/ idx % 4 = 3
  BY <1>1
<1> QED
  BY <1>1, <1>2, <1>3 DEF LastBit0, FirstBit1

\* Where the next fields lie.
LEMMA NextFields ==
  ASSUME NEW i \in Computors, NEW j \in Computors
  PROVE  /\ i + 2 <= j => FirstByte(i) + 2 <= FirstByte(j)
         /\ j = i + 1 /\ i % 4 = 3 => FirstByte(j) = FirstByte(i) + 2
         /\ j = i + 1 /\ i % 4 # 3 =>
              FirstByte(j) = FirstByte(i) + 1 /\ LastBit0(j) = 8 - FirstBit1(i)
<1>1. i \in Nat /\ j \in Nat
  BY FieldBits
<1>2. i + 2 <= j => FirstByte(i) + 2 <= FirstByte(j)
  BY <1>1 DEF FirstByte
<1>3. j = i + 1 /\ i % 4 = 3 => FirstByte(j) = FirstByte(i) + 2
  BY <1>1 DEF FirstByte
<1>4. j = i + 1 /\ i % 4 # 3 => FirstByte(j) = FirstByte(i) + 1 /\ j % 4 = (i % 4) + 1
  BY <1>1 DEF FirstByte
<1>5. j % 4 = (i % 4) + 1 => LastBit0(j) = 8 - FirstBit1(i)
  BY <1>1 DEF LastBit0, FirstBit1
<1> QED
  BY <1>2, <1>3, <1>4, <1>5

Packets == [0..(PacketBytes - 1) -> AByte]

\* An update writes the two bytes of its field, and keeps them bytes whatever the value.
LEMMA UpdateIs ==
  ASSUME NEW data \in Packets, NEW idx \in Computors, NEW value \in Nat
  PROVE  LET b == FirstByte(idx)
             new == update10Bit(data, idx, value)
             first == data[b] - (data[b] % Pow2(LastBit0(idx)))
             second == (value % Pow2(FirstBit1(idx))) * Pow2(8 - FirstBit1(idx))
         IN  /\ b \in 0..(PacketBytes - 1) /\ b + 1 \in 0..(PacketBytes - 1)
             /\ data[b] \in AByte /\ data[b + 1] \in AByte /\ new \in Packets
             /\ \A x \in 0..(PacketBytes - 1) : x # b /\ x # b + 1 => new[x] = data[x]
             /\ first \in AByte /\ second \in AByte
             /\ data[b + 1] % Pow2(8 - FirstBit1(idx)) \in AByte
             /\ new[b] = ByteOr(first, (value \div Pow2(FirstBit1(idx))) % 256)
             /\ new[b + 1] = ByteOr(data[b + 1] % Pow2(8 - FirstBit1(idx)), second)
<1> DEFINE b == FirstByte(idx)
           new == update10Bit(data, idx, value)
           first == data[b] - (data[b] % Pow2(LastBit0(idx)))
           over == (value \div Pow2(FirstBit1(idx))) % 256
           kept == data[b + 1] % Pow2(8 - FirstBit1(idx))
           second == (value % Pow2(FirstBit1(idx))) * Pow2(8 - FirstBit1(idx))
<1>1. b \in 0..(PacketBytes - 1) /\ b + 1 \in 0..(PacketBytes - 1) /\ b # b + 1
  <2>1. FirstByte(idx) \in Nat /\ FirstByte(idx) + 2 <= PacketBytes
    BY FieldBits
  <2> QED
    BY <2>1, SharesAssumption
<1>2. data[b] \in AByte /\ data[b + 1] \in AByte
  BY <1>1 DEF Packets
<1>3. first \in AByte /\ over \in AByte /\ kept \in AByte /\ second \in AByte
  <2> DEFINE L == Pow2(LastBit0(idx))
             F == Pow2(FirstBit1(idx))
             G == Pow2(8 - FirstBit1(idx))
  <2>1. \/ L = 256 /\ F = 4 /\ G = 64
        \/ L = 64 /\ F = 16 /\ G = 16
        \/ L = 16 /\ F = 64 /\ G = 4
        \/ L = 4 /\ F = 256 /\ G = 1
    <3>1. 8 - 2 = 6 /\ 8 - 4 = 4 /\ 8 - 6 = 2 /\ 8 - 8 = 0
      OBVIOUS
    <3>2. LastBit0(idx) = 8 /\ FirstBit1(idx) = 2 => L = 256 /\ F = 4 /\ G = 64
      BY <3>1, PowersOfTwo
    <3>3. LastBit0(idx) = 6 /\ FirstBit1(idx) = 4 => L = 64 /\ F = 16 /\ G = 16
      BY <3>1, PowersOfTwo
    <3>4. LastBit0(idx) = 4 /\ FirstBit1(idx) = 6 => L = 16 /\ F = 64 /\ G = 4
      BY <3>1, PowersOfTwo
    <3>5. LastBit0(idx) = 2 /\ FirstBit1(idx) = 8 => L = 4 /\ F = 256 /\ G = 1
      BY <3>1, PowersOfTwo
    <3> HIDE DEF L, F, G
    <3> QED
      BY <3>2, <3>3, <3>4, <3>5, FieldBits
  <2> HIDE DEF b, L, F, G
  <2>2. data[b] - (data[b] % L) \in AByte
    BY <1>2, <2>1 DEF AByte
  <2>3. (value \div F) % 256 \in AByte
    <3> DEFINE v == value \div F
    <3>1. v \in Nat
      BY <2>1
    <3> HIDE DEF v
    <3>2. v % 256 \in AByte
      BY <3>1 DEF AByte
    <3> QED
      BY <3>2 DEF v
  <2>4. data[b + 1] % G \in AByte
    BY <1>2, <2>1 DEF AByte
  <2>5. (value % F) * G \in AByte
    BY <2>1 DEF AByte
  <2> QED
    BY <2>2, <2>3, <2>4, <2>5 DEF L, F, G
<1>4. ByteOr(first, over) \in AByte /\ ByteOr(kept, second) \in AByte
  BY <1>3, OrIsByte
<1>5. new = [data EXCEPT ![b] = ByteOr(first, over), ![b + 1] = ByteOr(kept, second)]
  BY <1>1 DEF update10Bit, Packets
<1> HIDE DEF first, over, kept, second, b
<1>6. /\ new \in Packets
      /\ \A x \in 0..(PacketBytes - 1) : x # b /\ x # b + 1 => new[x] = data[x]
      /\ new[b] = ByteOr(first, over) /\ new[b + 1] = ByteOr(kept, second)
  <2> DEFINE p == ByteOr(first, over)
             q == ByteOr(kept, second)
             half == [data EXCEPT ![b] = p]
  <2>1. p \in AByte /\ q \in AByte /\ new = [half EXCEPT ![b + 1] = q]
    BY <1>4, <1>5
  <2> HIDE DEF p, q, new
  <2>2. half \in Packets /\ half[b] = p
        /\ \A x \in 0..(PacketBytes - 1) : x # b => half[x] = data[x]
    BY <1>1, <2>1 DEF Packets
  <2> HIDE DEF half
  <2>3. new \in Packets /\ new[b + 1] = q
        /\ \A x \in 0..(PacketBytes - 1) : x # b + 1 => new[x] = half[x]
    BY <1>1, <2>1, <2>2 DEF Packets
  <2> QED
    BY <1>1, <2>2, <2>3 DEF p, q
<1> QED
  BY <1>1, <1>2, <1>3, <1>6 DEF first, over, kept, second, b

\* A value of ten bits is read back, and leaves the upper bits of its first byte alone.
LEMMA UpdateFits ==
  ASSUME NEW data \in Packets, NEW idx \in Computors, NEW value \in 0..MaxVal
  PROVE  LET new == update10Bit(data, idx, value)
             b == FirstByte(idx)
         IN  /\ extract10Bit(new, idx) = value
             /\ new[b] \div Pow2(LastBit0(idx)) = data[b] \div Pow2(LastBit0(idx))
<1> DEFINE b == FirstByte(idx)
           new == update10Bit(data, idx, value)
           L == Pow2(LastBit0(idx))
           F == Pow2(FirstBit1(idx))
           G == Pow2(8 - FirstBit1(idx))
           top == data[b]
           first == top - (top % L)
           upper == value \div F
           kept == data[b + 1] % G
           second == (value % F) * G
<1>1. value \in Nat /\ value < 1024
  BY DEF MaxVal
<1>2. /\ top \in AByte /\ first \in AByte /\ second \in AByte /\ kept \in AByte
      /\ data[b + 1] \in AByte
      /\ new[b] = ByteOr(first, upper % 256) /\ new[b + 1] = ByteOr(kept, second)
  BY <1>1, UpdateIs
<1>3. /\ LastBit0(idx) \in {0, 2, 4, 6, 8} /\ 8 - FirstBit1(idx) \in {0, 2, 4, 6, 8}
      /\ \/ L = 256 /\ F = 4 /\ G = 64
         \/ L = 64 /\ F = 16 /\ G = 16
         \/ L = 16 /\ F = 64 /\ G = 4
         \/ L = 4 /\ F = 256 /\ G = 1
  <2>1. 8 - 2 = 6 /\ 8 - 4 = 4 /\ 8 - 6 = 2 /\ 8 - 8 = 0
    OBVIOUS
  <2> DEFINE fits == /\ LastBit0(idx) \in {0, 2, 4, 6, 8} /\ 8 - FirstBit1(idx) \in {0, 2, 4, 6, 8}
                     /\ \/ L = 256 /\ F = 4 /\ G = 64
                        \/ L = 64 /\ F = 16 /\ G = 16
                        \/ L = 16 /\ F = 64 /\ G = 4
                        \/ L = 4 /\ F = 256 /\ G = 1
  <2>2. LastBit0(idx) = 8 /\ FirstBit1(idx) = 2 => fits
    BY <2>1, PowersOfTwo
  <2>3. LastBit0(idx) = 6 /\ FirstBit1(idx) = 4 => fits
    BY <2>1, PowersOfTwo
  <2>4. LastBit0(idx) = 4 /\ FirstBit1(idx) = 6 => fits
    BY <2>1, PowersOfTwo
  <2>5. LastBit0(idx) = 2 /\ FirstBit1(idx) = 8 => fits
    BY <2>1, PowersOfTwo
  <2> HIDE DEF fits
  <2>6. fits
    BY <2>2, <2>3, <2>4, <2>5, FieldBits
  <2> QED
    BY <2>6 DEF fits
<1>4. extract10Bit(new, idx) = (new[b] % L) * F + (new[b + 1] \div G)
  BY DEF extract10Bit
<1> HIDE DEF new, b
<1>5. top \in Nat /\ top < 256 /\ data[b + 1] \in Nat
  BY <1>2 DEF AByte
<1>6. upper \in Nat /\ upper < L /\ upper % 256 = upper /\ upper \in AByte
  <2> HIDE DEF L, F, G, top
  <2>1. upper \in Nat /\ upper < L /\ L <= 256
    BY <1>1, <1>3
  <2> HIDE DEF upper
  <2> QED
    BY <1>3, <2>1 DEF AByte
<1>7. first % L = 0
  <2> HIDE DEF L, F, G, top
  <2> QED
    BY <1>3, <1>5
<1>8. second % G = 0 /\ kept < G
  <2> HIDE DEF L, F, G, top
  <2>1. value % F \in Nat
    BY <1>1, <1>3
  <2> DEFINE v == value % F
  <2> HIDE DEF v
  <2>2. (v * G) % G = 0
    BY <1>3, <2>1 DEF v
  <2>3. kept < G
    BY <1>3, <1>5
  <2> QED
    BY <2>2, <2>3 DEF v
<1>9. new[b] = first + upper
  <2> DEFINE k == LastBit0(idx)
  <2>0. /\ k \in {0, 2, 4, 6, 8} /\ first \in AByte /\ upper \in AByte
        /\ first % Pow2(k) = 0 /\ upper < Pow2(k)
    BY <1>2, <1>3, <1>6, <1>7
  <2> HIDE DEF first, upper, k
  <2>1. ByteOr(first, upper) = first + upper
    BY <2>0, OrApart
  <2>2. new[b] = ByteOr(first, upper)
    BY <1>2, <1>6
  <2> QED
    BY <2>1, <2>2
<1>10. new[b + 1] = second + kept
  <2> HIDE DEF second, kept
  <2> QED
    BY <1>2, <1>3, <1>8, OrApart
<1>11. (new[b] % L) * F + (new[b + 1] \div G) = value
  <2> HIDE DEF L, F, G, top
  <2>1. (first + upper) % L = upper
    <3> HIDE DEF upper
    <3> QED
      BY <1>3, <1>5, <1>6
  <2>2. (second + kept) \div G = value % F
    <3> DEFINE v == value % F
    <3>1. v \in Nat /\ kept \in Nat /\ kept < G
      BY <1>1, <1>3, <1>5, <1>8
    <3> HIDE DEF v, kept
    <3>2. (v * G + kept) \div G = v
      BY <1>3, <3>1
    <3> QED
      BY <3>2 DEF v
  <2>3. upper * F + (value % F) = value
    <3>1. /\ (value \div 4) * 4 + (value % 4) = value
          /\ (value \div 16) * 16 + (value % 16) = value
          /\ (value \div 64) * 64 + (value % 64) = value
          /\ (value \div 256) * 256 + (value % 256) = value
      BY <1>1
    <3>2. F = 4 \/ F = 16 \/ F = 64 \/ F = 256
      BY <1>3
    <3> QED
      BY <3>1, <3>2
  <2> QED
    BY <1>9, <1>10, <2>1, <2>2, <2>3
<1>12. new[b] \div L = top \div L
  <2> HIDE DEF L, F, G, top
  <2>1. (first + upper) \div L = top \div L
    <3> DEFINE t == top
               u == upper
    <3>1. t \in Nat /\ u \in Nat /\ u < L
      BY <1>5, <1>6
    <3> HIDE DEF t, u
    <3>2. /\ u < 4 => ((t - (t % 4)) + u) \div 4 = t \div 4
          /\ u < 16 => ((t - (t % 16)) + u) \div 16 = t \div 16
          /\ u < 64 => ((t - (t % 64)) + u) \div 64 = t \div 64
          /\ u < 256 => ((t - (t % 256)) + u) \div 256 = t \div 256
      BY <3>1
    <3>3. L = 4 \/ L = 16 \/ L = 64 \/ L = 256
      BY <1>3
    <3>4. CASE L = 4
      BY <3>1, <3>2, <3>4 DEF t, u
    <3>5. CASE L = 16
      BY <3>1, <3>2, <3>5 DEF t, u
    <3>6. CASE L = 64
      BY <3>1, <3>2, <3>6 DEF t, u
    <3>7. CASE L = 256
      BY <3>1, <3>2, <3>7 DEF t, u
    <3> QED
      BY <3>3, <3>4, <3>5, <3>6, <3>7
  <2> QED
    BY <1>9, <2>1
<1> QED
  BY <1>4, <1>11, <1>12 DEF new, b

\* A field stays as it is when one after it is written, if that one is of ten bits or lies
\* in another five bytes.
LEMMA UpdateKeeps ==
  ASSUME NEW data \in Packets, NEW i \in Computors, NEW j \in Computors, i < j,
         NEW value \in Nat, j = i + 1 /\ i % 4 # 3 => value <= MaxVal
  PROVE  extract10Bit(update10Bit(data, j, value), i) = extract10Bit(data, i)
<1> DEFINE b == FirstByte(i)
           c == FirstByte(j)
           new == update10Bit(data, j, value)
<1>1. /\ i \in Nat /\ j \in Nat /\ b \in Nat /\ b + 2 <= PacketBytes
      /\ PacketBytes \in Nat /\ c \in Nat
  BY FieldBits, SharesAssumption
<1>2. \A x \in 0..(PacketBytes - 1) : x # c /\ x # c + 1 => new[x] = data[x]
  BY UpdateIs
<1>3. i + 2 <= j \/ j = i + 1
  BY <1>1
<1>4. i + 2 <= j => b + 2 <= c
  BY NextFields
<1>5. j = i + 1 /\ i % 4 = 3 => c = b + 2
  BY NextFields
<1>6. j = i + 1 /\ i % 4 # 3 =>
        c = b + 1 /\ new[b + 1] \div Pow2(8 - FirstBit1(i)) = data[b + 1] \div Pow2(8 - FirstBit1(i))
  <2> SUFFICES ASSUME j = i + 1, i % 4 # 3
               PROVE  c = b + 1 /\ new[b + 1] \div Pow2(8 - FirstBit1(i))
                                     = data[b + 1] \div Pow2(8 - FirstBit1(i))
    OBVIOUS
  <2>1. c = b + 1 /\ LastBit0(j) = 8 - FirstBit1(i)
    BY NextFields
  <2>2. value \in 0..MaxVal
    BY DEF MaxVal
  <2>3. new[c] \div Pow2(LastBit0(j)) = data[c] \div Pow2(LastBit0(j))
    BY <2>2, UpdateFits
  <2> QED
    BY <2>1, <2>3
<1>7. b \in 0..(PacketBytes - 1) /\ b + 1 \in 0..(PacketBytes - 1)
  BY <1>1
<1> HIDE DEF new, c
<1>8. CASE b + 2 <= c
  <2>1. b # c /\ b # c + 1 /\ b + 1 # c /\ b + 1 # c + 1
    BY <1>1, <1>8
  <2>2. new[b] = data[b] /\ new[b + 1] = data[b + 1]
    BY <1>2, <1>7, <2>1
  <2> QED
    BY <2>2 DEF extract10Bit, new
<1>9. CASE j = i + 1 /\ i % 4 # 3
  <2>1. c = b + 1 /\ b # c /\ b # c + 1
    BY <1>1, <1>6, <1>9
  <2>2. new[b] = data[b]
    BY <1>2, <1>7, <2>1
  <2> QED
    BY <1>6, <1>9, <2>2 DEF extract10Bit, new
<1> QED
  BY <1>1, <1>3, <1>4, <1>5, <1>8, <1>9

LEMMA ExtractNat ==
  ASSUME NEW data \in Packets, NEW i \in Computors
  PROVE  extract10Bit(data, i) \in Nat
<1> DEFINE x == data[FirstByte(i)]
           y == data[FirstByte(i) + 1]
           L == Pow2(LastBit0(i))
           F == Pow2(FirstBit1(i))
           G == Pow2(8 - FirstBit1(i))
<1>1. x \in Nat /\ y \in Nat
  <2>1. 0 \in Nat /\ data[FirstByte(i)] \in AByte /\ data[FirstByte(i) + 1] \in AByte
    BY UpdateIs
  <2> QED
    BY <2>1 DEF AByte
<1>2. LastBit0(i) \in Nat /\ FirstBit1(i) \in Nat /\ 8 - FirstBit1(i) \in Nat
  BY FieldBits
<1>3. L \in Nat \ {0} /\ F \in Nat /\ G \in Nat \ {0}
  <2>1. \A n \in Nat : Weight(2, n) \in Nat \ {0}
    BY WeightGrows
  <2> QED
    BY <1>2, <2>1 DEF Pow2
<1>4. extract10Bit(data, i) = (x % L) * F + (y \div G)
  BY DEF extract10Bit
<1> HIDE DEF x, y, L, F, G
<1>5. x % L \in Nat /\ y \div G \in Nat
  BY <1>1, <1>3
<1>6. (x % L) * F \in Nat
  BY <1>3, <1>5
<1> QED
  BY <1>4, <1>5, <1>6

Packed(packed, buffer) ==
  packed = [n \in 0..NumComputors |->
              IF n = 0 THEN [b \in 0..(PacketBytes - 1) |-> 0]
              ELSE update10Bit(packed[n - 1], n - 1, buffer[n - 1])]

\* Packing goes from field to field.
LEMMA PacketIs ==
  ASSUME NEW buffer \in [Computors -> Nat]
  PROVE  \E f \in [0..NumComputors -> Packets] :
           /\ \A k \in 1..NumComputors : f[k] = update10Bit(f[k - 1], k - 1, buffer[k - 1])
           /\ Packet(buffer) = f[NumComputors]
<1> DEFINE N == NumComputors
           zeros == [b \in 0..(PacketBytes - 1) |-> 0]
           step(k, d) == IF k \in 1..N THEN update10Bit(d, k - 1, buffer[k - 1]) ELSE d
           G == [kd \in Nat \X Packets |-> step(kd[1], kd[2])]
<1>1. N \in Nat /\ \A k \in 1..N : k - 1 \in Computors /\ buffer[k - 1] \in Nat
  BY SharesAssumption DEF Computors
<1>2. zeros \in Packets
  BY DEF Packets, AByte
<1>3. \A k \in Nat, d \in Packets : step(k, d) \in Packets
  <2>1. ASSUME NEW k \in 1..N, NEW d \in Packets PROVE step(k, d) \in Packets
    BY <1>1, <2>1, UpdateIs
  <2> QED
    BY <2>1
<1>4. G \in [Nat \X Packets -> Packets]
  <2> HIDE DEF step
  <2> QED
    BY <1>3
<1>5. PICK f : Steps(f, Packets, zeros, G, N)
  <2> HIDE DEF G, zeros, N
  <2> QED
    BY <1>1, <1>2, <1>4, StepsExist
<1>6. f \in [0..N -> Packets] /\ f[0] = zeros
      /\ \A k \in 1..N : f[k] = update10Bit(f[k - 1], k - 1, buffer[k - 1])
  <2>1. \A k \in 1..N : f[k - 1] \in Packets /\ k \in Nat
    <3> HIDE DEF G, zeros
    <3> QED
      BY <1>1, <1>5 DEF Steps
  <2>2. \A k \in Nat, d \in Packets : G[<<k, d>>] = step(k, d)
    <3> HIDE DEF step
    <3> QED
      OBVIOUS
  <2>3. \A k \in 1..N : step(k, f[k - 1]) = update10Bit(f[k - 1], k - 1, buffer[k - 1])
    OBVIOUS
  <2> HIDE DEF G, step, zeros, N
  <2>4. \A k \in 1..N : f[k] = step(k, f[k - 1])
    BY <1>5, <2>1, <2>2 DEF Steps
  <2> QED
    BY <1>5, <2>3, <2>4 DEF Steps
<1> HIDE DEF G, step
<1>7. Packed(f, buffer)
  <2>1. \A k \in 0..N : k = 0 \/ k \in 1..N
    BY <1>1
  <2>2. \A k \in 0..N : f[k] = IF k = 0 THEN zeros
                                ELSE update10Bit(f[k - 1], k - 1, buffer[k - 1])
    <3> HIDE DEF zeros, N
    <3> QED
      BY <1>6, <2>1
  <2> QED
    BY <1>6, <2>2 DEF Packed
<1> DEFINE p == CHOOSE g : Packed(g, buffer)
<1>8. Packed(p, buffer) /\ Packet(buffer) = p[N]
  BY <1>7 DEF Packed, Packet
<1> HIDE DEF p
<1>9. p[N] = f[N]
  <2>1. p[0] = zeros /\ \A k \in 1..N : p[k] = update10Bit(p[k - 1], k - 1, buffer[k - 1])
    <3>1. 0 \in 0..N /\ \A k \in 1..N : k \in 0..N /\ k # 0
      BY <1>1
    <3> QED
      BY <1>8, <3>1 DEF Packed
  <2>2. InStep(p, f, N)
    BY <1>6, <2>1 DEF InStep
  <2> HIDE DEF N
  <2>3. \A k \in 0..N : p[k] = f[k]
    BY <1>1, <2>2, SameSteps
  <2> QED
    BY <1>1, <2>3
<1> QED
  BY <1>6, <1>8, <1>9

\* What is read of a packet is what was packed, where it fits, and a number in any case.
LEMMA PacketRead ==
  ASSUME NEW buffer \in [Computors -> Nat], NEW i \in Computors
  PROVE  /\ extract10Bit(Packet(buffer), i) \in Nat
         /\ Fits(buffer, i) => extract10Bit(Packet(buffer), i) = buffer[i]
<1>1. PICK f \in [0..NumComputors -> Packets] :
        /\ \A k \in 1..NumComputors : f[k] = update10Bit(f[k - 1], k - 1, buffer[k - 1])
        /\ Packet(buffer) = f[NumComputors]
  BY PacketIs
<1>2. NumComputors \in Nat /\ i \in Nat /\ i < NumComputors
  BY SharesAssumption DEF Computors
<1>3. extract10Bit(Packet(buffer), i) \in Nat
  <2>1. f[NumComputors] \in Packets
    BY <1>1, <1>2
  <2> QED
    BY <1>1, <2>1, ExtractNat
<1>4. ASSUME Fits(buffer, i) PROVE extract10Bit(Packet(buffer), i) = buffer[i]
  <2> DEFINE A == {n \in Nat : i < n /\ n <= NumComputors => extract10Bit(f[n], i) = buffer[i]}
  <2>1. 0 \in A
    BY <1>2
  <2>2. ASSUME NEW n \in Nat, n \in A PROVE n + 1 \in A
    <3> SUFFICES ASSUME i < n + 1, n + 1 <= NumComputors
                 PROVE  extract10Bit(f[n + 1], i) = buffer[i]
      OBVIOUS
    <3>1. /\ n + 1 \in 1..NumComputors /\ (n + 1) - 1 = n /\ n \in 0..NumComputors
          /\ n \in Computors
      BY <1>2 DEF Computors
    <3>2. f[n + 1] = update10Bit(f[n], n, buffer[n])
      BY <1>1, <3>1
    <3>3. f[n] \in Packets /\ buffer[n] \in Nat /\ buffer[i] \in Nat
      BY <1>1, <3>1
    <3>4. CASE i = n
      <4>0. buffer[i] <= MaxVal
        BY <1>4 DEF Fits
      <4>1. buffer[n] \in 0..MaxVal
        <5>1. MaxVal \in Nat /\ \A v \in Nat : v <= MaxVal => v \in 0..MaxVal
          BY DEF MaxVal
        <5>2. buffer[n] \in Nat /\ buffer[n] <= MaxVal
          BY <3>3, <3>4, <4>0
        <5> QED
          BY <5>1, <5>2
      <4>2. extract10Bit(update10Bit(f[n], n, buffer[n]), n) = buffer[n]
        BY <3>1, <3>3, <4>1, UpdateFits
      <4> QED
        BY <3>2, <3>4, <4>2
    <3>5. CASE i < n
      <4>1. extract10Bit(f[n], i) = buffer[i]
        BY <2>2, <3>1, <3>5
      <4>2. n = i + 1 /\ i % 4 # 3 => buffer[n] <= MaxVal
        BY <1>4, <3>1 DEF Fits
      <4>3. extract10Bit(update10Bit(f[n], n, buffer[n]), i) = extract10Bit(f[n], i)
        BY <3>1, <3>3, <3>5, <4>2, UpdateKeeps
      <4> QED
        BY <3>2, <4>1, <4>3
    <3> QED
      BY <1>2, <3>4, <3>5
  <2> HIDE DEF A
  <2>3. NumComputors \in A
    BY <1>2, <2>1, <2>2, NatSetInduction
  <2> QED
    BY <1>1, <1>2, <2>3 DEF A
<1> QED
  BY <1>3, <1>4

\* A sum grows by a summand that was zero.
LEMMA TotalGrows ==
  ASSUME NEW n \in Nat, NEW m \in 0..(n - 1), NEW f, NEW g,
         \A i \in 0..(n - 1) : f[i] \in Nat /\ g[i] \in Nat,
         f[m] = 0, \A i \in 0..(n - 1) : i # m => g[i] = f[i]
  PROVE  Total(g, n) = Total(f, n) + g[m]
<1>1. PICK p : PartialSum(p, f, n)
  BY SumOf
<1>2. PICK q : PartialSum(q, g, n)
  BY SumOf
<1> DEFINE more(k) == IF m < k THEN g[m] ELSE 0
           A == {k \in Nat : k <= n => q[k] = p[k] + more(k)}
<1>3. m \in Nat /\ g[m] \in Nat
  OBVIOUS
<1>4. 0 \in A
  <2>1. p[0] = 0 /\ q[0] = 0 /\ more(0) = 0
    BY <1>1, <1>2, <1>3 DEF PartialSum
  <2> QED
    BY <2>1
<1>5. ASSUME NEW k \in Nat, k \in A PROVE k + 1 \in A
  <2> SUFFICES ASSUME k + 1 <= n PROVE q[k + 1] = p[k + 1] + more(k + 1)
    OBVIOUS
  <2>1. k \in 0..(n - 1) /\ k \in 0..n /\ k + 1 \in 1..n /\ (k + 1) - 1 = k
    OBVIOUS
  <2>2. /\ p[k + 1] = p[k] + f[k] /\ p[k] \in Nat /\ f[k] \in Nat
        /\ q[k + 1] = q[k] + g[k] /\ q[k] \in Nat /\ g[k] \in Nat
    BY <1>1, <1>2, <2>1 DEF PartialSum
  <2>3. q[k] = p[k] + more(k)
    BY <1>5, <2>1
  <2>4. CASE k = m
    <3>1. f[k] = 0 /\ more(k) = 0 /\ more(k + 1) = g[m]
      BY <1>3, <2>4
    <3> HIDE DEF more
    <3> QED
      BY <2>2, <2>3, <2>4, <3>1
  <2>5. CASE k # m
    <3>1. g[k] = f[k] /\ more(k + 1) = more(k) /\ more(k) \in Nat
      BY <1>3, <2>1, <2>5
    <3> HIDE DEF more
    <3> QED
      BY <2>2, <2>3, <3>1
  <2> QED
    BY <2>4, <2>5
<1> HIDE DEF A
<1>6. n \in A
  BY <1>4, <1>5, NatSetInduction
<1>7. q[n] = p[n] + g[m]
  BY <1>6 DEF A
<1> QED
  BY <1>1, <1>2, <1>7 DEF PartialSum

LEMMA TotalOfZeros ==
  ASSUME NEW n \in Nat, NEW f, \A i \in 0..(n - 1) : f[i] = 0
  PROVE  Total(f, n) = 0
<1>1. PICK p : PartialSum(p, f, n)
  BY SumOf
<1> DEFINE A == {k \in Nat : k <= n => p[k] = 0}
<1>2. 0 \in A
  BY <1>1 DEF PartialSum
<1>3. ASSUME NEW k \in Nat, k \in A PROVE k + 1 \in A
  <2> SUFFICES ASSUME k + 1 <= n PROVE p[k + 1] = 0
    OBVIOUS
  <2>1. k \in 0..(n - 1) /\ k + 1 \in 1..n /\ (k + 1) - 1 = k /\ p[k] = 0
    BY <1>3
  <2>2. p[k + 1] = p[k] + f[k] /\ f[k] = 0
    BY <1>1, <2>1 DEF PartialSum
  <2> QED
    BY <2>1, <2>2
<1> HIDE DEF A
<1>4. n \in A
  BY <1>2, <1>3, NatSetInduction
<1>5. p[n] = 0
  BY <1>4 DEF A
<1> QED
  BY <1>1, <1>5 DEF PartialSum

Told(reports, tick) ==
  /\ DOMAIN reports \subseteq 0..(tick - 1)
  /\ \A t \in DOMAIN reports :
       reports[t].from \in Computors /\ reports[t].counts \in [Computors -> Nat]

\* What the property says, of any totals and reports.
TotalsOf(totals, reports) ==
  \A i \in Computors :
    (\A t \in DOMAIN reports : Intact(reports[t], i) /\ Intact(reports[t], reports[t].from)) =>
      totals[i] = SaidOf(reports, i)

\* The saved totals are those of the saved reports, and no report is of a tick to come, so
\* that the next one counts once.
SharesInv ==
  /\ systemTick \in Nat /\ shareCount \in [Computors -> Nat]
  /\ accumulated \in [Computors -> Nat] /\ saved.accumulated \in [Computors -> Nat]
  /\ Told(heard, systemTick) /\ Told(saved.heard, systemTick)
  /\ TotalsOf(accumulated, heard) /\ TotalsOf(saved.accumulated, saved.heard)

LEMMA InitShares == SharesInit => SharesInv
<1> SUFFICES ASSUME SharesInit PROVE SharesInv
  OBVIOUS
<1>1. FirstTick \in Nat /\ LastTick \in Nat
  BY SharesAssumption
<1>2. Zero \in [Computors -> Nat] /\ \A i \in Computors : Zero[i] = 0
  BY DEF Zero
<1>3. DOMAIN Nothing = {}
  BY DEF Nothing
<1>4. Told(Nothing, systemTick)
  BY <1>3 DEF Told
<1>5. TotalsOf(Zero, Nothing)
  <2> SUFFICES ASSUME NEW i \in Computors PROVE SaidOf(Nothing, i) = 0
    BY <1>2 DEF TotalsOf
  <2> DEFINE f == [t \in 0..LastTick |->
                    IF t \in DOMAIN Nothing
                    THEN Reported(Nothing[t].counts, Nothing[t].from)[i] ELSE 0]
  <2>1. \A t \in 0..(LastTick - 1) : f[t] = 0
    BY <1>1, <1>3
  <2>2. SaidOf(Nothing, i) = Total(f, LastTick)
    BY DEF SaidOf
  <2> HIDE DEF f
  <2> QED
    BY <1>1, <2>1, <2>2, TotalOfZeros
<1>6. systemTick = FirstTick /\ shareCount = Zero /\ accumulated = Zero /\ heard = Nothing
      /\ saved.accumulated = Zero /\ saved.heard = Nothing
  BY DEF SharesInit
<1> QED
  BY <1>1, <1>2, <1>4, <1>5, <1>6 DEF SharesInv

LEMMA ReportedIs ==
  ASSUME NEW counts \in [Computors -> Nat], NEW own \in Computors
  PROVE  Reported(counts, own) \in [Computors -> Nat] /\ Reported(counts, own)[own] = 0
BY DEF Reported

\* A report taken adds to each total what it says, whether it was accepted or not: where it
\* is intact it is accepted.
LEMMA ReportTaken ==
  ASSUME SharesInv, NEW from \in Computors, systemTick < LastTick,
         addShares(compressNewSharesPacket(from), from),
         heard' = [t \in DOMAIN heard \cup {systemTick} |->
                     IF t = systemTick THEN [from |-> from, counts |-> shareCount]
                     ELSE heard[t]]
  PROVE  /\ accumulated' \in [Computors -> Nat]
         /\ Told(heard', systemTick + 1) /\ TotalsOf(accumulated', heard')
<1> DEFINE buffer == Reported(shareCount, from)
           packet == Packet(buffer)
           old == heard
           new == heard'
<1>1. /\ systemTick \in Nat /\ shareCount \in [Computors -> Nat]
      /\ accumulated \in [Computors -> Nat] /\ Told(old, systemTick)
      /\ TotalsOf(accumulated, old) /\ LastTick \in Nat
  BY SharesAssumption DEF SharesInv
<1>2. buffer \in [Computors -> Nat] /\ buffer[from] = 0
  BY <1>1, ReportedIs
<1>3. \A i \in Computors : /\ extract10Bit(packet, i) \in Nat
                           /\ Fits(buffer, i) => extract10Bit(packet, i) = buffer[i]
  <2> HIDE DEF buffer
  <2> QED
    BY <1>2, PacketRead
<1>4. accumulated' = IF extract10Bit(packet, from) = 0
                     THEN [i \in Computors |-> accumulated[i] + extract10Bit(packet, i)]
                     ELSE accumulated
  BY DEF addShares, compressNewSharesPacket, validateNewSharesPacket
<1>5. /\ DOMAIN new = DOMAIN old \cup {systemTick} /\ systemTick \notin DOMAIN old
      /\ new[systemTick].from = from /\ new[systemTick].counts = shareCount
      /\ \A t \in DOMAIN old : new[t] = old[t]
  BY <1>1 DEF Told
<1> HIDE DEF packet, buffer, old, new
<1>6. accumulated' \in [Computors -> Nat]
  BY <1>1, <1>3, <1>4
<1>7. Told(new, systemTick + 1)
  <2>1. DOMAIN old \subseteq 0..(systemTick - 1)
    BY <1>1 DEF Told
  <2>2. DOMAIN new \subseteq 0..((systemTick + 1) - 1)
    BY <1>1, <1>5, <2>1
  <2>3. ASSUME NEW t \in DOMAIN new
        PROVE  new[t].from \in Computors /\ new[t].counts \in [Computors -> Nat]
    <3>1. CASE t = systemTick
      BY <1>1, <1>5, <3>1
    <3>2. CASE t \in DOMAIN old
      BY <1>1, <1>5, <3>2 DEF Told
    <3> QED
      BY <1>5, <3>1, <3>2
  <2> QED
    BY <2>2, <2>3 DEF Told
<1>8. ASSUME NEW i \in Computors,
             \A t \in DOMAIN new : Intact(new[t], i) /\ Intact(new[t], new[t].from)
      PROVE  accumulated'[i] = SaidOf(new, i)
  <2>1. Fits(buffer, i) /\ Fits(buffer, from)
    <3>1. Intact(new[systemTick], i) /\ Intact(new[systemTick], new[systemTick].from)
      BY <1>5, <1>8
    <3> QED
      BY <1>5, <3>1 DEF Intact, buffer
  <2>2. accumulated'[i] = accumulated[i] + buffer[i]
    <3>1. extract10Bit(packet, from) = 0 /\ extract10Bit(packet, i) = buffer[i]
      BY <1>2, <1>3, <2>1
    <3> QED
      BY <1>4, <3>1
  <2>3. accumulated[i] = SaidOf(old, i)
    <3>1. \A t \in DOMAIN old : Intact(old[t], i) /\ Intact(old[t], old[t].from)
      BY <1>5, <1>8
    <3> QED
      BY <1>1, <3>1 DEF TotalsOf
  <2> DEFINE f == [t \in 0..LastTick |->
                    IF t \in DOMAIN old THEN Reported(old[t].counts, old[t].from)[i] ELSE 0]
             g == [t \in 0..LastTick |->
                    IF t \in DOMAIN new THEN Reported(new[t].counts, new[t].from)[i] ELSE 0]
  <2>4. SaidOf(old, i) = Total(f, LastTick) /\ SaidOf(new, i) = Total(g, LastTick)
    BY DEF SaidOf
  <2>5. systemTick \in 0..(LastTick - 1) /\ \A t \in 0..(LastTick - 1) : t \in 0..LastTick
    BY <1>1
  <2>6. f[systemTick] = 0 /\ g[systemTick] = buffer[i]
    BY <1>5, <2>5 DEF buffer
  <2>7. \A t \in 0..(LastTick - 1) : t # systemTick => g[t] = f[t]
    BY <1>5, <2>5
  <2>8. \A t \in 0..(LastTick - 1) : f[t] \in Nat /\ g[t] \in Nat
    <3>1. ASSUME NEW t \in DOMAIN old
          PROVE  Reported(old[t].counts, old[t].from)[i] \in Nat
      <4>1. old[t].from \in Computors /\ old[t].counts \in [Computors -> Nat]
        BY <1>1 DEF Told
      <4>2. Reported(old[t].counts, old[t].from) \in [Computors -> Nat]
        BY <4>1, ReportedIs
      <4> QED
        BY <4>2
    <3>2. \A t \in 0..(LastTick - 1) : f[t] \in Nat
      BY <2>5, <3>1
    <3>3. buffer[i] \in Nat
      BY <1>2
    <3> HIDE DEF f, g
    <3> QED
      BY <2>6, <2>7, <3>2, <3>3
  <2> HIDE DEF f, g
  <2>9. Total(g, LastTick) = Total(f, LastTick) + g[systemTick]
    <3> DEFINE n == LastTick
               m == systemTick
    <3>1. n \in Nat /\ m \in 0..(n - 1) /\ f[m] = 0
      BY <1>1, <2>5, <2>6
    <3>2. /\ \A t \in 0..(n - 1) : f[t] \in Nat /\ g[t] \in Nat
          /\ \A t \in 0..(n - 1) : t # m => g[t] = f[t]
      BY <2>7, <2>8
    <3> HIDE DEF n, m
    <3>3. Total(g, n) = Total(f, n) + g[m]
      BY <3>1, <3>2, TotalGrows
    <3> QED
      BY <3>3 DEF n, m
  <2> QED
    BY <2>2, <2>3, <2>4, <2>6, <2>9
<1>9. TotalsOf(accumulated', new)
  BY <1>8 DEF TotalsOf
<1> QED
  BY <1>6, <1>7, <1>9 DEF new

LEMMA NextShares == SharesInv /\ [SharesNext]_sharesVars => SharesInv'
<1> SUFFICES ASSUME SharesInv, [SharesNext]_sharesVars PROVE SharesInv'
  OBVIOUS
<1>1. systemTick \in Nat
  BY DEF SharesInv
<1>2. Zero \in [Computors -> Nat]
  BY DEF Zero
<1>3. \A reports : Told(reports, systemTick) => Told(reports, systemTick + 1)
  <2>1. \A t \in 0..(systemTick - 1) : t \in 0..((systemTick + 1) - 1)
    BY <1>1
  <2> QED
    BY <2>1 DEF Told
<1>4. CASE registerNewShareCount
  <2>1. shareCount' \in [Computors -> Nat]
    BY <1>4, SharesAssumption DEF registerNewShareCount
  <2>2. systemTick' = systemTick /\ accumulated' = accumulated /\ heard' = heard /\ saved' = saved
    BY <1>4 DEF registerNewShareCount
  <2> QED
    BY <2>1, <2>2 DEF SharesInv
<1>5. ASSUME NEW from \in Computors, NEW amount \in {0, 1}, NEW lock \in BOOLEAN,
             processTransactionData(from, amount, lock)
      PROVE  SharesInv'
  <2>1. systemTick < LastTick /\ systemTick' = systemTick + 1 /\ shareCount' = Zero /\ saved' = saved
    BY <1>5 DEF processTransactionData
  <2>2. /\ accumulated' \in [Computors -> Nat]
        /\ Told(heard', systemTick + 1) /\ TotalsOf(accumulated', heard')
    <3>1. CASE from = Leader(systemTick) /\ InWindow /\ amount = 0 /\ lock
      <4>1. /\ addShares(compressNewSharesPacket(from), from)
            /\ heard' = [t \in DOMAIN heard \cup {systemTick} |->
                           IF t = systemTick THEN [from |-> from, counts |-> shareCount]
                           ELSE heard[t]]
        BY <1>5, <3>1 DEF processTransactionData
      <4> QED
        BY <2>1, <4>1, ReportTaken
    <3>2. CASE ~ (from = Leader(systemTick) /\ InWindow /\ amount = 0 /\ lock)
      <4>1. accumulated' = accumulated /\ heard' = heard
        BY <1>5, <3>2 DEF processTransactionData
      <4> QED
        BY <1>3, <4>1 DEF SharesInv
    <3> QED
      BY <3>1, <3>2
  <2>3. systemTick + 1 \in Nat /\ Told(saved.heard, systemTick + 1)
    BY <1>1, <1>3 DEF SharesInv
  <2> QED
    BY <1>2, <2>1, <2>2, <2>3 DEF SharesInv
<1>6. CASE NoTransaction
  <2>1. /\ systemTick' = systemTick + 1 /\ shareCount' = Zero
        /\ accumulated' = accumulated /\ heard' = heard /\ saved' = saved
    BY <1>6 DEF NoTransaction
  <2>2. systemTick + 1 \in Nat /\ Told(heard, systemTick + 1) /\ Told(saved.heard, systemTick + 1)
    BY <1>1, <1>3 DEF SharesInv
  <2> QED
    BY <1>2, <2>1, <2>2 DEF SharesInv
<1>7. CASE saveAllDataToArray
  <2>1. saved'.accumulated = accumulated /\ saved'.heard = heard
    BY <1>7 DEF saveAllDataToArray
  <2>2. systemTick' = systemTick /\ shareCount' = shareCount
        /\ accumulated' = accumulated /\ heard' = heard
    BY <1>7 DEF saveAllDataToArray
  <2> QED
    BY <2>1, <2>2 DEF SharesInv
<1>8. CASE loadAllDataFromArray
  BY <1>8 DEF loadAllDataFromArray, SharesInv
<1>9. CASE UNCHANGED sharesVars
  BY <1>9 DEF sharesVars, SharesInv
<1> QED
  BY <1>4, <1>5, <1>6, <1>7, <1>8, <1>9 DEF SharesNext

\* What a node has added up for each computor is what the others reported of it, through
\* the packing of counts into ten bits, restarts from an older save, and for any number of
\* computors: as long as no count that could run into its field was beyond ten bits.
THEOREM SpecTotalsAreWhatOthersReported == SharesSpec => []TotalsAreWhatOthersReported
<1>1. SharesInv => TotalsAreWhatOthersReported
  BY DEF SharesInv, TotalsOf, TotalsAreWhatOthersReported
<1> QED
  BY <1>1, InitShares, NextShares, PTL DEF SharesSpec

=============================================================================
