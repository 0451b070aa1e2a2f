----------------------------- MODULE QinerProofs -----------------------------
(***************************************************************************)
(* The solo miner.  For every task, landscape of scores, seed table,       *)
(* number of steps and root table, the search its threads run (HillClimb)  *)
(* is type correct, its running score belongs to the table it can return   *)
(* to, the best score belongs to bestANN, it never leaves its best score   *)
(* (K = 0), and it does nothing but steps of the abstract search.  For any *)
(* number of threads and solutions, the queue between its threads and main *)
(* (QinerQueue) is the outbox it promises.                                 *)
(***************************************************************************)
EXTENDS HillClimb, QinerQueue, TLAPS, WellFoundedInduction, SequenceTheorems

-----------------------------------------------------------------------------
(* The search.                                                             *)

\* A mutation yields a lookup table of trits whatever the old trit was.
LEMMA MutateType ==
  ASSUME NEW lut \in LUT, NEW m \in Mutation
  PROVE  Mutate(lut, m) \in LUT
<1>1. m.line \in Lines /\ m.delta \in {0, 1}
  BY DEF Mutation
<1>2. lut[m.line] \in 0..2
  BY <1>1 DEF LUT, Trit
<1>3. (lut[m.line] + 1 + m.delta) % 3 \in 0..2
  BY <1>1, <1>2
<1> QED
  BY <1>1, <1>3 DEF Mutate, LUT, Trit

\* The number of mutations per step is between 1 and MaxL for every nonce byte.
LEMMA ClampLType ==
  ASSUME NEW raw \in Nat
  PROVE  ClampL(raw) \in 1..MaxL
BY SearchAssumption DEF ClampL

\* Scoring a table of a loaded task gives a score, hence a natural number.
LEMMA ScoreType ==
  ASSUME errs \in Landscapes, NEW lut \in LUT
  PROVE  errs[lut] \in Scores /\ errs[lut] \in Nat
BY SearchAssumption, LandscapeAssumption

-----------------------------------------------------------------------------
(* The mutations of a step, one by one.  Mutated is a recursive function, in *)
(* logic any function that satisfies its equation: that there is one, and    *)
(* that it does not depend on how far it is computed, has to be shown.       *)

\* Induction over the naturals, on a set instead of a formula.
LEMMA NatSetInduction ==
  ASSUME NEW A, 0 \in A, \A k \in Nat : k \in A => k + 1 \in A
  PROVE  Nat \subseteq A
<1> DEFINE less == {xy \in Nat \X Nat : xy[1] < xy[2]}
<1> DEFINE Out == Nat \ A
<1>1. IsWellFoundedOn(less, Nat)
  BY NatLessThanWellFounded DEF OpToRel
<1>2. SUFFICES ASSUME Out # {} PROVE FALSE
  OBVIOUS
<1>3. \E k \in Out : \A j \in Out : <<j, k>> \notin less
  BY <1>1, <1>2, WFMin
<1>4. PICK k \in Out : \A j \in Out : <<j, k>> \notin less
  BY <1>3
<1>5. k # 0 /\ k \in Nat /\ k - 1 \in Nat
  OBVIOUS
<1>6. <<k - 1, k>> \in less
  BY <1>5
<1>7. k - 1 \in A
  BY <1>4, <1>5, <1>6
<1> QED
  BY <1>5, <1>7

\* What defines the tables of the first n mutations of a row.
Tables(f, base, row, n) ==
  f = [j \in 0..n |-> IF j = 0 THEN base ELSE Mutate(f[j - 1], row[j])]

\* There are such tables, and two rows of them agree as far as both go.
LEMMA TablesExist ==
  ASSUME NEW base, NEW row, NEW n \in Nat
  PROVE  \E f : Tables(f, base, row, n)
<1> DEFINE A == {k \in Nat : \E f : Tables(f, base, row, k)}
<1>1. 0 \in A
  <2> DEFINE f == [j \in 0..0 |-> base]
  <2>1. Tables(f, base, row, 0)
    BY DEF Tables
  <2> QED
    BY <2>1
<1>2. ASSUME NEW k \in Nat, k \in A PROVE k + 1 \in A
  <2>1. PICK f : Tables(f, base, row, k)
    BY <1>2
  <2> DEFINE g == [j \in 0..(k + 1) |-> IF j = k + 1 THEN Mutate(f[k], row[k + 1]) ELSE f[j]]
  <2>2. \A j \in 0..(k + 1) :
          g[j] = IF j = 0 THEN base ELSE Mutate(g[j - 1], row[j])
    <3> SUFFICES ASSUME NEW j \in 0..(k + 1)
                 PROVE  g[j] = IF j = 0 THEN base ELSE Mutate(g[j - 1], row[j])
      OBVIOUS
    <3>1. CASE j = k + 1
      <4>1. g[k] = f[k] /\ j # 0 /\ j - 1 = k
        BY <3>1
      <4> QED
        BY <3>1, <4>1
    <3>2. CASE j # k + 1
      <4>1. j \in 0..k /\ g[j] = f[j]
        BY <3>2
      <4>2. f[j] = IF j = 0 THEN base ELSE Mutate(f[j - 1], row[j])
        BY <2>1, <4>1 DEF Tables
      <4>3. j # 0 => g[j - 1] = f[j - 1]
        BY <4>1
      <4> QED
        BY <4>1, <4>2, <4>3
    <3> QED
      BY <3>1, <3>2
  <2>3. g = [j \in 0..(k + 1) |-> g[j]]
    OBVIOUS
  <2> HIDE DEF g
  <2>4. Tables(g, base, row, k + 1)
    BY <2>2, <2>3 DEF Tables
  <2> QED
    BY <2>4
<1> QED
  BY <1>1, <1>2, NatSetInduction

LEMMA TablesAgree ==
  ASSUME NEW base, NEW row, NEW n \in Nat, NEW m \in Nat, n <= m,
         NEW f, NEW g, Tables(f, base, row, n), Tables(g, base, row, m)
  PROVE  \A j \in 0..n : f[j] = g[j]
<1> DEFINE A == {k \in Nat : k <= n => f[k] = g[k]}
<1>1. 0 \in A
  BY DEF Tables
<1>2. ASSUME NEW k \in Nat, k \in A PROVE k + 1 \in A
  <2>1. SUFFICES ASSUME k + 1 <= n PROVE f[k + 1] = g[k + 1]
    OBVIOUS
  <2>2. k + 1 \in 0..n /\ k + 1 \in 0..m /\ k + 1 # 0 /\ (k + 1) - 1 = k
    BY <2>1
  <2>3. f[k + 1] = Mutate(f[k], row[k + 1])
    BY <2>2 DEF Tables
  <2>4. g[k + 1] = Mutate(g[k], row[k + 1])
    BY <2>2 DEF Tables
  <2>5. f[k] = g[k]
    BY <1>2, <2>1
  <2> QED
    BY <2>3, <2>4, <2>5
<1>3. \A j \in 0..n : j \in Nat /\ j <= n
  OBVIOUS
<1>4. Nat \subseteq A
  BY <1>1, <1>2, NatSetInduction
<1> QED
  BY <1>3, <1>4

\* No mutation leaves the table, one more mutates it once more.
LEMMA MutatedStep ==
  ASSUME NEW base, NEW row, NEW n \in Nat
  PROVE  /\ Mutated(base, row, 0) = base
         /\ Mutated(base, row, n + 1) = Mutate(Mutated(base, row, n), row[n + 1])
<1> DEFINE after(k) == CHOOSE f : Tables(f, base, row, k)
<1>1. \A k \in Nat : Tables(after(k), base, row, k)
  BY TablesExist
<1>2. \A k \in Nat : Mutated(base, row, k) = after(k)[k]
  BY DEF Mutated, Tables
<1> HIDE DEF after
<1>3. after(0)[0] = base
  BY <1>1 DEF Tables
<1>4. after(n + 1)[n + 1] = Mutate(after(n + 1)[n], row[n + 1])
  <2>1. n + 1 \in 0..(n + 1) /\ n + 1 # 0 /\ (n + 1) - 1 = n /\ n + 1 \in Nat
    OBVIOUS
  <2> QED
    BY <1>1, <2>1 DEF Tables
<1>5. after(n + 1)[n] = after(n)[n]
  <2>1. n + 1 \in Nat /\ n <= n + 1 /\ n \in 0..n
    OBVIOUS
  <2> QED
    BY <1>1, <2>1, TablesAgree
<1> QED
  BY <1>2, <1>3, <1>4, <1>5

-----------------------------------------------------------------------------
\* Inductive invariant: the three facts about scores, with their types.
IInv == TypeOK /\ CurMatchesTable /\ BestMatchesBestANN /\ NeverLeavesBest

LEMMA InitIInv == Init => IInv
<1> SUFFICES ASSUME Init PROVE IInv
  OBVIOUS
<1>1. L \in 1..MaxL
  BY ClampLType, SearchAssumption DEF Init
<1>2. cur \in Scores
  BY ScoreType DEF Init
<1>3. TypeOK
  BY <1>1, <1>2, SearchAssumption, SeedAssumption DEF Init, TypeOK
<1> QED
  BY <1>3 DEF Init, IInv, CurMatchesTable, BestMatchesBestANN, NeverLeavesBest

LEMMA NextIInv == IInv /\ [Next]_vars => IInv'
<1> SUFFICES ASSUME IInv, [Next]_vars PROVE IInv'
  OBVIOUS
<1> USE DEF IInv, CurMatchesTable, BestMatchesBestANN, NeverLeavesBest
<1>1. CASE Snapshot
  <2>1. 0 \in 0..L
    BY SearchAssumption DEF TypeOK
  <2>2. TypeOK'
    BY <1>1, <2>1 DEF Snapshot, TypeOK
  <2> QED
    BY <1>1, <2>2 DEF Snapshot, TypeOK
<1>2. CASE MutateOne
  <2>1. s + 1 \in 1..NumSteps /\ i + 1 \in 1..MaxL /\ i + 1 \in 0..L
    BY <1>2, SearchAssumption DEF MutateOne, TypeOK
  <2>2. seeds[s + 1][i + 1] \in Mutation
    BY <2>1 DEF TypeOK, SeedTable
  <2>3. currentANN' \in LUT
    BY <1>2, <2>2, MutateType DEF MutateOne, TypeOK
  <2> QED
    BY <1>2, <2>1, <2>3 DEF MutateOne, TypeOK
<1>3. CASE Accept
  <2>1. errs[currentANN] \in Scores /\ errs[currentANN] \in Nat
    BY ScoreType DEF TypeOK
  <2>2. cur \in Nat /\ cur' \in Nat /\ cur' <= cur
    BY <1>3, <2>1, SearchAssumption DEF Accept, Accepts, TypeOK
  <2>3. s' \in 0..NumSteps
    BY <1>3, SearchAssumption DEF Accept, TypeOK
  <2>4. cur' \in Scores /\ best' \in Scores /\ bestANN' \in LUT
    BY <1>3, <2>1 DEF Accept, TypeOK
  <2>5. TypeOK'
    BY <1>3, <2>3, <2>4 DEF Accept, TypeOK
  <2>6. best' = errs'[bestANN'] /\ best' = cur'
    <3>1. CASE cur' < best
      BY <1>3, <3>1 DEF Accept
    <3>2. CASE ~ (cur' < best)
      <4>1. cur' = best
        BY <2>2, <3>2
      <4>2. best' = best /\ bestANN' = bestANN /\ errs' = errs
        BY <1>3, <3>2 DEF Accept
      <4> QED
        BY <4>1, <4>2
    <3> QED
      BY <3>1, <3>2
  <2> QED
    BY <1>3, <2>5, <2>6 DEF Accept
<1>4. CASE Reject
  <2>1. cur \in Nat /\ ~(cur < best)
    BY SearchAssumption DEF TypeOK
  <2>2. TypeOK'
    BY <1>4, <2>1, SearchAssumption DEF Reject, TypeOK
  <2> QED
    BY <1>4, <2>1, <2>2 DEF Reject, TypeOK
<1>5. CASE Return
  BY <1>5, SearchAssumption DEF Return, TypeOK
<1>6. CASE UNCHANGED vars
  BY <1>6 DEF vars, TypeOK
<1> QED
  BY <1>1, <1>2, <1>3, <1>4, <1>5, <1>6 DEF Next

THEOREM SpecIInv == Spec => []IInv
BY InitIInv, NextIInv, PTL DEF Spec

\* Type correctness of computeScore's state.
THEOREM SpecTypeOK == Spec => []TypeOK
<1>1. IInv => TypeOK
  BY DEF IInv
<1> QED
  BY SpecIInv, <1>1, PTL

\* The running score is the score of the current table between steps, and of
\* the snapshot inside a step: a rejected step restores both together.
THEOREM SpecCurMatchesTable == Spec => []CurMatchesTable
<1>1. IInv => CurMatchesTable
  BY DEF IInv
<1> QED
  BY SpecIInv, <1>1, PTL

\* The score computeScore returns is the score of the table in bestANN.
THEOREM SpecBestMatchesBestANN == Spec => []BestMatchesBestANN
<1>1. IInv => BestMatchesBestANN
  BY DEF IInv
<1> QED
  BY SpecIInv, <1>1, PTL

\* With K = 0 the search stands on its best score after every step.
THEOREM SpecNeverLeavesBest == Spec => []NeverLeavesBest
<1>1. IInv => NeverLeavesBest
  BY DEF IInv
<1> QED
  BY SpecIInv, <1>1, PTL

-----------------------------------------------------------------------------
(* The refinement.  Inside a step the abstract search still stands on the     *)
(* snapshot; what makes the step come out right is that the table under way   *)
(* is the snapshot with the mutations made so far.                            *)

TableUnderWay ==
  pc = "mutate" => currentANN = Mutated(prevANN, seeds[s + 1], i)

LEMMA InitTableUnderWay == Init => TableUnderWay
BY DEF Init, TableUnderWay

LEMMA NextTableUnderWay == IInv /\ TableUnderWay /\ [Next]_vars => TableUnderWay'
<1> SUFFICES ASSUME IInv, TableUnderWay, [Next]_vars, pc' = "mutate"
             PROVE  currentANN' = Mutated(prevANN, seeds[s + 1], i)'
  BY DEF TableUnderWay
<1>1. CASE Snapshot
  <2>1. currentANN' = currentANN /\ prevANN' = currentANN /\ i' = 0
    BY <1>1 DEF Snapshot
  <2>2. Mutated(currentANN, (seeds[s + 1])', 0) = currentANN
    BY MutatedStep
  <2> QED
    BY <2>1, <2>2
<1>2. CASE MutateOne
  <2>1. i \in Nat /\ i' = i + 1 /\ prevANN' = prevANN /\ s' = s /\ seeds' = seeds
    BY <1>2, SearchAssumption DEF MutateOne, IInv, TypeOK
  <2>2. currentANN' = Mutate(Mutated(prevANN, seeds[s + 1], i), seeds[s + 1][i + 1])
    BY <1>2 DEF MutateOne, TableUnderWay
  <2>3. Mutated(prevANN, seeds[s + 1], i + 1)
        = Mutate(Mutated(prevANN, seeds[s + 1], i), seeds[s + 1][i + 1])
    BY <2>1, MutatedStep
  <2> QED
    BY <2>1, <2>2, <2>3
<1>3. CASE Accept \/ Reject \/ Return
  BY <1>3 DEF Accept, Reject, Return
<1>4. CASE UNCHANGED vars
  BY <1>4 DEF vars, TableUnderWay
<1> QED
  BY <1>1, <1>2, <1>3, <1>4 DEF Next

\* The abstract search mutates as this one does.
LEMMA AbstractMutated ==
  ASSUME NEW base, NEW row, NEW n
  PROVE  Abstract!Mutated(base, row, n) = Mutated(base, row, n)
BY DEF Abstract!Mutated, Mutated, Abstract!Mutate, Mutate

LEMMA StepOfAbstract ==
  IInv /\ TableUnderWay /\ [Next]_vars => [Abstract!Step]_Abstract!vars
<1> SUFFICES ASSUME IInv, TableUnderWay, [Next]_vars
             PROVE  [Abstract!Step]_Abstract!vars
  OBVIOUS
<1> USE DEF Abstract!vars
<1>1. CASE Snapshot \/ MutateOne \/ Return
  BY <1>1 DEF Snapshot, MutateOne, Return
<1>2. ASSUME Accept \/ Reject
      PROVE  /\ s < NumSteps /\ s' = s + 1
             /\ Abstract!Mutated(prevANN, seeds[s + 1], L) = currentANN
             /\ UNCHANGED <<errs, seeds, L>> /\ pc = "mutate" /\ pc' = "snapshot"
  <2>1. pc = "mutate" /\ i = L
    BY <1>2 DEF Accept, Reject
  <2>2. Abstract!Mutated(prevANN, seeds[s + 1], L) = currentANN
    BY <2>1, AbstractMutated DEF TableUnderWay
  <2> QED
    BY <1>2, <2>1, <2>2 DEF Accept, Reject, IInv, TypeOK
<1>3. CASE Accept
  <2>1. best' = Abstract!Lower(cur', best)
    BY <1>3 DEF Accept, Abstract!Lower
  <2>2. Abstract!Accepts(errs[currentANN], cur) /\ cur' = errs[currentANN]
        /\ currentANN' = currentANN
    BY <1>3 DEF Accept, Accepts, Abstract!Accepts
  <2> QED
    BY <1>2, <1>3, <2>1, <2>2 DEF Abstract!Step
<1>4. CASE Reject
  <2>1. best' = Abstract!Lower(cur', best)
    <3>1. cur' = cur
      BY <1>4 DEF Reject
    <3> QED
      BY <1>4, <3>1 DEF Reject, Abstract!Lower
  <2>2. ~ Abstract!Accepts(errs[currentANN], cur) /\ cur' = cur
        /\ currentANN' = prevANN
    BY <1>4 DEF Reject, Accepts, Abstract!Accepts
  <2> QED
    BY <1>2, <1>4, <2>1, <2>2 DEF Abstract!Step
<1>5. CASE UNCHANGED vars
  BY <1>5 DEF vars
<1> QED
  BY <1>1, <1>3, <1>4, <1>5 DEF Next

LEMMA InitOfAbstract == Init => Abstract!Init
BY DEF Init, Abstract!Init, ClampL, Abstract!ClampL, LUT, Abstract!LUT, Trit, Abstract!Trit

\* The CPU search implements the abstract one, for every landscape, number of steps
\* and mutations per step: snapshot, mutations in place, roll-back and best-keeping
\* come to one step of the abstract search, or to none.
THEOREM SpecImplementsClimb == Spec => ImplementsClimb
BY SpecIInv, InitTableUnderWay, NextTableUnderWay, StepOfAbstract, InitOfAbstract, PTL
   DEF Spec, ImplementsClimb, Abstract!Spec

-----------------------------------------------------------------------------
(* The queue.                                                              *)

Recorded == Range(foundNonce) \cup Range(handed)

QueueTypeOK ==
  /\ thread \in [Threads -> {"load", "search", "evaluate", "push", "left"}]
  /\ found \in [Threads -> 0..MaxFound]
  /\ foundNonce \in Seq(Solutions) /\ handed \in Seq(Solutions)

\* A thread's solutions are numbered as it finds them; the one it is about to push is
\* numbered beyond all of its own that are in the queue or handed over.
NumbersKnown ==
  /\ \A t \in Threads : thread[t] = "push" => found[t] >= 1
  /\ \A solution \in Recorded :
       LET t == solution[1]
       IN  solution[2] <= found[t] /\ (thread[t] = "push" => solution[2] < found[t])

\* From the copy to the pop the solution being sent is the front of the queue, wherever
\* the threads push meanwhile.
FrontIsSent ==
  /\ main \in {"connect", "send"} => foundNonce # <<>> /\ sendNonce = Head(foundNonce)
  /\ main = "pop" => foundNonce # <<>>

QueueInv == QueueTypeOK /\ NumbersKnown /\ FrontIsSent

\* The fields of a solution.
LEMMA SolutionFields ==
  ASSUME NEW solution \in Solutions
  PROVE  solution[1] \in Threads /\ solution[2] \in 1..MaxFound
BY DEF Solutions

LEMMA RangeOfAppend ==
  ASSUME NEW S, NEW q \in Seq(S), NEW e \in S
  PROVE  /\ Range(Append(q, e)) = Range(q) \cup {e}
         /\ q # <<>> => /\ Head(Append(q, e)) = Head(q)
                       /\ Tail(Append(q, e)) = Append(Tail(q), e)
         /\ Append(q, e) # <<>> /\ Append(q, e) \in Seq(S)
<1> DEFINE r == Append(q, e)
<1>1. /\ r \in Seq(S) /\ Len(r) = Len(q) + 1 /\ r[Len(q) + 1] = e /\ r # <<>>
      /\ \A k \in 1..Len(q) : r[k] = q[k]
  BY AppendProperties
<1>2. Len(q) \in Nat /\ DOMAIN q = 1..Len(q) /\ DOMAIN r = 1..Len(r)
  BY <1>1
<1>3. Range(r) = Range(q) \cup {e}
  <2> HIDE DEF r
  <2>1. 1..Len(r) = 1..Len(q) \cup {Len(q) + 1}
    BY <1>1, <1>2
  <2> QED
    BY <1>1, <1>2, <2>1 DEF Range
<1>4. ASSUME q # <<>>
      PROVE  Head(r) = Head(q) /\ Tail(r) = Append(Tail(q), e)
  <2>1. Len(q) >= 1
    BY <1>2, <1>4, EmptySeq
  <2>2. Head(r) = Head(q)
    BY <1>1, <2>1
  <2>3. /\ Tail(r) \in Seq(S) /\ Len(Tail(r)) = Len(q)
        /\ \A k \in 1..Len(q) : Tail(r)[k] = r[k + 1]
    BY <1>1, <1>2, HeadTailProperties
  <2>4. /\ Tail(q) \in Seq(S) /\ Len(Tail(q)) = Len(q) - 1
        /\ \A k \in 1..(Len(q) - 1) : Tail(q)[k] = q[k + 1]
    BY <1>4, HeadTailProperties
  <2>5. /\ Append(Tail(q), e) \in Seq(S) /\ Len(Append(Tail(q), e)) = Len(q)
        /\ \A k \in 1..(Len(q) - 1) : Append(Tail(q), e)[k] = Tail(q)[k]
        /\ Append(Tail(q), e)[Len(q)] = e
    BY <1>2, <2>4, AppendProperties
  <2>6. \A k \in 1..Len(q) : Tail(r)[k] = Append(Tail(q), e)[k]
    <3>1. ASSUME NEW k \in 1..(Len(q) - 1) PROVE Tail(r)[k] = Append(Tail(q), e)[k]
      <4>1. k \in 1..Len(q) /\ k + 1 \in 1..Len(q)
        BY <1>2
      <4> QED
        BY <1>1, <2>3, <2>4, <2>5, <4>1
    <3>2. Tail(r)[Len(q)] = Append(Tail(q), e)[Len(q)]
      <4>1. Len(q) \in 1..Len(q)
        BY <1>2, <2>1
      <4> QED
        BY <1>1, <2>3, <2>5, <4>1
    <3>3. \A k \in 1..Len(q) : k \in 1..(Len(q) - 1) \/ k = Len(q)
      <4>1. \A n \in Nat : \A k \in 1..n : k \in 1..(n - 1) \/ k = n
        OBVIOUS
      <4> QED
        BY <1>2, <4>1
    <3> QED
      BY <3>1, <3>2, <3>3
  <2> QED
    BY <2>2, <2>3, <2>5, <2>6, SeqEqual
<1> QED
  BY <1>1, <1>3, <1>4

LEMMA RangeOfTail ==
  ASSUME NEW S, NEW q \in Seq(S), q # <<>>
  PROVE  Range(Tail(q)) \subseteq Range(q) /\ Tail(q) \in Seq(S) /\ Head(q) \in Range(q)
<1>1. /\ Tail(q) \in Seq(S) /\ Len(Tail(q)) = Len(q) - 1
      /\ \A k \in 1..Len(Tail(q)) : Tail(q)[k] = q[k + 1]
  BY HeadTailProperties
<1>2. Len(q) \in Nat /\ Len(q) >= 1 /\ DOMAIN q = 1..Len(q)
      /\ DOMAIN Tail(q) = 1..Len(Tail(q))
  BY <1>1, EmptySeq
<1>3. \A k \in 1..Len(Tail(q)) : k + 1 \in 1..Len(q)
  BY <1>1, <1>2
<1>4. 1 \in 1..Len(q) /\ Head(q) = q[1]
  BY <1>2
<1> QED
  BY <1>1, <1>2, <1>3, <1>4 DEF Range

LEMMA InitQueueInv == QueueInit => QueueInv
<1> SUFFICES ASSUME QueueInit PROVE QueueInv
  OBVIOUS
<1>1. Range(foundNonce) = {} /\ Range(handed) = {}
  BY DEF QueueInit, Range
<1> QED
  BY <1>1, QinerAssumption DEF QueueInit, QueueInv, QueueTypeOK, NumbersKnown, FrontIsSent, Recorded

pending == IF main = "pop" THEN Tail(foundNonce) ELSE foundNonce

\* What is queued or handed over.
LEMMA RecordedSolutions == QueueTypeOK => Recorded \subseteq Solutions
BY DEF QueueTypeOK, Recorded, Range

\* A step of a thread that neither finds nor pushes.
LEMMA ThreadMoves ==
  ASSUME QueueInv, NEW t \in Threads, NEW to \in {"search", "evaluate", "left"},
         thread' = [thread EXCEPT ![t] = to],
         UNCHANGED <<found, foundNonce, handed, main, sendNonce>>
  PROVE  QueueInv' /\ UNCHANGED <<pending, handed>>
<1>1. QueueTypeOK'
  BY DEF QueueInv, QueueTypeOK
<1>2. \A u \in Threads : thread'[u] = "push" => thread[u] = "push"
  BY DEF QueueInv, QueueTypeOK
<1>3. UNCHANGED Recorded
  BY DEF Recorded
<1>4. \A solution \in Recorded : solution[1] \in Threads
  BY RecordedSolutions, SolutionFields DEF QueueInv
<1>5. NumbersKnown'
  BY <1>2, <1>3, <1>4 DEF QueueInv, NumbersKnown
<1> QED
  BY <1>1, <1>5 DEF QueueInv, FrontIsSent, pending

LEMMA FindKeeps ==
  ASSUME QueueInv, NEW t \in Threads, FindSolution(t)
  PROVE  QueueInv' /\ UNCHANGED <<pending, handed>>
<1>1. /\ thread[t] = "evaluate" /\ thread' = [thread EXCEPT ![t] = "push"]
      /\ found[t] < MaxFound /\ found' = [found EXCEPT ![t] = found[t] + 1]
      /\ UNCHANGED <<foundNonce, handed, main, sendNonce>>
  BY DEF FindSolution, Goes, sender
<1>2. found[t] \in Nat /\ \A u \in Threads : found[u] \in 0..MaxFound
  BY QinerAssumption DEF QueueInv, QueueTypeOK
<1>3. /\ \A u \in Threads : found'[u] = IF u = t THEN found[t] + 1 ELSE found[u]
      /\ \A u \in Threads : thread'[u] = IF u = t THEN "push" ELSE thread[u]
  BY <1>1 DEF QueueInv, QueueTypeOK
<1>4. QueueTypeOK'
  <2>1. found[t] + 1 \in 0..MaxFound
    BY <1>1, <1>2, QinerAssumption
  <2> QED
    BY <1>1, <2>1 DEF QueueInv, QueueTypeOK
<1>5. NumbersKnown'
  <2>1. \A u \in Threads : thread'[u] = "push" => found'[u] >= 1
    BY <1>2, <1>3 DEF QueueInv, NumbersKnown
  <2>2. ASSUME NEW solution \in Recorded'
        PROVE  LET u == solution[1]
               IN  /\ solution[2] <= found'[u]
                   /\ thread'[u] = "push" => solution[2] < found'[u]
    <3>1. solution \in Recorded
      BY <1>1 DEF Recorded
    <3>2. solution[1] \in Threads /\ solution[2] \in Nat
      BY <3>1, RecordedSolutions, SolutionFields DEF QueueInv
    <3>3. LET u == solution[1]
          IN  solution[2] <= found[u] /\ (thread[u] = "push" => solution[2] < found[u])
      BY <3>1 DEF QueueInv, NumbersKnown
    <3> QED
      BY <1>2, <1>3, <3>2, <3>3
  <2> QED
    BY <2>1, <2>2 DEF NumbersKnown
<1> QED
  BY <1>1, <1>4, <1>5 DEF QueueInv, FrontIsSent, pending

\* A push is the only step that adds to what is pending: a solution that is neither
\* pending nor handed over, behind all that are.
LEMMA PushFinds ==
  ASSUME QueueInv, NEW t \in Threads, Push(t)
  PROVE  QueueInv' /\ Outbox!Find(<<t, found[t]>>)
<1> DEFINE new == <<t, found[t]>>
<1>1. /\ thread[t] = "push" /\ thread' = [thread EXCEPT ![t] = "search"]
      /\ foundNonce' = Append(foundNonce, new)
      /\ UNCHANGED <<found, handed, main, sendNonce>>
  BY DEF Push, Goes, sender
<1>2. new \in Solutions /\ new[1] = t /\ new[2] = found[t] /\ found[t] \in Nat
  BY <1>1, QinerAssumption DEF QueueInv, QueueTypeOK, NumbersKnown, Solutions
<1>3. new \notin Recorded
  <2>1. ASSUME new \in Recorded PROVE FALSE
    <3>1. found[t] < found[t]
      BY <1>1, <1>2, <2>1 DEF QueueInv, NumbersKnown
    <3> QED
      BY <1>2, <3>1
  <2> QED
    BY <2>1
<1> HIDE DEF new
<1>4. /\ foundNonce' \in Seq(Solutions) /\ foundNonce' # <<>>
      /\ Range(foundNonce') = Range(foundNonce) \cup {new}
      /\ foundNonce # <<>> => /\ Head(foundNonce') = Head(foundNonce)
                             /\ Tail(foundNonce') = Append(Tail(foundNonce), new)
  BY <1>1, <1>2, RangeOfAppend DEF QueueInv, QueueTypeOK
<1>5. \A u \in Threads : thread'[u] = IF u = t THEN "search" ELSE thread[u]
  BY <1>1 DEF QueueInv, QueueTypeOK
<1>6. QueueTypeOK'
  BY <1>1, <1>4 DEF QueueInv, QueueTypeOK
<1>7. NumbersKnown'
  <2>1. \A u \in Threads : thread'[u] = "push" => found'[u] >= 1
    BY <1>1, <1>5 DEF QueueInv, NumbersKnown
  <2>2. ASSUME NEW solution \in Recorded'
        PROVE  LET u == solution[1]
               IN  /\ solution[2] <= found'[u]
                   /\ thread'[u] = "push" => solution[2] < found'[u]
    <3>1. solution \in Recorded \/ solution = new
      BY <1>1, <1>4 DEF Recorded
    <3>2. CASE solution = new
      BY <1>1, <1>2, <1>5, <3>2
    <3>3. CASE solution \in Recorded
      <4>1. solution[1] \in Threads
        BY <3>3, RecordedSolutions, SolutionFields DEF QueueInv
      <4> QED
        BY <1>1, <1>5, <3>3, <4>1 DEF QueueInv, NumbersKnown
    <3> QED
      BY <3>1, <3>2, <3>3
  <2> QED
    BY <2>1, <2>2 DEF NumbersKnown
<1>8. FrontIsSent'
  BY <1>1, <1>4 DEF QueueInv, FrontIsSent
<1>9. pending' = Append(pending, new)
  BY <1>1, <1>4 DEF QueueInv, FrontIsSent, pending
<1>10. new \notin Range(pending) \cup Range(handed)
  BY <1>3, RangeOfTail DEF pending, Recorded, QueueInv, QueueTypeOK, FrontIsSent
<1> QED
  BY <1>1, <1>2, <1>6, <1>7, <1>8, <1>9, <1>10
     DEF QueueInv, Outbox!Find, Outbox!Range, Range, pending, new

\* The last part of a packet hands over the front of what is pending.
LEMMA SendPartHandsOver ==
  ASSUME QueueInv, SendPart
  PROVE  QueueInv' /\ (Outbox!HandOver \/ UNCHANGED <<pending, handed>>)
<1>1. main = "send" /\ foundNonce # <<>> /\ sendNonce = Head(foundNonce)
  BY DEF QueueInv, FrontIsSent, SendPart, At
<1>2. UNCHANGED <<thread, found, foundNonce, sendNonce>>
  BY DEF SendPart, miners
<1>3. CASE unsent = 1
  <2>1. main' = "pop" /\ handed' = Append(handed, Head(foundNonce))
    BY <1>1, <1>3 DEF SendPart
  <2>2. Head(foundNonce) \in Range(foundNonce) /\ Head(foundNonce) \in Solutions
    BY <1>1, RangeOfTail DEF QueueInv, QueueTypeOK, Range
  <2>3. /\ handed' \in Seq(Solutions)
        /\ Range(handed') = Range(handed) \cup {Head(foundNonce)}
    BY <2>1, <2>2, RangeOfAppend DEF QueueInv, QueueTypeOK
  <2>4. Recorded' = Recorded
    BY <1>2, <2>2, <2>3 DEF Recorded
  <2>5. NumbersKnown'
    BY <1>2, <2>4 DEF QueueInv, NumbersKnown
  <2>6. QueueInv'
    BY <1>1, <1>2, <2>1, <2>3, <2>5 DEF QueueInv, QueueTypeOK, FrontIsSent
  <2>7. pending = foundNonce /\ pending' = Tail(foundNonce)
    BY <1>1, <1>2, <2>1 DEF pending
  <2> QED
    BY <1>1, <2>1, <2>6, <2>7 DEF Outbox!HandOver, pending
<1>4. CASE unsent # 1
  BY <1>1, <1>2, <1>4
     DEF SendPart, QueueInv, QueueTypeOK, NumbersKnown, Recorded, FrontIsSent, pending
<1> QED
  BY <1>3, <1>4

LEMMA PopKeeps ==
  ASSUME QueueInv, Pop
  PROVE  QueueInv' /\ UNCHANGED <<pending, handed>>
<1>1. /\ main = "pop" /\ main' = "sleep" /\ foundNonce # <<>> /\ foundNonce' = Tail(foundNonce)
      /\ UNCHANGED <<thread, found, handed, sendNonce>>
  BY DEF QueueInv, FrontIsSent, Pop, At, miners
<1>2. foundNonce' \in Seq(Solutions) /\ Range(foundNonce') \subseteq Range(foundNonce)
  BY <1>1, RangeOfTail DEF QueueInv, QueueTypeOK
<1>3. Recorded' \subseteq Recorded
  BY <1>1, <1>2 DEF Recorded
<1>4. NumbersKnown'
  BY <1>1, <1>3 DEF QueueInv, NumbersKnown
<1> QED
  BY <1>1, <1>2, <1>4 DEF QueueInv, QueueTypeOK, FrontIsSent, pending

\* Every other step of main, Ctrl-C and the node change neither the queue nor what was
\* handed over.
LEMMA OthersKeep ==
  ASSUME QueueInv,
         Peek \/ Connect \/ ConnectFails \/ SendFails \/ BrokenPipe \/ Wake \/ LeaveLoop
         \/ JoinAll \/ Interrupt \/ NodeResets \/ UNCHANGED queueVars
  PROVE  QueueInv' /\ UNCHANGED <<pending, handed>>
<1>1. UNCHANGED <<thread, found, foundNonce, handed>>
  BY DEF Peek, Connect, ConnectFails, SendFails, BrokenPipe, Wake, LeaveLoop, JoinAll, Interrupt,
         NodeResets, queueVars, miners, sender
<1>2. QueueTypeOK' /\ NumbersKnown'
  BY <1>1 DEF QueueInv, QueueTypeOK, NumbersKnown, Recorded
<1>3. FrontIsSent' /\ (main' = "pop" <=> main = "pop")
  BY <1>1
     DEF QueueInv, FrontIsSent, At, Peek, Connect, ConnectFails, SendFails, BrokenPipe, Wake,
         LeaveLoop, JoinAll, Interrupt, NodeResets, queueVars, miners, sender
<1> QED
  BY <1>1, <1>2, <1>3 DEF QueueInv, pending

LEMMA StepOfOutbox ==
  QueueInv /\ [QueueNext]_queueVars => QueueInv' /\ [Outbox!Next]_(Outbox!vars)
<1> SUFFICES ASSUME QueueInv, [QueueNext]_queueVars
             PROVE  QueueInv' /\ [Outbox!Next]_(Outbox!vars)
  OBVIOUS
<1>1. ASSUME QueueInv' /\ UNCHANGED <<pending, handed>>
      PROVE  QueueInv' /\ [Outbox!Next]_(Outbox!vars)
  BY <1>1 DEF Outbox!vars, pending
<1>2. ASSUME NEW t \in Threads, Mine(t)
      PROVE  QueueInv' /\ [Outbox!Next]_(Outbox!vars)
  <2>1. CASE Load(t) \/ LoadFails(t) \/ Draw(t) \/ FindNothing(t) \/ Leave(t)
    BY <1>1, <2>1, ThreadMoves
       DEF Load, LoadFails, Draw, FindNothing, Leave, Goes, sender
  <2>2. CASE FindSolution(t)
    BY <1>1, <2>2, FindKeeps
  <2>3. CASE Push(t)
    <3>1. QueueInv' /\ Outbox!Find(<<t, found[t]>>)
      BY <2>3, PushFinds
    <3>2. <<t, found[t]>> \in Solutions
      BY <3>1 DEF Outbox!Find
    <3> QED
      BY <3>1, <3>2 DEF Outbox!Next
  <2> QED
    BY <1>2, <2>1, <2>2, <2>3 DEF Mine
<1>3. CASE SendPart
  BY <1>1, <1>3, SendPartHandsOver DEF Outbox!Next
<1>4. CASE Pop
  BY <1>1, <1>4, PopKeeps
<1>5. CASE Peek \/ Connect \/ ConnectFails \/ SendFails \/ BrokenPipe \/ Wake \/ LeaveLoop
           \/ JoinAll \/ Interrupt \/ NodeResets \/ UNCHANGED queueVars
  BY <1>1, <1>5, OthersKeep
<1> QED
  BY <1>2, <1>3, <1>4, <1>5 DEF QueueNext, Main, Send

LEMMA InitOfOutbox == QueueInit => Outbox!Init
BY DEF QueueInit, Outbox!Init

\* For any number of threads, of solutions and of parts to a packet: whatever fails and is
\* tried again, no solution is handed over twice, out of turn or in part, and none that
\* was found gets lost on its way.
THEOREM SpecImplementsOutbox == QueueSpec => ImplementsOutbox
BY InitQueueInv, InitOfOutbox, StepOfOutbox, PTL DEF QueueSpec, ImplementsOutbox, Outbox!Spec
=============================================================================
