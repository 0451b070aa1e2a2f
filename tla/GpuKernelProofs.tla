--------------------------- MODULE GpuKernelProofs ---------------------------
(***************************************************************************)
(* For every cohort, number of windows, threadgroup and SIMD width, and    *)
(* network: no thread uses a row that is not staged, and what a completed  *)
(* dispatch reads back are the scores of its tables.  Both need a          *)
(* threadgroup with a thread for every row to stage (RowsFit).             *)
(***************************************************************************)
EXTENDS GpuKernel, TLAPS, FiniteSetTheorems

\* Every row has a thread that stages it.  init does not ask for this: of the sizes
\* it tries the smallest, 32, is below the 46 rows of the live task.
RowsFit == NumUpdated <= TgSize

-----------------------------------------------------------------------------
(* Windows and threads.                                                    *)

\* The thread that runs window w of candidate c.
GroupOf(c, w) == <<c, w \div TgSize>>
LaneOf(w) == w % TgSize

\* A set of numbers that is not empty has a least one.
LEMMA LeastExists ==
  ASSUME NEW S \in SUBSET Nat, S # {}
  PROVE  \E k \in S : \A j \in S : k <= j
<1> DEFINE less == {xy \in Nat \X Nat : xy[1] < xy[2]}
<1>1. IsWellFoundedOn(less, Nat)
  BY NatLessThanWellFounded DEF OpToRel
<1>2. PICK k \in S : \A j \in S : <<j, k>> \notin less
  BY <1>1, WFMin
<1>3. ASSUME NEW j \in S, j < k PROVE <<j, k>> \in less
  <2>1. <<j, k>> \in Nat \X Nat /\ <<j, k>>[1] = j /\ <<j, k>>[2] = k
    OBVIOUS
  <2> QED
    BY <1>3, <2>1
<1> HIDE DEF less
<1>4. ASSUME NEW j \in S PROVE k <= j
  <2>1. ~ (j < k)
    BY <1>2, <1>3
  <2>2. j \in Nat /\ k \in Nat
    OBVIOUS
  <2> QED
    BY <2>1, <2>2
<1> QED
  BY <1>4

LEMMA TgSizeIsPositive == TgSize \in Nat \ {0}
<1>1. Viable \in SUBSET Nat /\ Viable # {} /\ Viable \subseteq 1..Len(TgSizes)
  BY KernelAssumption DEF Viable
<1>2. \E k \in Viable : \A j \in Viable : k <= j
  BY <1>1, LeastExists
<1>3. (CHOOSE k \in Viable : \A j \in Viable : k <= j) \in 1..Len(TgSizes)
  BY <1>1, <1>2
<1> QED
  BY <1>3, KernelAssumption DEF TgSize

\* Division with remainder, and that there is only one.
LEMMA Division ==
  ASSUME NEW n \in Nat, NEW d \in Nat \ {0}
  PROVE  /\ n \div d \in Nat /\ n % d \in 0..(d - 1)
         /\ n = (n \div d) * d + (n % d)
OBVIOUS

LEMMA DivisionIsUnique ==
  ASSUME NEW q \in Nat, NEW d \in Nat \ {0}, NEW m \in 0..(d - 1)
  PROVE  (q * d + m) \div d = q /\ (q * d + m) % d = m
<1> DEFINE n == q * d + m
<1>1. n \in Nat
  OBVIOUS
<1>2. n \div d \in Nat /\ n % d \in 0..(d - 1) /\ n = (n \div d) * d + (n % d)
  BY <1>1, Division
<1> QED
  OBVIOUS

LEMMA ThreadOfWindow ==
  ASSUME NEW c \in Cands, NEW w \in Windows
  PROVE  /\ GroupOf(c, w) \in Groups /\ GroupOf(c, w)[1] = c /\ LaneOf(w) \in Lanes
         /\ WindowOf(GroupOf(c, w), LaneOf(w)) = w
<1> DEFINE d == TgSize
           q == w \div d
           m == w % d
<1>1. d \in Nat \ {0} /\ w \in Nat /\ NumWindows \in Nat \ {0} /\ w <= NumWindows - 1
  BY TgSizeIsPositive, NetAssumption DEF Windows
<1>2. q \in Nat /\ m \in 0..(d - 1) /\ w = q * d + m
  BY <1>1, Division
<1> HIDE DEF d, q, m
<1>3. q <= NumGroups - 1
  <2> DEFINE n == NumWindows + d - 1
             k == n \div d
  <2>1. n \in Nat /\ k \in Nat /\ n % d \in 0..(d - 1) /\ n = k * d + (n % d)
    <3>1. n \in Nat
      BY <1>1
    <3> HIDE DEF n
    <3> QED
      BY <1>1, <3>1, Division
  <2>2. NumGroups = k
    BY DEF NumGroups, d
  <2> DEFINE rest == n % d
  <2>3. rest \in 0..(d - 1) /\ n = k * d + rest
    BY <2>1
  <2> HIDE DEF k, rest
  <2>4. (q + 1) * d <= n
    <3>1. (q + 1) * d = q * d + d /\ q * d \in Nat
      BY <1>1, <1>2
    <3> QED
      BY <1>1, <1>2, <3>1
  <2> HIDE DEF n
  <2>5. n < (k + 1) * d
    <3>1. (k + 1) * d = k * d + d /\ k * d \in Nat
      BY <1>1, <2>1
    <3> QED
      BY <1>1, <2>1, <2>3, <3>1
  <2>6. ASSUME k < q + 1 PROVE FALSE
    <3>1. (k + 1) * d <= (q + 1) * d
      BY <1>1, <1>2, <2>1, <2>6
    <3>2. (k + 1) * d \in Nat /\ (q + 1) * d \in Nat
      BY <1>1, <1>2, <2>1
    <3> QED
      BY <2>1, <2>4, <2>5, <3>1, <3>2
  <2> QED
    BY <1>2, <2>1, <2>2, <2>6
<1>4. q \in 0..(NumGroups - 1)
  <2>1. NumGroups \in Int
    <3>1. NumWindows + TgSize - 1 \in Nat
      BY <1>1, TgSizeIsPositive
    <3> QED
      BY <3>1, Division, TgSizeIsPositive DEF NumGroups
  <2> QED
    BY <1>2, <1>3, <2>1
<1> QED
  BY <1>2, <1>4 DEF GroupOf, LaneOf, Groups, Lanes, WindowOf, q, m, d

LEMMA WindowOfThread ==
  ASSUME NEW g \in Groups, NEW lane \in Lanes
  PROVE  /\ g[1] \in Cands /\ WindowOf(g, lane) \in Nat
         /\ ~ (WindowOf(g, lane) >= NumWindows) => WindowOf(g, lane) \in Windows
         /\ GroupOf(g[1], WindowOf(g, lane)) = g /\ LaneOf(WindowOf(g, lane)) = lane
<1>1. g = <<g[1], g[2]>> /\ g[1] \in Cands /\ g[2] \in Nat
  BY DEF Groups
<1>2. WindowOf(g, lane) = g[2] * TgSize + lane
  BY DEF WindowOf
<1>3. TgSize \in Nat \ {0} /\ lane \in 0..(TgSize - 1)
  BY TgSizeIsPositive DEF Lanes
<1>4. (g[2] * TgSize + lane) \div TgSize = g[2] /\ (g[2] * TgSize + lane) % TgSize = lane
  BY <1>1, <1>3, DivisionIsUnique
<1>5. g[2] * TgSize + lane \in Nat
  BY <1>1, <1>3
<1> QED
  BY <1>1, <1>2, <1>4, <1>5, NetAssumption DEF GroupOf, LaneOf, Windows

-----------------------------------------------------------------------------
(* The inductive invariant.                                                *)

Past == {"run", "time out", "reduce", "done"}      \* places beyond the barrier
Positions == {"stage", "barrier", "run", "time out", "reduce", "done"}

Expected(c, w) == Predictions[batch[c]][w]
Outcomes == (0..Timeout) \cup {Predictions[lut][w] : lut \in Luts, w \in Windows}

Counted(c, w) == thread[GroupOf(c, w)][LaneOf(w)] = "done"

TypeOK ==
  /\ pc \in {"idle", "waiting"} /\ ok \in BOOLEAN
  /\ batch \in [Cands -> Luts]
  /\ slots \in [Cands -> [failures : Nat, timeout : BOOLEAN]]
  /\ thread \in [Groups -> [Lanes -> Positions]]
  /\ staged \in [Groups -> SUBSET Rows]
  /\ predicted \in [Groups -> [Lanes -> Outcomes]]

\* A thread beyond "stage" has staged its row; none is beyond the barrier before all are.
InOrder ==
  \A g \in Groups, lane \in Lanes :
    /\ thread[g][lane] # "stage" /\ lane \in Rows => lane \in staged[g]
    /\ thread[g][lane] \in Past => \A other \in Lanes : thread[g][other] \in Past

\* Only threads with a window run it, and it comes out as the network says.
AsExpected ==
  \A g \in Groups, lane \in Lanes :
    IF WindowOf(g, lane) >= NumWindows
    THEN thread[g][lane] \in {"stage", "barrier", "done"}
    ELSE LET expected == Expected(g[1], WindowOf(g, lane))
         IN  /\ thread[g][lane] \in {"time out", "reduce"} => predicted[g][lane] = expected
             /\ thread[g][lane] = "time out" => expected = Timeout
             /\ thread[g][lane] = "reduce" => expected # Timeout

\* The windows whose threads are done and failed.
Failures(c) ==
  {w \in Windows : Counted(c, w) /\ Expected(c, w) \notin {Timeout, Outputs[w + Width]}}

\* A slot tells of exactly the windows whose threads are done.
SlotsExact ==
  \A c \in Cands :
    /\ slots[c].timeout <=> \E w \in Windows : Counted(c, w) /\ Expected(c, w) = Timeout
    /\ slots[c].failures = Cardinality(Failures(c))

IInv ==
  /\ TypeOK
  /\ pc = "idle" => \A g \in Groups, lane \in Lanes : thread[g][lane] = "done"
  /\ pc = "waiting" => InOrder /\ AsExpected /\ SlotsExact
  /\ ReadsBackScores

-----------------------------------------------------------------------------
(* What the steps have in common.                                          *)

LEMMA RowsAreLanes == RowsFit => Rows \subseteq Lanes
<1>1. IsFiniteSet(Updated)
  BY NetAssumption, FS_Subset DEF Updated
<1>2. NumUpdated \in Nat
  BY <1>1, FS_CardinalityType DEF NumUpdated
<1> QED
  BY <1>2, TgSizeIsPositive DEF RowsFit, Rows, Lanes

LEMMA FailuresFinite ==
  ASSUME NEW c
  PROVE  IsFiniteSet(Failures(c)) /\ Cardinality(Failures(c)) \in Nat
<1>1. IsFiniteSet(Windows)
  BY NetAssumption, FS_Interval DEF Windows
<1>2. Failures(c) \in SUBSET Windows
  BY DEF Failures
<1> QED
  BY <1>1, <1>2, FS_Subset, FS_CardinalityType

\* A step that ends no thread and leaves the slots alone keeps them exact.
LEMMA SlotsKept ==
  ASSUME SlotsExact, slots' = slots, batch' = batch,
         \A c \in Cands, w \in Windows : Counted(c, w)' <=> Counted(c, w)
  PROVE  SlotsExact'
<1> SUFFICES ASSUME NEW c \in Cands
             PROVE  /\ slots[c].timeout
                          <=> \E w \in Windows : Counted(c, w)' /\ Expected(c, w)' = Timeout
                    /\ slots[c].failures = Cardinality(Failures(c)')
  BY DEF SlotsExact
<1>1. \A w \in Windows : Expected(c, w)' = Expected(c, w)
  BY DEF Expected
<1>2. Failures(c)' = Failures(c)
  BY <1>1 DEF Failures
<1> QED
  BY <1>1, <1>2 DEF SlotsExact

\* A thread that does not end its window, and the others where they are.
LEMMA ExpectedKept ==
  ASSUME AsExpected, batch' = batch, predicted' = predicted,
         \A g \in Groups, lane \in Lanes :
           \/ thread'[g][lane] = thread[g][lane]
           \/ thread'[g][lane] \in {"stage", "barrier", "done"}
           \/ thread'[g][lane] = "run" /\ ~ (WindowOf(g, lane) >= NumWindows)
  PROVE  AsExpected'
<1> SUFFICES ASSUME NEW g \in Groups, NEW lane \in Lanes
             PROVE  IF WindowOf(g, lane) >= NumWindows
                    THEN thread'[g][lane] \in {"stage", "barrier", "done"}
                    ELSE LET expected == Expected(g[1], WindowOf(g, lane))'
                         IN  /\ thread'[g][lane] \in {"time out", "reduce"}
                                  => predicted'[g][lane] = expected
                             /\ thread'[g][lane] = "time out" => expected = Timeout
                             /\ thread'[g][lane] = "reduce" => expected # Timeout
  BY DEF AsExpected
<1>1. Expected(g[1], WindowOf(g, lane))' = Expected(g[1], WindowOf(g, lane))
  BY DEF Expected
<1> QED
  BY <1>1 DEF AsExpected

LEMMA SomeoneWaits ==
  ASSUME IInv, NEW g \in Groups, NEW lane \in Lanes, thread[g][lane] # "done"
  PROVE  pc = "waiting" /\ TypeOK /\ InOrder /\ AsExpected /\ SlotsExact
BY DEF IInv, TypeOK

LEMMA StillWaiting ==
  ASSUME pc = "waiting", UNCHANGED <<pc, batch, ok>>,
         TypeOK', InOrder', AsExpected', SlotsExact'
  PROVE  IInv'
BY DEF IInv, ReadsBackScores

LEMMA StagedBeforeUse ==
  ASSUME RowsFit, IInv, NEW g \in Groups, NEW lane \in Lanes, thread[g][lane] = "run"
  PROVE  staged[g] = Rows
<1>1. InOrder /\ TypeOK
  BY SomeoneWaits
<1>2. \A other \in Lanes : thread[g][other] \in Past
  BY <1>1 DEF InOrder, Past
<1>3. \A row \in Rows : row \in staged[g]
  BY <1>1, <1>2, RowsAreLanes DEF InOrder, Past
<1>4. staged[g] \subseteq Rows
  BY <1>1 DEF TypeOK
<1> QED
  BY <1>3, <1>4

-----------------------------------------------------------------------------
(* The threads, step by step.                                              *)

LEMMA StageKeeps ==
  ASSUME IInv, NEW g \in Groups, NEW lane \in Lanes, Stage(g, lane)
  PROVE  IInv'
<1>1. pc = "waiting" /\ TypeOK /\ InOrder /\ AsExpected /\ SlotsExact
  BY SomeoneWaits DEF Stage
<1>2. /\ thread[g][lane] = "stage" /\ MoveTo(g, lane, "barrier")
      /\ UNCHANGED <<pc, count, batch, slots, predicted, out, ok>>
  BY DEF Stage
<1>3. /\ thread' \in [Groups -> [Lanes -> Positions]]
      /\ \A h \in Groups, k \in Lanes :
           thread'[h][k] = IF h = g /\ k = lane THEN "barrier" ELSE thread[h][k]
  BY <1>1, <1>2 DEF TypeOK, MoveTo, Positions
<1>4. /\ staged' \in [Groups -> SUBSET Rows]
      /\ \A h \in Groups : staged[h] \subseteq staged'[h]
      /\ lane \in Rows => lane \in staged'[g]
  BY <1>1 DEF Stage, TypeOK
<1>5. TypeOK'
  BY <1>1, <1>2, <1>3, <1>4 DEF TypeOK
<1>6. InOrder'
  <2> SUFFICES ASSUME NEW h \in Groups, NEW k \in Lanes
               PROVE  /\ thread'[h][k] # "stage" /\ k \in Rows => k \in staged'[h]
                      /\ thread'[h][k] \in Past
                           => \A other \in Lanes : thread'[h][other] \in Past
    BY DEF InOrder
  <2>1. thread'[h][k] # "stage" /\ k \in Rows => k \in staged'[h]
    BY <1>1, <1>3, <1>4 DEF InOrder
  <2>2. ASSUME thread'[h][k] \in Past PROVE h # g /\ thread[h][k] \in Past
    <3>1. thread[g][lane] \notin Past
      BY <1>2 DEF Past
    <3>2. ~ (h = g /\ k = lane) /\ thread[h][k] \in Past
      BY <1>3, <2>2 DEF Past
    <3> QED
      BY <1>1, <3>1, <3>2 DEF InOrder
  <2>3. thread'[h][k] \in Past => \A other \in Lanes : thread'[h][other] \in Past
    BY <1>1, <1>3, <2>2 DEF InOrder
  <2> QED
    BY <2>1, <2>3
<1>7. AsExpected'
  BY <1>1, <1>2, <1>3, ExpectedKept
<1>8. SlotsExact'
  <2>1. \A c \in Cands, w \in Windows : Counted(c, w)' <=> Counted(c, w)
    BY <1>2, <1>3, ThreadOfWindow DEF Counted
  <2> QED
    BY <1>1, <1>2, <2>1, SlotsKept
<1> QED
  BY <1>1, <1>2, <1>5, <1>6, <1>7, <1>8, StillWaiting

LEMMA PassBarrierKeeps ==
  ASSUME IInv, NEW g \in Groups, PassBarrier(g)
  PROVE  IInv'
<1>1. /\ \A lane \in Lanes : thread[g][lane] = "barrier"
      /\ UNCHANGED <<pc, count, batch, slots, staged, predicted, out, ok>>
  BY DEF PassBarrier
<1>2. 0 \in Lanes
  BY TgSizeIsPositive DEF Lanes
<1>3. pc = "waiting" /\ TypeOK /\ InOrder /\ AsExpected /\ SlotsExact
  BY <1>1, <1>2, SomeoneWaits
<1>4. /\ thread' \in [Groups -> [Lanes -> Positions]]
      /\ \A h \in Groups, k \in Lanes :
           thread'[h][k] = IF h # g THEN thread[h][k]
                           ELSE IF WindowOf(g, k) >= NumWindows THEN "done" ELSE "run"
  BY <1>3 DEF PassBarrier, TypeOK, Positions
<1>5. TypeOK'
  BY <1>1, <1>3, <1>4 DEF TypeOK
<1>6. InOrder'
  <2> SUFFICES ASSUME NEW h \in Groups, NEW k \in Lanes
               PROVE  /\ thread'[h][k] # "stage" /\ k \in Rows => k \in staged[h]
                      /\ thread'[h][k] \in Past
                           => \A other \in Lanes : thread'[h][other] \in Past
    BY <1>1 DEF InOrder
  <2>1. CASE h = g
    BY <1>1, <1>3, <1>4, <2>1 DEF InOrder, Past
  <2>2. CASE h # g
    BY <1>3, <1>4, <2>2 DEF InOrder
  <2> QED
    BY <2>1, <2>2
<1>7. AsExpected'
  BY <1>1, <1>3, <1>4, ExpectedKept
<1>8. SlotsExact'
  <2>1. ASSUME NEW c \in Cands, NEW w \in Windows PROVE Counted(c, w)' <=> Counted(c, w)
    <3>1. ~ (w >= NumWindows)
      BY NetAssumption DEF Windows
    <3> QED
      BY <1>1, <1>4, <3>1, ThreadOfWindow DEF Counted
  <2> QED
    BY <1>1, <1>3, <2>1, SlotsKept
<1> QED
  BY <1>1, <1>3, <1>5, <1>6, <1>7, <1>8, StillWaiting

\* The order of the threads is kept by whoever moves beyond the barrier.
LEMMA OrderKept ==
  ASSUME InOrder, staged' = staged,
         \A h \in Groups, k \in Lanes :
           thread'[h][k] = thread[h][k] \/ (thread[h][k] \in Past /\ thread'[h][k] \in Past)
  PROVE  InOrder'
<1> SUFFICES ASSUME NEW h \in Groups, NEW k \in Lanes
             PROVE  /\ thread'[h][k] # "stage" /\ k \in Rows => k \in staged[h]
                    /\ thread'[h][k] \in Past
                         => \A other \in Lanes : thread'[h][other] \in Past
  BY DEF InOrder
<1>1. thread'[h][k] # "stage" => thread[h][k] # "stage"
  BY DEF Past
<1>2. thread'[h][k] \in Past => thread[h][k] \in Past
  OBVIOUS
<1>3. (\A other \in Lanes : thread[h][other] \in Past)
        => \A other \in Lanes : thread'[h][other] \in Past
  OBVIOUS
<1> QED
  BY <1>1, <1>2, <1>3 DEF InOrder

LEMMA RunWindowKeeps ==
  ASSUME RowsFit, IInv, NEW g \in Groups, NEW lane \in Lanes, RunWindow(g, lane)
  PROVE  IInv'
<1> DEFINE expected == Expected(g[1], WindowOf(g, lane))
<1>1. thread[g][lane] = "run" /\ UNCHANGED <<pc, count, batch, slots, staged, out, ok>>
  BY DEF RunWindow
<1>2. pc = "waiting" /\ TypeOK /\ InOrder /\ AsExpected /\ SlotsExact
  BY <1>1, SomeoneWaits
<1>3. ~ (WindowOf(g, lane) >= NumWindows) /\ WindowOf(g, lane) \in Windows /\ g[1] \in Cands
  BY <1>1, <1>2, WindowOfThread DEF AsExpected
<1>4. predicted' = [predicted EXCEPT ![g][lane] = expected]
  BY <1>1, StagedBeforeUse DEF RunWindow, Expected
<1>5. expected \in Outcomes
  <2>1. batch[g[1]] \in Luts
    BY <1>2, <1>3 DEF TypeOK
  <2> QED
    BY <1>3, <2>1 DEF Expected, Outcomes
<1>6. /\ predicted' \in [Groups -> [Lanes -> Outcomes]]
      /\ predicted'[g][lane] = expected
      /\ \A h \in Groups, k \in Lanes :
           ~ (h = g /\ k = lane) => predicted'[h][k] = predicted[h][k]
  <2> HIDE DEF expected
  <2> QED
    BY <1>2, <1>4, <1>5 DEF TypeOK
<1>7. PICK place \in {"time out", "reduce"} :
        MoveTo(g, lane, place) /\ (place = "time out" <=> expected = Timeout)
  <2> HIDE DEF expected
  <2> QED
    BY <1>6 DEF RunWindow
<1>8. /\ thread' \in [Groups -> [Lanes -> Positions]]
      /\ \A h \in Groups, k \in Lanes :
           thread'[h][k] = IF h = g /\ k = lane THEN place ELSE thread[h][k]
  <2>1. TypeOK /\ MoveTo(g, lane, place) /\ place \in Positions
    BY <1>2, <1>7 DEF Positions
  <2> HIDE DEF expected
  <2> QED
    BY <2>1 DEF TypeOK, MoveTo
<1>9. TypeOK'
  BY <1>1, <1>2, <1>6, <1>8 DEF TypeOK
<1>10. InOrder'
  <2>1. place \in Past /\ thread[g][lane] \in Past
    BY <1>1 DEF Past
  <2> QED
    BY <1>1, <1>2, <1>8, <2>1, OrderKept
<1>11. AsExpected'
  <2> SUFFICES ASSUME NEW h \in Groups, NEW k \in Lanes
               PROVE  IF WindowOf(h, k) >= NumWindows
                      THEN thread'[h][k] \in {"stage", "barrier", "done"}
                      ELSE LET ex == Expected(h[1], WindowOf(h, k))'
                           IN  /\ thread'[h][k] \in {"time out", "reduce"}
                                    => predicted'[h][k] = ex
                               /\ thread'[h][k] = "time out" => ex = Timeout
                               /\ thread'[h][k] = "reduce" => ex # Timeout
    BY DEF AsExpected
  <2>1. Expected(h[1], WindowOf(h, k))' = Expected(h[1], WindowOf(h, k))
    BY <1>1 DEF Expected
  <2>2. CASE h = g /\ k = lane
    <3>1. thread'[h][k] = place /\ predicted'[h][k] = expected
      BY <1>6, <1>8, <2>2
    <3>2. Expected(h[1], WindowOf(h, k))' = expected /\ ~ (WindowOf(h, k) >= NumWindows)
      BY <1>3, <2>1, <2>2
    <3> HIDE DEF expected
    <3> QED
      BY <1>7, <3>1, <3>2
  <2>3. CASE ~ (h = g /\ k = lane)
    <3>1. thread'[h][k] = thread[h][k] /\ predicted'[h][k] = predicted[h][k]
      BY <1>6, <1>8, <2>3
    <3> QED
      BY <1>2, <2>1, <3>1 DEF AsExpected
  <2> QED
    BY <2>2, <2>3
<1>12. SlotsExact'
  <2>1. \A c \in Cands, w \in Windows : Counted(c, w)' <=> Counted(c, w)
    BY <1>1, <1>8, ThreadOfWindow DEF Counted
  <2> QED
    BY <1>1, <1>2, <2>1, SlotsKept
<1> QED
  BY <1>1, <1>2, <1>9, <1>10, <1>11, <1>12, StillWaiting

\* Of the windows of the candidates, those of the lanes that are done now are added to
\* those counted.
LEMMA NewlyCounted ==
  ASSUME NEW g \in Groups, NEW lanes \in SUBSET Lanes,
         \A h \in Groups, k \in Lanes :
           thread'[h][k] = IF h = g /\ k \in lanes THEN "done" ELSE thread[h][k],
         NEW c \in Cands, NEW w \in Windows
  PROVE  Counted(c, w)' <=> Counted(c, w) \/ (GroupOf(c, w) = g /\ LaneOf(w) \in lanes)
BY ThreadOfWindow DEF Counted

LEMMA FlagTimeoutKeeps ==
  ASSUME IInv, NEW g \in Groups, NEW lane \in Lanes, FlagTimeout(g, lane)
  PROVE  IInv'
<1> DEFINE window == WindowOf(g, lane)
<1>1. /\ thread[g][lane] = "time out" /\ MoveTo(g, lane, "done")
      /\ slots' = [slots EXCEPT ![g[1]].timeout = TRUE]
      /\ UNCHANGED <<pc, count, batch, staged, predicted, out, ok>>
  BY DEF FlagTimeout
<1>2. pc = "waiting" /\ TypeOK /\ InOrder /\ AsExpected /\ SlotsExact
  BY <1>1, SomeoneWaits
<1>3. /\ ~ (window >= NumWindows) /\ window \in Windows /\ g[1] \in Cands
      /\ GroupOf(g[1], window) = g /\ LaneOf(window) = lane
      /\ Expected(g[1], window) = Timeout
  BY <1>1, <1>2, WindowOfThread DEF AsExpected
<1> HIDE DEF window
<1>4. /\ thread' \in [Groups -> [Lanes -> Positions]]
      /\ \A h \in Groups, k \in Lanes :
           thread'[h][k] = IF h = g /\ k = lane THEN "done" ELSE thread[h][k]
  BY <1>1, <1>2 DEF TypeOK, MoveTo, Positions
<1>5. /\ slots' \in [Cands -> [failures : Nat, timeout : BOOLEAN]]
      /\ \A c \in Cands : /\ slots'[c].failures = slots[c].failures
                          /\ slots'[c].timeout = IF c = g[1] THEN TRUE ELSE slots[c].timeout
  BY <1>1, <1>2 DEF TypeOK
<1>6. TypeOK'
  BY <1>1, <1>2, <1>4, <1>5 DEF TypeOK
<1>7. InOrder'
  <2>1. "done" \in Past /\ thread[g][lane] \in Past
    BY <1>1 DEF Past
  <2> QED
    BY <1>1, <1>2, <1>4, <2>1, OrderKept
<1>8. AsExpected'
  BY <1>1, <1>2, <1>4, ExpectedKept
<1>9. SlotsExact'
  <2> SUFFICES ASSUME NEW c \in Cands
               PROVE  /\ slots'[c].timeout
                            <=> \E w \in Windows : Counted(c, w)' /\ Expected(c, w)' = Timeout
                      /\ slots'[c].failures = Cardinality(Failures(c)')
    BY DEF SlotsExact
  <2>1. \A w \in Windows : Expected(c, w)' = Expected(c, w)
    BY <1>1 DEF Expected
  <2>2. \A w \in Windows :
          Counted(c, w)' <=> Counted(c, w) \/ (GroupOf(c, w) = g /\ LaneOf(w) = lane)
    BY <1>4, ThreadOfWindow DEF Counted
  <2>3. \A w \in Windows : GroupOf(c, w) = g /\ LaneOf(w) = lane => c = g[1] /\ w = window
    BY ThreadOfWindow DEF window
  <2>4. Failures(c)' = Failures(c)
    <3>1. ASSUME NEW w \in Windows, Expected(c, w) # Timeout
          PROVE  Counted(c, w)' <=> Counted(c, w)
      BY <1>3, <2>2, <2>3, <3>1
    <3> QED
      BY <2>1, <3>1 DEF Failures
  <2>5. CASE c = g[1]
    <3>1. Counted(c, window)' /\ Expected(c, window)' = Timeout
      BY <1>3, <2>1, <2>2, <2>5
    <3> QED
      BY <1>2, <1>3, <1>5, <2>4, <2>5, <3>1 DEF SlotsExact
  <2>6. CASE c # g[1]
    <3>1. \A w \in Windows : Counted(c, w)' <=> Counted(c, w)
      BY <2>2, <2>3, <2>6
    <3>2. (\E w \in Windows : Counted(c, w)' /\ Expected(c, w)' = Timeout)
            <=> \E w \in Windows : Counted(c, w) /\ Expected(c, w) = Timeout
      BY <2>1, <3>1
    <3>3. slots'[c].timeout <=> slots[c].timeout
      BY <1>5, <2>6
    <3> QED
      BY <1>2, <1>5, <2>4, <3>2, <3>3 DEF SlotsExact
  <2> QED
    BY <2>5, <2>6
<1> QED
  BY <1>1, <1>2, <1>6, <1>7, <1>8, <1>9, StillWaiting

\* As many windows fail as lanes do.
LEMMA FailedWindows ==
  ASSUME NEW g \in Groups, NEW lanes \in SUBSET Lanes
  PROVE  LET W == {WindowOf(g, lane) : lane \in lanes}
         IN  /\ IsFiniteSet(W) /\ IsFiniteSet(lanes)
             /\ Cardinality(W) = Cardinality(lanes)
<1> DEFINE W == {WindowOf(g, lane) : lane \in lanes}
           f == [lane \in lanes |-> WindowOf(g, lane)]
<1>1. IsFiniteSet(Lanes)
  BY TgSizeIsPositive, FS_Interval DEF Lanes
<1>2. IsFiniteSet(lanes)
  BY <1>1, FS_Subset
<1>3. \A a, b \in lanes : WindowOf(g, a) = WindowOf(g, b) => a = b
  BY WindowOfThread
<1>4. f \in Bijection(lanes, W)
  <2>1. f \in [lanes -> W]
    OBVIOUS
  <2>2. f \in Injection(lanes, W)
    BY <1>3, <2>1 DEF Injection, IsInjective
  <2>3. f \in Surjection(lanes, W)
    BY <2>1 DEF Surjection
  <2> QED
    BY <2>2, <2>3 DEF Bijection
<1>5. ExistsBijection(lanes, W)
  <2> HIDE DEF f, W
  <2> QED
    BY <1>4 DEF ExistsBijection
<1> HIDE DEF W
<1>6. IsFiniteSet(W) /\ Cardinality(W) = Cardinality(lanes)
  BY <1>2, <1>5, FS_Bijection
<1> QED
  BY <1>2, <1>6 DEF W

LEMMA ReduceKeeps ==
  ASSUME IInv, NEW g \in Groups, NEW i, Reduce(g, i)
  PROVE  IInv'
<1>1. PICK active \in SUBSET Lanes :
        /\ active # {} /\ \A lane \in active : thread[g][lane] = "reduce"
        /\ slots' = [slots EXCEPT ![g[1]].failures = @ + Cardinality(Failed(g, active))]
        /\ thread' = [thread EXCEPT ![g] =
             [lane \in Lanes |-> IF lane \in active THEN "done" ELSE thread[g][lane]]]
        /\ UNCHANGED <<pc, count, batch, staged, predicted, out, ok>>
  BY DEF Reduce, SimdGroup
<1>2. pc = "waiting" /\ TypeOK /\ InOrder /\ AsExpected /\ SlotsExact
  BY <1>1, SomeoneWaits
<1>3. g[1] \in Cands
  BY DEF Groups
<1>4. ASSUME NEW lane \in active
      PROVE  /\ WindowOf(g, lane) \in Windows
             /\ GroupOf(g[1], WindowOf(g, lane)) = g /\ LaneOf(WindowOf(g, lane)) = lane
             /\ predicted[g][lane] = Expected(g[1], WindowOf(g, lane))
             /\ Expected(g[1], WindowOf(g, lane)) # Timeout
  BY <1>1, <1>2, WindowOfThread DEF AsExpected
<1> DEFINE failed == Failed(g, active)
           added == {WindowOf(g, lane) : lane \in failed}
<1>5. failed \in SUBSET Lanes /\ failed \subseteq active
  BY DEF Failed
<1>6. IsFiniteSet(added) /\ IsFiniteSet(failed) /\ Cardinality(added) = Cardinality(failed)
  <2> HIDE DEF failed
  <2> QED
    BY <1>5, FailedWindows
<1>7. Cardinality(failed) \in Nat
  BY <1>6, FS_CardinalityType
<1>8. /\ thread' \in [Groups -> [Lanes -> Positions]]
      /\ \A h \in Groups, k \in Lanes :
           thread'[h][k] = IF h = g /\ k \in active THEN "done" ELSE thread[h][k]
  BY <1>1, <1>2 DEF TypeOK, Positions
<1>9. /\ slots' \in [Cands -> [failures : Nat, timeout : BOOLEAN]]
      /\ \A c \in Cands :
           /\ slots'[c].timeout = slots[c].timeout
           /\ slots'[c].failures = IF c = g[1] THEN slots[c].failures + Cardinality(failed)
                                   ELSE slots[c].failures
  <2> HIDE DEF failed
  <2>1. slots' = [slots EXCEPT ![g[1]].failures = slots[g[1]].failures + Cardinality(failed)]
    BY <1>1, <1>2, <1>3 DEF failed, TypeOK
  <2>2. slots[g[1]].failures + Cardinality(failed) \in Nat
    BY <1>2, <1>3, <1>7 DEF TypeOK
  <2> QED
    BY <1>2, <1>3, <2>1, <2>2 DEF TypeOK
<1>10. TypeOK'
  BY <1>1, <1>2, <1>8, <1>9 DEF TypeOK
<1>11. InOrder'
  <2>1. "done" \in Past /\ "reduce" \in Past
    BY DEF Past
  <2> QED
    BY <1>1, <1>2, <1>8, <2>1, OrderKept
<1>12. AsExpected'
  BY <1>1, <1>2, <1>8, ExpectedKept
<1>13. SlotsExact'
  <2> SUFFICES ASSUME NEW c \in Cands
               PROVE  /\ slots'[c].timeout
                            <=> \E w \in Windows : Counted(c, w)' /\ Expected(c, w)' = Timeout
                      /\ slots'[c].failures = Cardinality(Failures(c)')
    BY DEF SlotsExact
  <2>1. \A w \in Windows : Expected(c, w)' = Expected(c, w)
    BY <1>1 DEF Expected
  <2>2. ASSUME NEW w \in Windows
        PROVE  Counted(c, w)' <=> Counted(c, w) \/ (GroupOf(c, w) = g /\ LaneOf(w) \in active)
    BY <1>8, NewlyCounted
  <2>3. ASSUME NEW w \in Windows, GroupOf(c, w) = g, LaneOf(w) \in active
        PROVE  /\ c = g[1] /\ w = WindowOf(g, LaneOf(w))
               /\ Expected(c, w) # Timeout /\ ~ Counted(c, w)
    <3>1. c = g[1] /\ w = WindowOf(g, LaneOf(w))
      BY <2>3, ThreadOfWindow
    <3>2. thread[g][LaneOf(w)] = "reduce"
      BY <1>1, <2>3
    <3> QED
      BY <1>4, <2>3, <3>1, <3>2 DEF Counted
  <2>4. slots'[c].timeout <=> \E w \in Windows : Counted(c, w)' /\ Expected(c, w)' = Timeout
    <3>1. ASSUME NEW w \in Windows
          PROVE  Counted(c, w)' /\ Expected(c, w)' = Timeout
                   <=> Counted(c, w) /\ Expected(c, w) = Timeout
      BY <2>1, <2>2, <2>3
    <3> QED
      BY <1>2, <1>9, <3>1 DEF SlotsExact
  <2>5. CASE c # g[1]
    <3>1. \A w \in Windows : Counted(c, w)' <=> Counted(c, w)
      BY <2>2, <2>3, <2>5
    <3>2. Failures(c)' = Failures(c)
      BY <2>1, <3>1 DEF Failures
    <3> QED
      BY <1>2, <1>9, <2>4, <2>5, <3>2 DEF SlotsExact
  <2>6. CASE c = g[1]
    <3>1. ASSUME NEW lane \in active
          PROVE  WindowOf(g, lane) \in added
                   <=> Expected(c, WindowOf(g, lane)) # Outputs[WindowOf(g, lane) + Width]
      <4>1. lane \in failed <=> predicted[g][lane] # Outputs[WindowOf(g, lane) + Width]
        BY DEF Failed
      <4>2. WindowOf(g, lane) \in added <=> lane \in failed
        <5>1. \A k \in failed : WindowOf(g, k) = WindowOf(g, lane) => k = lane
          BY <1>4, <1>5
        <5> QED
          BY <5>1
      <4> QED
        BY <1>4, <2>6, <4>1, <4>2
    <3>2. added \subseteq Windows
      BY <1>4, <1>5
    <3>3. ASSUME NEW w \in added
          PROVE  GroupOf(c, w) = g /\ LaneOf(w) \in active
      BY <1>4, <1>5, <2>6
    <3>4. Failures(c)' = Failures(c) \cup added
      <4>1. ASSUME NEW w \in Windows
            PROVE  w \in Failures(c)' <=> w \in Failures(c) \/ w \in added
        <5>1. w \in Failures(c)'
                <=> Counted(c, w)' /\ Expected(c, w) \notin {Timeout, Outputs[w + Width]}
          BY <2>1 DEF Failures
        <5>2. w \in Failures(c)
                <=> Counted(c, w) /\ Expected(c, w) \notin {Timeout, Outputs[w + Width]}
          BY DEF Failures
        <5>3. CASE GroupOf(c, w) = g /\ LaneOf(w) \in active
          <6> DEFINE lane == LaneOf(w)
          <6>1. lane \in active /\ w = WindowOf(g, lane) /\ Expected(c, w) # Timeout
                /\ ~ Counted(c, w) /\ Counted(c, w)'
            BY <2>2, <2>3, <5>3
          <6>2. w \in added <=> Expected(c, w) # Outputs[w + Width]
            <7> HIDE DEF lane, added
            <7> QED
              BY <3>1, <6>1
          <6> QED
            BY <5>1, <5>2, <6>1, <6>2
        <5>4. CASE ~ (GroupOf(c, w) = g /\ LaneOf(w) \in active)
          BY <2>2, <3>3, <5>1, <5>2, <5>4
        <5> QED
          BY <5>3, <5>4
      <4>2. Failures(c)' \subseteq Windows /\ Failures(c) \subseteq Windows
        BY DEF Failures
      <4> QED
        BY <3>2, <4>1, <4>2
    <3>5. Failures(c) \cap added = {}
      BY <2>3, <3>2, <3>3 DEF Failures
    <3>6. Cardinality(Failures(c)') = Cardinality(Failures(c)) + Cardinality(added)
      <4> HIDE DEF added
      <4>1. IsFiniteSet(Failures(c)) /\ Cardinality(Failures(c)) \in Nat
            /\ Cardinality(added) \in Nat
        BY <1>6, <1>7, FailuresFinite
      <4>2. Cardinality(Failures(c) \cup added)
              = Cardinality(Failures(c)) + Cardinality(added) - Cardinality(Failures(c) \cap added)
        BY <1>6, <4>1, FS_Union
      <4>3. Cardinality(Failures(c) \cap added) = 0
        BY <3>5, FS_EmptySet
      <4> QED
        BY <3>4, <4>1, <4>2, <4>3
    <3> QED
      BY <1>2, <1>6, <1>9, <2>4, <2>6, <3>6 DEF SlotsExact
  <2> QED
    BY <2>5, <2>6
<1> QED
  BY <1>1, <1>2, <1>10, <1>11, <1>12, <1>13, StillWaiting

-----------------------------------------------------------------------------
(* The host.                                                               *)

LEMMA InitIInv == Init => IInv
<1> SUFFICES ASSUME Init PROVE IInv
  OBVIOUS
<1>1. TypeOK
  <2>1. NothingPredicted \in [Groups -> [Lanes -> Outcomes]]
    BY DEF NothingPredicted, Outcomes, Timeout
  <2> QED
    BY <2>1 DEF Init, TypeOK, Positions, Cleared
<1> QED
  BY <1>1 DEF Init, IInv, ReadsBackScores

LEMMA DispatchKeeps ==
  ASSUME IInv, NEW tables \in [Cands -> Luts], Dispatch(tables)
  PROVE  IInv'
<1>1. /\ batch' = tables /\ ok' = FALSE /\ pc' = "waiting" /\ slots' = Cleared
      /\ thread' = [g \in Groups |-> [lane \in Lanes |-> "stage"]]
      /\ staged' = [g \in Groups |-> {}] /\ predicted' = NothingPredicted
  BY DEF Dispatch, Commit
<1>2. TypeOK'
  <2>1. NothingPredicted \in [Groups -> [Lanes -> Outcomes]]
    BY DEF NothingPredicted, Outcomes, Timeout
  <2> QED
    BY <1>1, <2>1 DEF TypeOK, Positions, Cleared
<1>3. \A g \in Groups, lane \in Lanes : thread'[g][lane] = "stage"
  BY <1>1
<1>4. InOrder' /\ AsExpected'
  BY <1>3 DEF InOrder, AsExpected, Past
<1>5. SlotsExact'
  <2> SUFFICES ASSUME NEW c \in Cands
               PROVE  /\ slots'[c].timeout
                            <=> \E w \in Windows : Counted(c, w)' /\ Expected(c, w)' = Timeout
                      /\ slots'[c].failures = Cardinality(Failures(c)')
    BY DEF SlotsExact
  <2>1. \A w \in Windows : ~ Counted(c, w)'
    BY <1>3, ThreadOfWindow DEF Counted
  <2>2. slots'[c].timeout = FALSE /\ slots'[c].failures = 0
    BY <1>1 DEF Cleared
  <2>3. Failures(c)' = {}
    BY <2>1 DEF Failures
  <2> QED
    BY <2>1, <2>2, <2>3, FS_EmptySet
<1> QED
  BY <1>1, <1>2, <1>4, <1>5 DEF IInv, ReadsBackScores

\* When every thread is done the slots tell of every window, as the score does.
LEMMA CompleteKeeps == ASSUME IInv, Complete PROVE IInv'
<1>1. /\ pc = "waiting" /\ \A g \in Groups, lane \in Lanes : thread[g][lane] = "done"
      /\ out' = [c \in Cands |-> IF slots[c].timeout THEN INF ELSE slots[c].failures]
      /\ ok' = TRUE /\ pc' = "idle"
      /\ UNCHANGED <<count, batch, slots, thread, staged, predicted>>
  BY DEF Complete
<1>2. TypeOK /\ SlotsExact
  BY <1>1 DEF IInv
<1>3. TypeOK'
  BY <1>1, <1>2 DEF TypeOK
<1>4. ASSUME NEW c \in Cands PROVE out'[c] = ScoreOf(batch[c])
  <2>1. \A w \in Windows : Counted(c, w)
    BY <1>1, ThreadOfWindow DEF Counted
  <2>2. slots[c].timeout <=> \E w \in Windows : Predictions[batch[c]][w] = Timeout
    BY <1>2, <2>1 DEF SlotsExact, Expected
  <2>3. ASSUME ~ \E w \in Windows : Predictions[batch[c]][w] = Timeout
        PROVE  slots[c].failures
                 = Cardinality({w \in Windows : Predictions[batch[c]][w] # Outputs[w + Width]})
    <3>1. Failures(c) = {w \in Windows : Predictions[batch[c]][w] # Outputs[w + Width]}
      BY <2>1, <2>3 DEF Failures, Expected
    <3> QED
      BY <1>2, <3>1 DEF SlotsExact
  <2>4. ScoreOf(batch[c])
          = IF \E w \in Windows : Predictions[batch[c]][w] = Timeout
            THEN INF
            ELSE Cardinality({w \in Windows : Predictions[batch[c]][w] # Outputs[w + Width]})
    BY DEF ScoreOf
  <2>5. out'[c] = IF slots[c].timeout THEN INF ELSE slots[c].failures
    BY <1>1
  <2> QED
    BY <2>2, <2>3, <2>4, <2>5
<1> QED
  BY <1>1, <1>3, <1>4 DEF IInv, ReadsBackScores

LEMMA FailKeeps == ASSUME IInv, Fail PROVE IInv'
<1>1. /\ ok' = FALSE /\ pc' = "idle"
      /\ thread' = [g \in Groups |-> [lane \in Lanes |-> "done"]]
      /\ UNCHANGED <<batch, slots, staged, predicted>>
  BY DEF Fail
<1>2. TypeOK'
  BY <1>1 DEF IInv, TypeOK, Positions
<1> QED
  BY <1>1, <1>2 DEF IInv, ReadsBackScores

LEMMA NextIInv == RowsFit /\ IInv /\ [Next]_vars => IInv'
<1> SUFFICES ASSUME RowsFit, IInv, [Next]_vars PROVE IInv'
  OBVIOUS
<1>1. CASE Threads
  BY <1>1, StageKeeps, RunWindowKeeps, FlagTimeoutKeeps, PassBarrierKeeps, ReduceKeeps
     DEF Threads
<1>2. CASE UNCHANGED vars
  <2>1. UNCHANGED <<pc, batch, slots, thread, staged, predicted, out, ok>>
    BY <1>2 DEF vars
  <2>2. TypeOK' <=> TypeOK
    BY <2>1 DEF TypeOK
  <2>3. (InOrder' <=> InOrder) /\ (AsExpected' <=> AsExpected)
    BY <2>1 DEF InOrder, AsExpected, Expected
  <2>4. SlotsExact => SlotsExact'
    <3>1. \A c \in Cands, w \in Windows : Counted(c, w)' <=> Counted(c, w)
      BY <2>1 DEF Counted
    <3> QED
      BY <2>1, <3>1, SlotsKept
  <2> QED
    BY <2>1, <2>2, <2>3, <2>4 DEF IInv, ReadsBackScores
<1> QED
  BY <1>1, <1>2, DispatchKeeps, CompleteKeeps, FailKeeps DEF Next

\* No thread evaluates its window before every row of its group has been written, if the
\* threadgroup has a thread for every row.
THEOREM SpecRowsStagedBeforeUse == RowsFit => (Spec => []RowsStagedBeforeUse)
<1> SUFFICES ASSUME RowsFit PROVE Spec => []RowsStagedBeforeUse
  OBVIOUS
<1>1. IInv => RowsStagedBeforeUse
  BY StagedBeforeUse DEF RowsStagedBeforeUse
<1>2. IInv /\ [Next]_vars => IInv'
  BY NextIInv
<1> QED
  BY <1>1, <1>2, InitIInv, PTL DEF Spec

\* Then the scores read back after a completed dispatch are those of the reference
\* network, table by table: in any order of the threads, for every number of windows that
\* a threadgroup or a SIMD group divides or not, after dispatches that failed midway.
THEOREM SpecReadsBackScores == RowsFit => (Spec => []ReadsBackScores)
<1> SUFFICES ASSUME RowsFit PROVE Spec => []ReadsBackScores
  OBVIOUS
<1>1. IInv => ReadsBackScores
  BY DEF IInv
<1>2. IInv /\ [Next]_vars => IInv'
  BY NextIInv
<1> QED
  BY <1>1, <1>2, InitIInv, PTL DEF Spec
=============================================================================
