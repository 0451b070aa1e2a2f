------------------------ MODULE ScoreAgreementProofs ------------------------
(***************************************************************************)
(* For every topology, task, number of lanes and order in which the miner  *)
(* visits its neurons: miner and both builds of the node find the score of *)
(* the reference.  The reference is the synchronous network of one window; *)
(* each scorer's invariant says where in that run every one of its windows *)
(* is, and that the windows behind are graded by it.                       *)
(***************************************************************************)
EXTENDS ScoreAgreement, TLAPS, FiniteSetTheorems, WellFoundedInduction

\* Induction over the naturals, on a set instead of a formula.
LEMMA NatSetInduction ==
  ASSUME NEW A, 0 \in A, \A k \in Nat : k \in A => k + 1 \in A
  PROVE  Nat \subseteq A
<1> DEFINE less == {xy \in Nat \X Nat : xy[1] < xy[2]}
<1> DEFINE Out == Nat \ A
<1>1. IsWellFoundedOn(less, Nat)
  BY NatLessThanWellFounded DEF OpToRel
<1>2. SUFFICES ASSUME Out # {} PROVE FALSE
  OBVIOUS
<1>3. PICK k \in Out : \A j \in Out : <<j, k>> \notin less
  BY <1>1, <1>2, WFMin
<1>4. k # 0 /\ k \in Nat /\ k - 1 \in Nat
  OBVIOUS
<1>5. <<k - 1, k>> \in less
  BY <1>4
<1>6. k - 1 \in A
  BY <1>3, <1>4, <1>5
<1> QED
  BY <1>4, <1>6

-----------------------------------------------------------------------------
(* The reference network, tick by tick.  Run is a recursive function; what   *)
(* the proofs use of it is where it starts and how it goes on.               *)

Start == [v |-> AllUnknown, fed |-> 0]

\* What the neurons show when a tick begins: the next sample, or nothing.
Shown(w, now) == IF now.v[Signal] # UNKNOWN THEN Masked(now.v) ELSE Fed(now.v, w + now.fed)

Ticked(tab, w, now) ==
  [v |-> Synchronous(tab, Shown(w, now)),
   fed |-> IF now.v[Signal] # UNKNOWN THEN now.fed ELSE now.fed + 1]

After(tab, w, now) ==
  IF now.v[Signal] # UNKNOWN THEN [v |-> Synchronous(tab, Masked(now.v)), fed |-> now.fed]
  ELSE IF now.fed < Width
       THEN [v |-> Synchronous(tab, Fed(now.v, w + now.fed)), fed |-> now.fed + 1]
       ELSE now

Runs(f, tab, w, m) == f = [t \in 0..m |-> IF t = 0 THEN Start ELSE After(tab, w, f[t - 1])]

LEMMA RunsExist ==
  ASSUME NEW tab, NEW w, NEW m \in Nat
  PROVE  \E f : Runs(f, tab, w, m)
<1> DEFINE A == {k \in Nat : \E f : Runs(f, tab, w, k)}
<1>1. 0 \in A
  <2>1. Runs([t \in 0..0 |-> Start], tab, w, 0)
    BY DEF Runs
  <2> QED
    BY <2>1
<1>2. ASSUME NEW k \in Nat, k \in A PROVE k + 1 \in A
  <2>1. PICK f : Runs(f, tab, w, k)
    BY <1>2
  <2> DEFINE g == [t \in 0..(k + 1) |-> IF t = k + 1 THEN After(tab, w, f[k]) ELSE f[t]]
  <2>2. ASSUME NEW t \in 0..(k + 1)
        PROVE  g[t] = IF t = 0 THEN Start ELSE After(tab, w, g[t - 1])
    <3>1. CASE t = k + 1
      <4>1. g[k] = f[k] /\ t # 0 /\ t - 1 = k
        BY <3>1
      <4> QED
        BY <3>1, <4>1
    <3>2. CASE t # k + 1
      <4>1. t \in 0..k /\ g[t] = f[t]
        BY <3>2
      <4>2. f[t] = IF t = 0 THEN Start ELSE After(tab, w, f[t - 1])
        BY <2>1, <4>1 DEF Runs
      <4>3. t # 0 => g[t - 1] = f[t - 1]
        BY <4>1
      <4> QED
        BY <4>1, <4>2, <4>3
    <3> QED
      BY <3>1, <3>2
  <2>3. g = [t \in 0..(k + 1) |-> g[t]]
    OBVIOUS
  <2> HIDE DEF g
  <2>4. Runs(g, tab, w, k + 1)
    BY <2>2, <2>3 DEF Runs
  <2> QED
    BY <2>4
<1> HIDE DEF A
<1>3. m \in A
  BY <1>1, <1>2, NatSetInduction
<1> QED
  BY <1>3 DEF A

LEMMA RunStarts ==
  ASSUME NEW tab, NEW w
  PROVE  /\ Run(tab, w)[0] = Start
         /\ \A t \in 0..(MaxTicks - 1) : Run(tab, w)[t + 1] = After(tab, w, Run(tab, w)[t])
<1>1. Run(tab, w) = CHOOSE f : Runs(f, tab, w, MaxTicks)
  BY DEF Run, Runs, After, Start
<1>2. MaxTicks \in Nat
  BY NetAssumption
<1>3. Runs(Run(tab, w), tab, w, MaxTicks)
  BY <1>1, <1>2, RunsExist
<1>4. 0 \in 0..MaxTicks /\ \A t \in 0..(MaxTicks - 1) : t + 1 \in 0..MaxTicks /\ t + 1 # 0 /\ (t + 1) - 1 = t
  BY <1>2
<1> QED
  BY <1>3, <1>4 DEF Runs

\* Looking up, feeding and masking stay within trits.
LEMMA LookUpType ==
  ASSUME NEW tab \in LUT, NEW v \in Values, NEW n \in Updated
  PROVE  LookUp(tab, v, n) \in Trit
<1>1. n \in Neurons /\ Neighbours[n] \in [0..2 -> Neurons] /\ tab[n] \in [0..26 -> Trit]
  BY NetAssumption DEF Updated, LUT
<1>2. PICK a \in 0..2, b \in 0..2, c \in 0..2 :
        a = v[Neighbours[n][0]] /\ b = v[Neighbours[n][1]] /\ c = v[Neighbours[n][2]]
  BY <1>1 DEF Values, Trit
<1>3. a + 3 * b + 9 * c \in 0..26
  OBVIOUS
<1> QED
  BY <1>1, <1>2, <1>3 DEF LookUp

LEMMA SynchronousType ==
  ASSUME NEW tab \in LUT, NEW v \in Values
  PROVE  Synchronous(tab, v) \in Values
<1>1. ASSUME NEW n \in Neurons
      PROVE  (IF n \in InputNeurons THEN v[n] ELSE LookUp(tab, v, n)) \in Trit
  <2>1. CASE n \in InputNeurons
    BY <2>1 DEF Values
  <2>2. CASE n \notin InputNeurons
    BY <2>2, LookUpType DEF Updated
  <2> QED
    BY <2>1, <2>2
<1> QED
  BY <1>1 DEF Synchronous, Values

LEMMA ShowType ==
  ASSUME NEW v \in Values
  PROVE  Masked(v) \in Values /\ \A t \in Samples : Fed(v, t) \in Values
<1>1. UNKNOWN \in Trit
  BY DEF UNKNOWN, Trit
<1>2. Masked(v) \in Values
  BY <1>1 DEF Masked, Values
<1>3. ASSUME NEW t \in Samples PROVE Fed(v, t) \in Values
  BY NetAssumption DEF Fed, Values
<1> QED
  BY <1>2, <1>3

NetStates == [v : Values, fed : 0..Width]

\* What both branches of After that change something do.
LEMMA AfterIs ==
  ASSUME NEW tab, NEW w, NEW now \in NetStates
  PROVE  After(tab, w, now) = IF Settled(now) THEN now ELSE Ticked(tab, w, now)
<1>1. now.fed \in 0..Width /\ Width \in Nat
  BY NetAssumption DEF NetStates
<1>2. ~ (now.fed < Width) => now.fed = Width
  BY <1>1
<1>3. now.fed < Width => now.fed # Width
  BY <1>1
<1> QED
  BY <1>2, <1>3 DEF After, Ticked, Settled, Shown

LEMMA TickedType ==
  ASSUME NEW tab \in LUT, NEW w \in Windows, NEW now \in NetStates, ~ Settled(now)
  PROVE  Shown(w, now) \in Values /\ Ticked(tab, w, now) \in NetStates
<1>1. now.v \in Values /\ now.fed \in 0..Width /\ Width \in Nat /\ NumWindows \in Nat
  BY NetAssumption DEF NetStates
<1>2. CASE now.v[Signal] # UNKNOWN
  BY <1>1, <1>2, ShowType, SynchronousType DEF Shown, Ticked, NetStates
<1>3. CASE now.v[Signal] = UNKNOWN
  <2>1. now.fed # Width
    BY <1>3 DEF Settled
  <2>2. now.fed + 1 \in 0..Width /\ w + now.fed \in Samples
    BY <1>1, <2>1 DEF Windows, Samples
  <2> QED
    BY <1>1, <1>3, <2>2, ShowType, SynchronousType DEF Shown, Ticked, NetStates
<1> QED
  BY <1>2, <1>3

LEMMA RunType ==
  ASSUME NEW tab \in LUT, NEW w \in Windows
  PROVE  \A t \in 0..MaxTicks : Run(tab, w)[t] \in NetStates
<1> DEFINE A == {t \in Nat : t <= MaxTicks => Run(tab, w)[t] \in NetStates}
<1>0. MaxTicks \in Nat /\ Width \in Nat
  BY NetAssumption
<1>1. 0 \in A
  <2>1. Start \in NetStates
    BY <1>0 DEF Start, NetStates, AllUnknown, Values, Trit, UNKNOWN
  <2> QED
    BY <2>1, RunStarts
<1>2. ASSUME NEW t \in Nat, t \in A PROVE t + 1 \in A
  <2>1. SUFFICES ASSUME t + 1 <= MaxTicks PROVE Run(tab, w)[t + 1] \in NetStates
    OBVIOUS
  <2>2. t \in 0..(MaxTicks - 1) /\ Run(tab, w)[t] \in NetStates
    BY <1>0, <1>2, <2>1
  <2>3. Run(tab, w)[t + 1] = After(tab, w, Run(tab, w)[t])
    BY <2>2, RunStarts
  <2> QED
    BY <2>2, <2>3, AfterIs, TickedType
<1> HIDE DEF A
<1>3. Nat \subseteq A
  BY <1>1, <1>2, NatSetInduction
<1> QED
  BY <1>0, <1>3 DEF A

\* How the network of a window goes on.
LEMMA RunGoesOn ==
  ASSUME NEW tab \in LUT, NEW w \in Windows, NEW t \in 0..(MaxTicks - 1)
  PROVE  Run(tab, w)[t + 1] = IF Settled(Run(tab, w)[t]) THEN Run(tab, w)[t]
                              ELSE Ticked(tab, w, Run(tab, w)[t])
<1>1. Run(tab, w)[t] \in NetStates
  BY RunType, NetAssumption
<1> QED
  BY <1>1, AfterIs, RunStarts

\* Once settled it stays as it is.
LEMMA SettledStays ==
  ASSUME NEW tab \in LUT, NEW w \in Windows, NEW t \in 0..MaxTicks, Settled(Run(tab, w)[t])
  PROVE  \A u \in t..MaxTicks : Run(tab, w)[u] = Run(tab, w)[t]
<1> DEFINE A == {k \in Nat : t + k <= MaxTicks => Run(tab, w)[t + k] = Run(tab, w)[t]}
<1>0. MaxTicks \in Nat /\ t \in Nat
  BY NetAssumption
<1>1. 0 \in A
  BY <1>0
<1>2. ASSUME NEW k \in Nat, k \in A PROVE k + 1 \in A
  <2>1. SUFFICES ASSUME t + (k + 1) <= MaxTicks PROVE Run(tab, w)[t + (k + 1)] = Run(tab, w)[t]
    OBVIOUS
  <2>2. t + k \in 0..(MaxTicks - 1) /\ Run(tab, w)[t + k] = Run(tab, w)[t] /\ (t + k) + 1 = t + (k + 1)
    BY <1>0, <1>2, <2>1
  <2> QED
    BY <2>2, RunGoesOn
<1> HIDE DEF A
<1>3. Nat \subseteq A
  BY <1>1, <1>2, NatSetInduction
<1>4. ASSUME NEW u \in t..MaxTicks PROVE Run(tab, w)[u] = Run(tab, w)[t]
  <2>1. u - t \in Nat /\ t + (u - t) = u /\ u <= MaxTicks
    BY <1>0
  <2>2. u - t \in A
    BY <1>3, <2>1
  <2> QED
    BY <2>1, <2>2 DEF A
<1> QED
  BY <1>4

\* A window that is settled before its last tick is graded by its output then; one that
\* is not settled in the tick before its last one times out.
LEMMA PredictionIs ==
  ASSUME NEW tab \in LUT, NEW w \in Windows
  PROVE  /\ \A t \in 0..(MaxTicks - 1) : Settled(Run(tab, w)[t]) =>
              Prediction(tab, w) = Run(tab, w)[t].v[Output] /\ Prediction(tab, w) \in Trit
         /\ ~ Settled(Run(tab, w)[MaxTicks - 1]) => Prediction(tab, w) = Timeout
<1>0. MaxTicks \in Nat /\ MaxTicks - 1 \in 0..MaxTicks /\ Output \in Neurons
  BY NetAssumption DEF Updated
<1>1. ASSUME NEW t \in 0..(MaxTicks - 1), Settled(Run(tab, w)[t])
      PROVE  Prediction(tab, w) = Run(tab, w)[t].v[Output] /\ Prediction(tab, w) \in Trit
  <2>1. t \in 0..MaxTicks /\ MaxTicks - 1 \in t..MaxTicks
    BY <1>0
  <2>2. Run(tab, w)[MaxTicks - 1] = Run(tab, w)[t]
    BY <1>1, <2>1, SettledStays
  <2>3. Run(tab, w)[t].v \in Values
    BY <2>1, RunType DEF NetStates
  <2> QED
    BY <1>0, <1>1, <2>2, <2>3 DEF Prediction, Values
<1>2. ~ Settled(Run(tab, w)[MaxTicks - 1]) => Prediction(tab, w) = Timeout
  BY DEF Prediction
<1> QED
  BY <1>1, <1>2

\* The score of a table considered, in terms of its predictions.
Wrong(tab, S) == {w \in S : Prediction(tab, w) # Outputs[w + Width]}

LEMMA ScoreIs ==
  ASSUME NEW tab \in Luts
  PROVE  ScoreOf(tab) = IF \E w \in Windows : Prediction(tab, w) = Timeout
                        THEN INF ELSE Cardinality(Wrong(tab, Windows))
<1>1. \A w \in Windows : Predictions[tab][w] = Prediction(tab, w)
  BY DEF Predictions
<1>2. {w \in Windows : Predictions[tab][w] # Outputs[w + Width]} = Wrong(tab, Windows)
  BY <1>1 DEF Wrong
<1> QED
  BY <1>1, <1>2 DEF ScoreOf

-----------------------------------------------------------------------------
(* The node's byte-wide position tracking is exact, for every number of      *)
(* lanes, window width and byte range.                                       *)

\* What the proof uses of the constants.
LEMMA FeedConstants ==
  /\ NumLanes \in Nat \ {0} /\ RelMax \in Nat /\ Saturated \in Nat /\ Width \in Nat \ {0}
  /\ NumLanes <= RelMax + 1 /\ RelMax + 1 < Saturated
BY FeedAssumption, NetAssumption

FeedInv == FeedTypeOK /\ PositionsExact /\ CompleteExact /\ ShowsNextSample

\* The saturated byte comparison of the gather path decides what the exact
\* comparison would, for every byte it is asked about.
LEMMA ThresholdExact ==
  ASSUME NEW b \in Nat, NEW l \in Lanes, NEW r \in 0..RelMax
  PROVE  r + 1 >= Threshold(b, l) <=> b + r + 1 >= Width + l
BY FeedConstants DEF Threshold, Lanes

\* A position that is narrowed and does not saturate is kept.
LEMMA NarrowKeeps ==
  ASSUME NEW x \in Int
  PROVE  Narrow(x) \in 0..Saturated /\ (Narrow(x) # Saturated => Narrow(x) = x)
BY FeedConstants DEF Narrow

LEMMA PositionType ==
  ASSUME FeedTypeOK
  PROVE  \A h \in Halves : \A l \in Lanes : Position(h, l) \in Nat
BY FeedConstants DEF FeedTypeOK, Position

\* Base b, bytes r and words c place the lanes of half h exactly.
Placed(h, b, r, c) ==
  \A l \in Lanes : l + fed[h][l] = IF r[l] = Saturated THEN c[l] ELSE b + r[l]

\* The half's next base and words.
Moved(h, b, c) ==
  base' = [base EXCEPT ![h] = b] /\ counter' = [counter EXCEPT ![h] = c] /\ done' = done

\* One half fed from base b by bytes that place its lanes exactly: the state stays
\* exact.  (next base, next bytes and next words are given by the caller.)
LEMMA GatherKeeps ==
  ASSUME FeedInv, NEW h \in Halves, NEW lanes \in SUBSET Lanes,
         lanes \cap complete[h] = {},
         NEW b \in Nat, NEW r \in [Lanes -> 0..Saturated],
         NEW c \in [Lanes -> Nat],
         Placed(h, b, r, c), Moved(h, b, c), Gather(h, lanes, b, r)
  PROVE  FeedInv'
<1> USE DEF Placed, Moved
<1> DEFINE moved == [l \in Lanes |-> IF l \in lanes THEN r[l] + 1 ELSE r[l]]
<1> USE FeedConstants
<1>1. \A l \in lanes : /\ l \in Lanes /\ l \in Nat
                      /\ r[l] \in 0..RelMax /\ r[l] \in Nat /\ r[l] # Saturated
                      /\ r[l] + 1 \in 0..Saturated
                      /\ l + fed[h][l] = b + r[l]
  <2> SUFFICES ASSUME NEW l \in lanes
               PROVE  /\ l \in Lanes /\ l \in Nat
                      /\ r[l] \in 0..RelMax /\ r[l] \in Nat /\ r[l] # Saturated
                      /\ r[l] + 1 \in 0..Saturated
                      /\ l + fed[h][l] = b + r[l]
    OBVIOUS
  <2>1. l \in Lanes /\ l \in Nat
    BY DEF Lanes
  <2>2. r[l] \in Nat /\ r[l] <= RelMax
    BY <2>1 DEF Gather, Far
  <2> QED BY <2>1, <2>2
<1>2. moved \in [Lanes -> 0..Saturated]
  <2>1. ASSUME NEW l \in Lanes PROVE (IF l \in lanes THEN r[l] + 1 ELSE r[l]) \in 0..Saturated
    <3>1. r[l] \in 0..Saturated
      OBVIOUS
    <3>2. CASE l \in lanes
      BY <3>2, <1>1
    <3>3. CASE l \notin lanes
      BY <3>1, <3>3
    <3> QED BY <3>2, <3>3
  <2> QED BY <2>1
<1>3. /\ rel' = [rel EXCEPT ![h] = moved]
      /\ complete' = [complete EXCEPT ![h] = @ \cup {l \in lanes : moved[l] >= Threshold(b, l)}]
      /\ show' = [show EXCEPT ![h] = [l \in Lanes |-> IF l \in lanes THEN b + r[l] ELSE Nothing]]
      /\ fed' = [fed EXCEPT ![h] = [l \in Lanes |-> IF l \in lanes THEN fed[h][l] + 1 ELSE fed[h][l]]]
  BY DEF Gather, Read, FeedInv, FeedTypeOK
<1>in. ASSUME NEW l \in lanes
      PROVE  /\ fed[h][l] \in 0..Width /\ fed[h][l] # Width /\ fed[h][l] + 1 \in 0..Width
             /\ rel'[h][l] = r[l] + 1 /\ show'[h][l] = b + r[l] /\ fed'[h][l] = fed[h][l] + 1
  <2>1. l \in Lanes /\ fed[h][l] \in 0..Width /\ fed[h][l] # Width
    BY DEF FeedInv, FeedTypeOK, CompleteExact
  <2>2. fed[h][l] + 1 \in 0..Width
    <3>1. PICK k \in 0..Width : k = fed[h][l]
      BY <2>1
    <3>2. k # Width
      BY <2>1, <3>1
    <3>3. k + 1 \in 0..Width
      BY <3>2
    <3> QED BY <3>1, <3>3
  <2>3. rel'[h][l] = r[l] + 1 /\ show'[h][l] = b + r[l] /\ fed'[h][l] = fed[h][l] + 1
    BY <2>1, <1>3 DEF FeedInv, FeedTypeOK
  <2> QED BY <2>1, <2>2, <2>3
<1>out. ASSUME NEW l \in Lanes, l \notin lanes
      PROVE  /\ fed[h][l] \in 0..Width
             /\ rel'[h][l] = r[l] /\ show'[h][l] = Nothing /\ fed'[h][l] = fed[h][l]
  BY <1>out, <1>3 DEF FeedInv, FeedTypeOK
<1>other. ASSUME NEW g \in Halves, g # h
      PROVE  /\ rel'[g] = rel[g] /\ show'[g] = show[g] /\ fed'[g] = fed[g]
             /\ base'[g] = base[g] /\ counter'[g] = counter[g] /\ complete'[g] = complete[g]
  BY <1>other, <1>3 DEF FeedInv, FeedTypeOK
<1>base. base'[h] = b /\ counter'[h] = c
  BY DEF FeedInv, FeedTypeOK
<1>5. FeedTypeOK'
  <2>1. base' \in [Halves -> Nat] /\ counter' \in [Halves -> [Lanes -> Nat]]
    BY DEF FeedInv, FeedTypeOK
  <2>2. rel' \in [Halves -> [Lanes -> 0..Saturated]]
    BY <1>2, <1>3 DEF FeedInv, FeedTypeOK
  <2>3. complete' \in [Halves -> SUBSET Lanes] /\ done' \in [Halves -> SUBSET Lanes]
    BY <1>3 DEF FeedInv, FeedTypeOK
  <2>4. show' \in [Halves -> [Lanes -> Nat \cup {Nothing}]]
    <3>1. [l \in Lanes |-> IF l \in lanes THEN b + r[l] ELSE Nothing] \in [Lanes -> Nat \cup {Nothing}]
      BY <1>1
    <3> QED BY <1>3, <3>1 DEF FeedInv, FeedTypeOK
  <2>5. fed' \in [Halves -> [Lanes -> 0..Width]]
    <3>1. ASSUME NEW l \in Lanes
          PROVE  (IF l \in lanes THEN fed[h][l] + 1 ELSE fed[h][l]) \in 0..Width
      <4>1. CASE l \in lanes
        BY <4>1, <1>in
      <4>2. CASE l \notin lanes
        BY <4>2, <1>out
      <4> QED BY <4>1, <4>2
    <3> QED BY <1>3, <3>1 DEF FeedInv, FeedTypeOK
  <2> QED BY <2>1, <2>2, <2>3, <2>4, <2>5 DEF FeedTypeOK
<1>6. PositionsExact'
  <2> SUFFICES ASSUME NEW g \in Halves, NEW l \in Lanes PROVE Position(g, l)' = l + fed'[g][l]
    BY DEF PositionsExact
  <2>0. l \in Nat
    BY DEF Lanes
  <2>1. CASE g # h
    BY <2>1, <1>other DEF FeedInv, PositionsExact, Position
  <2>2. CASE g = h /\ l \in lanes
    <3>1. r[l] \in Nat /\ r[l] + 1 # Saturated /\ l + fed[h][l] = b + r[l]
      <4>1. r[l] \in 0..RelMax /\ l + fed[h][l] = b + r[l]
        BY <2>2, <1>1
      <4> QED BY <4>1
    <3>2. Position(h, l)' = b + (r[l] + 1)
      BY <2>2, <3>1, <1>in, <1>base DEF Position
    <3>3. fed[h][l] \in Nat /\ fed'[h][l] = fed[h][l] + 1
      BY <2>2, <1>in
    <3> QED BY <2>2, <2>0, <3>1, <3>2, <3>3
  <2>3. CASE g = h /\ l \notin lanes
    BY <2>3, <1>out, <1>base DEF Position
  <2> QED BY <2>1, <2>2, <2>3
<1>7. CompleteExact'
  <2> SUFFICES ASSUME NEW g \in Halves, NEW l \in Lanes
               PROVE  l \in complete'[g] <=> fed'[g][l] = Width
    BY DEF CompleteExact
  <2>0. l \in Nat
    BY DEF Lanes
  <2>1. CASE g # h
    BY <2>1, <1>other DEF FeedInv, CompleteExact
  <2>2. CASE g = h /\ l \in lanes
    <3>1. r[l] \in 0..RelMax /\ r[l] \in Nat /\ l + fed[h][l] = b + r[l]
      BY <2>2, <1>1
    <3>2. r[l] + 1 >= Threshold(b, l) <=> b + r[l] + 1 >= Width + l
      BY <3>1, ThresholdExact
    <3>3. fed'[h][l] = fed[h][l] + 1 /\ l \notin complete[h] /\ fed[h][l] \in 0..Width /\ fed[h][l] # Width
      BY <2>2, <1>in
    <3>4. fed[h][l] + 1 = Width <=> b + r[l] + 1 >= Width + l
      BY <2>0, <3>1, <3>3
    <3>5. l \in complete'[h] <=> r[l] + 1 >= Threshold(b, l)
      BY <2>2, <1>3, <3>3 DEF FeedInv, FeedTypeOK
    <3> QED BY <2>2, <3>2, <3>3, <3>4, <3>5
  <2>3. CASE g = h /\ l \notin lanes
    BY <2>3, <1>3, <1>out DEF FeedInv, FeedTypeOK, CompleteExact
  <2> QED BY <2>1, <2>2, <2>3
<1>8. ShowsNextSample'
  <2> SUFFICES ASSUME NEW g \in Halves, NEW l \in Lanes, show'[g][l] # Nothing
               PROVE  fed'[g][l] > 0 /\ show'[g][l] = l + fed'[g][l] - 1
    BY DEF ShowsNextSample
  <2>0. l \in Nat
    BY DEF Lanes
  <2>1. CASE g # h
    BY <2>1, <1>other DEF FeedInv, ShowsNextSample
  <2>2. CASE g = h /\ l \in lanes
    <3>1. fed[h][l] \in Nat /\ l + fed[h][l] = b + r[l]
      BY <2>2, <1>1, <1>in
    <3>2. show'[h][l] = b + r[l] /\ fed'[h][l] = fed[h][l] + 1
      BY <2>2, <1>in
    <3> QED BY <2>0, <2>2, <3>1, <3>2
  <2>3. CASE g = h /\ l \notin lanes
    BY <2>3, <1>out
  <2> QED BY <2>1, <2>2, <2>3
<1> QED BY <1>5, <1>6, <1>7, <1>8 DEF FeedInv

\* No lane of a half is fed.
LEMMA FeedNoneKeeps ==
  ASSUME FeedInv, NEW h \in Halves, FeedNone(h)
  PROVE  FeedInv'
<1>1. FeedTypeOK'
  BY DEF FeedInv, FeedTypeOK, FeedNone, NotShown
<1>2. PositionsExact' /\ CompleteExact'
  BY DEF FeedInv, FeedNone, PositionsExact, CompleteExact, Position
<1>3. ShowsNextSample'
  BY DEF FeedInv, FeedTypeOK, FeedNone, NotShown, ShowsNextSample
<1> QED BY <1>1, <1>2, <1>3 DEF FeedInv

LEMMA FeedInBytesKeeps ==
  ASSUME FeedInv, NEW h \in Halves, NEW lanes \in SUBSET Lanes, lanes \cap complete[h] = {},
         FeedInBytes(h, lanes)
  PROVE  FeedInv'
<1>1. PICK b \in Nat, r \in [Lanes -> 0..Saturated], c \in [Lanes -> Nat] :
        b = base[h] /\ r = rel[h] /\ c = counter[h]
  BY DEF FeedInv, FeedTypeOK
<1>2. Placed(h, b, r, c)
  BY <1>1 DEF FeedInv, PositionsExact, Position, Placed
<1>3. Moved(h, b, c)
  BY <1>1 DEF FeedInBytes, FeedInv, FeedTypeOK, Moved
<1>4. Gather(h, lanes, b, r)
  BY <1>1 DEF FeedInBytes
<1> QED BY <1>2, <1>3, <1>4, GatherKeeps

LEMMA FeedRebasedKeeps ==
  ASSUME FeedInv, NEW h \in Halves, NEW lanes \in SUBSET Lanes, lanes \cap complete[h] = {},
         FeedRebased(h, lanes)
  PROVE  FeedInv'
<1>1. \A l \in Lanes : Position(h, l) \in Nat
  BY PositionType DEF FeedInv
<1>2. PICK b \in {Position(h, l) : l \in lanes} :
        Rebase(h, lanes, b) /\ Gather(h, lanes, b, FromBase(h, b))
  BY DEF FeedRebased
<1>3. b \in Nat
  BY <1>1
<1>4. FromBase(h, b) \in [Lanes -> 0..Saturated]
  BY <1>1, <1>3, NarrowKeeps DEF FromBase
<1>5. Positions(h) \in [Lanes -> Nat]
  BY <1>1 DEF Positions
<1>6. PICK r \in [Lanes -> 0..Saturated], c \in [Lanes -> Nat] :
        r = FromBase(h, b) /\ c = Positions(h)
  BY <1>4, <1>5
<1>7. Placed(h, b, r, c)
  <2> SUFFICES ASSUME NEW l \in Lanes
               PROVE  l + fed[h][l] = IF r[l] = Saturated THEN c[l] ELSE b + r[l]
    BY DEF Placed
  <2>1. c[l] = Position(h, l) /\ r[l] = Narrow(Position(h, l) - b)
    BY <1>6 DEF FromBase, Positions
  <2>2. Position(h, l) - b \in Int /\ Position(h, l) \in Nat
    BY <1>1, <1>3
  <2>3. r[l] # Saturated => r[l] = Position(h, l) - b
    BY <2>1, <2>2, NarrowKeeps
  <2>4. Position(h, l) = l + fed[h][l]
    BY DEF FeedInv, PositionsExact
  <2> QED BY <1>3, <2>1, <2>2, <2>3, <2>4
<1>8. Moved(h, b, c)
  BY <1>2, <1>6 DEF Rebase, FeedRebased, Moved
<1>9. Gather(h, lanes, b, r)
  BY <1>2, <1>6
<1> QED BY <1>3, <1>7, <1>8, <1>9, GatherKeeps

LEMMA FeedByCounterKeeps ==
  ASSUME FeedInv, NEW h \in Halves, NEW lanes \in SUBSET Lanes, lanes \cap complete[h] = {},
         FeedByCounter(h, lanes)
  PROVE  FeedInv'
<1> USE FeedConstants
<1>1. \A l \in Lanes : Position(h, l) \in Nat /\ Position(h, l) = l + fed[h][l]
  BY PositionType DEF FeedInv, PositionsExact
<1> DEFINE moved == [l \in Lanes |-> IF l \in lanes THEN Position(h, l) + 1 ELSE Position(h, l)]
<1>2. moved \in [Lanes -> Nat]
  <2>1. ASSUME NEW l \in Lanes
        PROVE  (IF l \in lanes THEN Position(h, l) + 1 ELSE Position(h, l)) \in Nat
    BY <1>1
  <2> QED BY <2>1
<1>3. PICK b \in {Position(h, l) : l \in lanes} : base' = [base EXCEPT ![h] = b]
  BY DEF FeedByCounter, Rebase
<1>4. /\ counter' = [counter EXCEPT ![h] = moved]
      /\ complete' = [complete EXCEPT ![h] = @ \cup {l \in lanes : moved[l] >= Width + l}]
      /\ rel' = [rel EXCEPT ![h] = [l \in Lanes |-> Saturated]]
      /\ show' = [show EXCEPT ![h] = [l \in Lanes |-> IF l \in lanes THEN Positions(h)[l] ELSE Nothing]]
      /\ fed' = [fed EXCEPT ![h] = [l \in Lanes |-> IF l \in lanes THEN fed[h][l] + 1 ELSE fed[h][l]]]
      /\ done' = done
  BY DEF FeedByCounter, Read, FeedInv, FeedTypeOK
<1>other. ASSUME NEW g \in Halves, g # h
      PROVE  /\ rel'[g] = rel[g] /\ show'[g] = show[g] /\ fed'[g] = fed[g]
             /\ base'[g] = base[g] /\ counter'[g] = counter[g] /\ complete'[g] = complete[g]
  BY <1>other, <1>3, <1>4 DEF FeedInv, FeedTypeOK
<1>in. ASSUME NEW l \in lanes
      PROVE  /\ l \in Nat /\ l \in Lanes /\ l \notin complete[h]
             /\ fed[h][l] \in 0..Width /\ fed[h][l] # Width /\ fed[h][l] + 1 \in 0..Width
             /\ counter'[h][l] = Position(h, l) + 1 /\ rel'[h][l] = Saturated
             /\ show'[h][l] = Position(h, l) /\ fed'[h][l] = fed[h][l] + 1
             /\ l \in complete'[h] <=> Position(h, l) + 1 >= Width + l
  <2>1. l \in Lanes /\ l \notin complete[h] /\ fed[h][l] \in 0..Width /\ fed[h][l] # Width
    BY DEF FeedInv, FeedTypeOK, CompleteExact
  <2>2. l \in Nat /\ fed[h][l] + 1 \in 0..Width
    BY <2>1 DEF Lanes
  <2>3. moved[l] = Position(h, l) + 1 /\ Positions(h)[l] = Position(h, l)
    BY <2>1 DEF Positions
  <2>4. counter'[h][l] = Position(h, l) + 1 /\ rel'[h][l] = Saturated
    BY <1>4, <2>1, <2>3 DEF FeedInv, FeedTypeOK
  <2>5. show'[h][l] = Position(h, l) /\ fed'[h][l] = fed[h][l] + 1
    BY <1>4, <2>1, <2>3 DEF FeedInv, FeedTypeOK
  <2>6. l \in complete'[h] <=> Position(h, l) + 1 >= Width + l
    BY <1>4, <2>1, <2>3 DEF FeedInv, FeedTypeOK
  <2> QED BY <2>1, <2>2, <2>4, <2>5, <2>6
<1>out. ASSUME NEW l \in Lanes, l \notin lanes
      PROVE  /\ fed[h][l] \in 0..Width /\ fed'[h][l] = fed[h][l]
             /\ counter'[h][l] = Position(h, l) /\ rel'[h][l] = Saturated
             /\ show'[h][l] = Nothing
             /\ l \in complete'[h] <=> l \in complete[h]
  BY <1>out, <1>4 DEF FeedInv, FeedTypeOK
<1>5. FeedTypeOK'
  <2>1. base' \in [Halves -> Nat]
    BY <1>1, <1>3 DEF FeedInv, FeedTypeOK
  <2>2. counter' \in [Halves -> [Lanes -> Nat]]
    BY <1>2, <1>4 DEF FeedInv, FeedTypeOK
  <2>3. rel' \in [Halves -> [Lanes -> 0..Saturated]]
    BY <1>4 DEF FeedInv, FeedTypeOK
  <2>4. complete' \in [Halves -> SUBSET Lanes] /\ done' \in [Halves -> SUBSET Lanes]
    BY <1>4 DEF FeedInv, FeedTypeOK
  <2>5. show' \in [Halves -> [Lanes -> Nat \cup {Nothing}]]
    BY <1>1, <1>4 DEF FeedInv, FeedTypeOK, Positions
  <2>6. fed' \in [Halves -> [Lanes -> 0..Width]]
    <3>1. ASSUME NEW l \in Lanes
          PROVE  (IF l \in lanes THEN fed[h][l] + 1 ELSE fed[h][l]) \in 0..Width
      <4>1. CASE l \in lanes
        BY <4>1, <1>in
      <4>2. CASE l \notin lanes
        BY <4>2, <1>out
      <4> QED BY <4>1, <4>2
    <3> QED BY <1>4, <3>1 DEF FeedInv, FeedTypeOK
  <2> QED BY <2>1, <2>2, <2>3, <2>4, <2>5, <2>6 DEF FeedTypeOK
<1>6. PositionsExact'
  <2> SUFFICES ASSUME NEW g \in Halves, NEW l \in Lanes PROVE Position(g, l)' = l + fed'[g][l]
    BY DEF PositionsExact
  <2>1. CASE g # h
    BY <2>1, <1>other DEF FeedInv, PositionsExact, Position
  <2>2. CASE g = h /\ l \in lanes
    <3>1. Position(h, l)' = Position(h, l) + 1
      BY <2>2, <1>in DEF Position
    <3> QED BY <2>2, <3>1, <1>1, <1>in
  <2>3. CASE g = h /\ l \notin lanes
    BY <2>3, <1>out, <1>1 DEF Position
  <2> QED BY <2>1, <2>2, <2>3
<1>7. CompleteExact'
  <2> SUFFICES ASSUME NEW g \in Halves, NEW l \in Lanes
               PROVE  l \in complete'[g] <=> fed'[g][l] = Width
    BY DEF CompleteExact
  <2>1. CASE g # h
    BY <2>1, <1>other DEF FeedInv, CompleteExact
  <2>2. CASE g = h /\ l \in lanes
    <3>1. PICK k \in 0..Width : k = fed[h][l]
      BY <2>2, <1>in
    <3>2. k # Width /\ l \in Nat /\ Position(h, l) = l + k
      BY <2>2, <3>1, <1>1, <1>in
    <3>3. k + 1 = Width <=> l + k + 1 >= Width + l
      BY <3>2
    <3> QED BY <2>2, <3>1, <3>2, <3>3, <1>in
  <2>3. CASE g = h /\ l \notin lanes
    BY <2>3, <1>out DEF FeedInv, CompleteExact
  <2> QED BY <2>1, <2>2, <2>3
<1>8. ShowsNextSample'
  <2> SUFFICES ASSUME NEW g \in Halves, NEW l \in Lanes, show'[g][l] # Nothing
               PROVE  fed'[g][l] > 0 /\ show'[g][l] = l + fed'[g][l] - 1
    BY DEF ShowsNextSample
  <2>1. CASE g # h
    BY <2>1, <1>other DEF FeedInv, ShowsNextSample
  <2>2. CASE g = h /\ l \in lanes
    <3>1. fed[h][l] \in Nat /\ l \in Nat /\ fed'[h][l] = fed[h][l] + 1 /\ show'[h][l] = Position(h, l)
      BY <2>2, <1>in
    <3> QED BY <2>2, <3>1, <1>1
  <2>3. CASE g = h /\ l \notin lanes
    BY <2>3, <1>out
  <2> QED BY <2>1, <2>2, <2>3
<1> QED BY <1>5, <1>6, <1>7, <1>8 DEF FeedInv

\* A new batch, or captured outputs, leave every lane placed exactly.
LEMMA StartBatchKeeps ==
  ASSUME NEW active \in [Halves -> SUBSET Lanes], StartBatch(active)
  PROVE  FeedInv'
<1> USE FeedConstants
<1>1. FeedTypeOK'
  BY DEF StartBatch, FeedTypeOK, Lanes, NotShown
<1>2. ASSUME NEW h \in Halves, NEW l \in Lanes
      PROVE  /\ l \in Nat /\ base'[h] = 0 /\ rel'[h][l] = l /\ l # Saturated /\ fed'[h][l] = 0
             /\ l \notin complete'[h] /\ show'[h][l] = Nothing
  BY DEF StartBatch, Lanes, NotShown
<1>3. PositionsExact'
  BY <1>2 DEF PositionsExact, Position
<1>4. CompleteExact' /\ ShowsNextSample'
  BY <1>2 DEF CompleteExact, ShowsNextSample
<1> QED BY <1>1, <1>3, <1>4 DEF FeedInv

LEMMA FinishKeeps ==
  ASSUME FeedInv, NEW finishing \in [Halves -> SUBSET Lanes], Finish(finishing)
  PROVE  FeedInv'
<1>1. FeedTypeOK'
  BY DEF FeedInv, FeedTypeOK, Finish
<1> QED BY <1>1 DEF FeedInv, Finish, PositionsExact, CompleteExact, ShowsNextSample, Position

\* Initially no batch has started; the trackers are as at a start.
LEMMA InitExact == FeedInit => FeedInv
<1> USE FeedConstants
<1> SUFFICES ASSUME FeedInit PROVE FeedInv
  OBVIOUS
<1>1. FeedTypeOK
  BY DEF FeedInit, FeedTypeOK, Lanes, NotShown
<1>2. ASSUME NEW h \in Halves, NEW l \in Lanes
      PROVE  /\ l \in Nat /\ base[h] = 0 /\ rel[h][l] = l /\ l # Saturated /\ fed[h][l] = 0
             /\ l \notin complete[h] /\ show[h][l] = Nothing
  BY DEF FeedInit, Lanes, NotShown
<1>3. PositionsExact /\ CompleteExact /\ ShowsNextSample
  BY <1>2 DEF PositionsExact, Position, CompleteExact, ShowsNextSample
<1> QED BY <1>1, <1>3 DEF FeedInv

LEMMA NextExact == FeedInv /\ [FeedNext]_feedVars => FeedInv'
<1> SUFFICES ASSUME FeedInv, [FeedNext]_feedVars PROVE FeedInv'
  OBVIOUS
<1>1. CASE \E active \in [Halves -> SUBSET Lanes] : StartBatch(active)
  BY <1>1, StartBatchKeeps
<1>2. CASE \E unknown \in [Halves -> SUBSET Lanes] :
             Finish([h \in Halves |-> Finishing(h, unknown[h])])
  <2>1. PICK unknown \in [Halves -> SUBSET Lanes] :
          Finish([h \in Halves |-> Finishing(h, unknown[h])])
    BY <1>2
  <2>2. [h \in Halves |-> Finishing(h, unknown[h])] \in [Halves -> SUBSET Lanes]
    BY DEF Finishing
  <2>3. PICK finishing \in [Halves -> SUBSET Lanes] :
          finishing = [h \in Halves |-> Finishing(h, unknown[h])]
    BY <2>2
  <2> QED BY <2>1, <2>3, FinishKeeps
<1>3. CASE \E h \in Halves : \E unknown \in SUBSET Lanes : FeedHalf(h, Feeding(h, unknown))
  <2>1. PICK h \in Halves, unknown \in SUBSET Lanes : FeedHalf(h, Feeding(h, unknown))
    BY <1>3
  <2>2. PICK lanes \in SUBSET Lanes : lanes = Feeding(h, unknown)
    BY DEF Feeding
  <2>3. lanes \cap complete[h] = {}
    BY <2>2 DEF Feeding
  <2> QED BY <2>1, <2>2, <2>3, FeedNoneKeeps, FeedInBytesKeeps, FeedRebasedKeeps, FeedByCounterKeeps
          DEF FeedHalf
<1>4. CASE UNCHANGED feedVars
  BY <1>4 DEF feedVars, FeedInv, FeedTypeOK, PositionsExact, CompleteExact, ShowsNextSample, Position
<1> QED BY <1>1, <1>2, <1>3, <1>4 DEF FeedNext

\* Whatever lanes ask when: every lane's position is that of the samples it was fed,
\* a lane is complete exactly when it was fed its window, and what it is shown is
\* the next sample of its own window.
THEOREM FeedSpecExact == FeedSpec => []FeedExact
<1>1. FeedInv => FeedExact
  BY DEF FeedInv, FeedExact
<1> QED BY InitExact, NextExact, <1>1, PTL DEF FeedSpec

\* The trackers stay within their bytes, words and masks.
THEOREM FeedSpecTypeOK == FeedSpec => []FeedTypeOK
<1>1. FeedInv => FeedTypeOK
  BY DEF FeedInv
<1> QED BY InitExact, NextExact, <1>1, PTL DEF FeedSpec

-----------------------------------------------------------------------------
(* The miner: neuron by neuron through the lookups and the writes of a tick. *)

\* The reference network of the window being scored, in the tick being computed.
Now == Run(lut, window)[minerTick]

MinerTypeOK ==
  /\ minerPc \in {"window", "tick", "look up", "write", "done"}
  /\ window \in 0..NumWindows /\ minerTick \in 0..MaxTicks
  /\ minerPc \in {"tick", "look up", "write"} => window \in Windows
  /\ todo \subseteq Neurons
  /\ value \in Values /\ next \in Values

\* Before a tick the network is the reference; the tick before was not the last one.
BetweenTicks ==
  minerPc = "tick" =>
    /\ value = Now.v /\ feedCounter = Now.fed
    /\ minerTick > 0 => ~ Settled(Run(lut, window)[minerTick - 1])

\* Within a tick nothing that is read has been written: the lookups find what was
\* shown, the writes take what was looked up.
WithinTick ==
  minerPc \in {"look up", "write"} =>
    /\ minerTick < MaxTicks /\ ~ Settled(Now) /\ todo # {}
    /\ feedCounter = Ticked(lut, window, Now).fed
    /\ \A n \in InputNeurons : value[n] = Ticked(lut, window, Now).v[n]
    /\ minerPc = "look up" =>
         /\ value = Shown(window, Now)
         /\ \A n \in Neurons \ todo : next[n] = Ticked(lut, window, Now).v[n]
    /\ minerPc = "write" =>
         /\ next = Ticked(lut, window, Now).v
         /\ \A n \in Neurons \ todo : value[n] = next[n]

\* The windows behind settled, and are graded.
Graded ==
  minerPc # "done" =>
    /\ \A w \in 0..(window - 1) : Prediction(lut, w) # Timeout
    /\ minerFailures = Cardinality(Wrong(lut, 0..(window - 1)))

MinerScored == minerPc = "done" => minerResult = ScoreOf(lut)

MinerInv == MinerTypeOK /\ BetweenTicks /\ WithinTick /\ Graded /\ MinerScored

\* A window's index, and the ticks left in it.
LEMMA TickNumbers ==
  ASSUME MinerTypeOK
  PROVE  /\ MaxTicks \in Nat /\ NumWindows \in Nat /\ window \in Nat /\ minerTick \in Nat
         /\ minerTick < MaxTicks => minerTick \in 0..(MaxTicks - 1) /\ minerTick + 1 \in 0..MaxTicks
<1>1. MaxTicks \in Nat /\ NumWindows \in Nat
  BY NetAssumption
<1>2. window \in 0..NumWindows /\ minerTick \in 0..MaxTicks
  BY DEF MinerTypeOK
<1> QED
  BY <1>1, <1>2

\* The reference in an unfinished window.
LEMMA NowType ==
  ASSUME MinerTypeOK, lut \in Luts, window \in Windows
  PROVE  /\ Now \in NetStates /\ Now.v \in Values
         /\ ~ Settled(Now) => Shown(window, Now) \in Values /\ Ticked(lut, window, Now).v \in Values
<1>1. lut \in LUT
  BY NetAssumption
<1>2. minerTick \in 0..MaxTicks
  BY DEF MinerTypeOK
<1>3. Now \in NetStates
  BY <1>1, <1>2, RunType DEF Now
<1>4. ~ Settled(Now) => Shown(window, Now) \in Values /\ Ticked(lut, window, Now) \in NetStates
  BY <1>1, <1>3, TickedType
<1> QED
  BY <1>3, <1>4 DEF NetStates

LEMMA MinerStarts ==
  ASSUME MinerInv, lut \in Luts, Miner!StartWindow
  PROVE  MinerInv'
<1>1. /\ minerPc = "window" /\ window < NumWindows /\ minerPc' = "tick"
      /\ feedCounter' = 0 /\ minerTick' = 0 /\ value' = AllUnknown
      /\ lut' = lut /\ window' = window /\ next' = next /\ todo' = todo
      /\ minerFailures' = minerFailures
  BY DEF Miner!StartWindow, Miner!AllUnknown, AllUnknown, Miner!UNKNOWN, UNKNOWN
<1>2. window \in Windows /\ MaxTicks \in Nat
  BY <1>1, TickNumbers DEF MinerInv, Windows
<1>3. MinerTypeOK'
  <2>1. AllUnknown \in Values
    BY DEF AllUnknown, Values, Trit, UNKNOWN
  <2> QED
    BY <1>1, <1>2, <2>1 DEF MinerInv, MinerTypeOK
<1>4. BetweenTicks'
  BY <1>1, RunStarts DEF BetweenTicks, Now, Start
<1>5. WithinTick' /\ Graded' /\ MinerScored'
  BY <1>1 DEF MinerInv, WithinTick, Graded, MinerScored
<1> QED
  BY <1>3, <1>4, <1>5 DEF MinerInv

\* Feeding or masking shows what the reference shows.
LEMMA MinerShows ==
  ASSUME MinerInv, lut \in Luts, Miner!Feed \/ Miner!Mask
  PROVE  MinerInv'
<1>1. /\ minerPc = "tick" /\ minerTick < MaxTicks /\ minerPc' = "look up" /\ todo' = Neurons
      /\ lut' = lut /\ window' = window /\ minerTick' = minerTick /\ next' = next
      /\ minerFailures' = minerFailures
  BY DEF Miner!Feed, Miner!Mask, Miner!BeginTick
<1>2. /\ window \in Windows /\ value = Now.v /\ feedCounter = Now.fed /\ Now \in NetStates
      /\ Width \in Nat
  BY <1>1, NowType, NetAssumption DEF MinerInv, MinerTypeOK, BetweenTicks
<1>3. /\ ~ Settled(Now) /\ value' = Shown(window, Now)
      /\ feedCounter' = Ticked(lut, window, Now).fed
  <2>1. CASE Miner!Feed
    <3>1. /\ value[Signal] = UNKNOWN /\ feedCounter < Width
          /\ value' = Fed(value, window + feedCounter) /\ feedCounter' = feedCounter + 1
      BY <2>1 DEF Miner!Feed, Miner!Fed, Fed, Miner!UNKNOWN, UNKNOWN
    <3>2. Now.fed # Width
      BY <1>2, <3>1
    <3> QED
      BY <1>2, <3>1, <3>2 DEF Settled, Shown, Ticked
  <2>2. CASE Miner!Mask
    <3>1. value[Signal] # UNKNOWN /\ value' = Masked(value) /\ feedCounter' = feedCounter
      BY <2>2 DEF Miner!Mask, Miner!Masked, Masked, Miner!UNKNOWN, UNKNOWN
    <3> QED
      BY <1>2, <3>1 DEF Settled, Shown, Ticked
  <2> QED
    BY <2>1, <2>2
<1>4. value' \in Values
  BY <1>2, <1>3, NowType DEF MinerInv
<1>5. MinerTypeOK'
  BY <1>1, <1>4 DEF MinerInv, MinerTypeOK
<1>6. \A n \in InputNeurons : value'[n] = Ticked(lut, window, Now).v[n]
  BY <1>3, NetAssumption DEF Ticked, Synchronous
<1>7. Now' = Now
  BY <1>1 DEF Now
<1>8. WithinTick'
  <2>1. todo' # {}
    BY <1>1, NetAssumption DEF Updated
  <2> QED
    BY <1>1, <1>3, <1>6, <1>7, <2>1 DEF WithinTick
<1>9. BetweenTicks' /\ Graded' /\ MinerScored'
  BY <1>1 DEF MinerInv, BetweenTicks, Graded, MinerScored
<1> QED
  BY <1>5, <1>8, <1>9 DEF MinerInv

\* The first loop of a tick: what is looked up is the next value of the reference.
LEMMA MinerLooksUp ==
  ASSUME MinerInv, lut \in Luts, NEW n \in Neurons, Miner!LookUpNeuron(n)
  PROVE  MinerInv'
<1> DEFINE here == IF n \in InputNeurons THEN value[n] ELSE LookUp(lut, value, n)
<1>1. /\ minerPc = "look up" /\ n \in todo /\ next' = [next EXCEPT ![n] = here]
      /\ lut' = lut /\ window' = window /\ minerTick' = minerTick /\ value' = value
      /\ feedCounter' = feedCounter /\ minerFailures' = minerFailures
      /\ todo = {n} => todo' = Neurons /\ minerPc' = "write"
      /\ todo # {n} => todo' = todo \ {n} /\ minerPc' = "look up"
  BY DEF Miner!LookUpNeuron, Miner!LookUp, LookUp
<1>2. /\ window \in Windows /\ value = Shown(window, Now) /\ ~ Settled(Now) /\ Now' = Now
      /\ value \in Values /\ lut \in LUT /\ next \in Values
  BY <1>1, NetAssumption DEF MinerInv, MinerTypeOK, WithinTick, Now
<1>3. here = Ticked(lut, window, Now).v[n]
  BY <1>2 DEF Ticked, Synchronous
<1>4. here \in Trit
  BY <1>2, LookUpType DEF Values, Updated
<1> HIDE DEF here
<1>5. MinerTypeOK'
  <2>1. next' \in Values
    BY <1>1, <1>2, <1>4 DEF Values
  <2> QED
    BY <1>1, <2>1 DEF MinerInv, MinerTypeOK
<1>6. next' \in [Neurons -> Trit] /\ \A m \in (Neurons \ todo) \cup {n} : next'[m] = Ticked(lut, window, Now).v[m]
  BY <1>1, <1>2, <1>3, <1>4 DEF MinerInv, WithinTick, Values
<1>7. WithinTick'
  <2>1. CASE todo = {n}
    <3>1. next' = Ticked(lut, window, Now).v
      BY <1>6, <2>1 DEF Ticked, Synchronous
    <3> QED
      BY <1>1, <1>2, <2>1, <3>1 DEF MinerInv, WithinTick
  <2>2. CASE todo # {n}
    BY <1>1, <1>2, <1>6, <2>2 DEF MinerInv, WithinTick
  <2> QED
    BY <2>1, <2>2
<1>8. BetweenTicks' /\ Graded' /\ MinerScored'
  BY <1>1 DEF MinerInv, BetweenTicks, Graded, MinerScored
<1> QED
  BY <1>5, <1>7, <1>8 DEF MinerInv

\* The second loop: when it is through, the network is the reference one tick on.
LEMMA MinerWrites ==
  ASSUME MinerInv, lut \in Luts, NEW n \in Neurons, Miner!WriteNeuron(n)
  PROVE  MinerInv'
<1>1. /\ minerPc = "write" /\ n \in todo /\ todo' = todo \ {n}
      /\ value' = IF n \in InputNeurons THEN value ELSE [value EXCEPT ![n] = next[n]]
      /\ lut' = lut /\ window' = window /\ next' = next
      /\ feedCounter' = feedCounter /\ minerFailures' = minerFailures
      /\ todo = {n} => minerPc' = "tick" /\ minerTick' = minerTick + 1
      /\ todo # {n} => minerPc' = "write" /\ minerTick' = minerTick
  BY DEF Miner!WriteNeuron
<1>2. /\ window \in Windows /\ next = Ticked(lut, window, Now).v /\ ~ Settled(Now)
      /\ minerTick < MaxTicks /\ feedCounter = Ticked(lut, window, Now).fed
      /\ value \in Values /\ lut \in LUT /\ next \in Values
  BY <1>1, NetAssumption DEF MinerInv, MinerTypeOK, WithinTick
<1>3. minerTick \in 0..(MaxTicks - 1) /\ minerTick + 1 \in 0..MaxTicks /\ (minerTick + 1) - 1 = minerTick
  BY <1>2, TickNumbers DEF MinerInv
<1>4. value' \in Values
  BY <1>1, <1>2 DEF Values
<1>5. \A m \in (Neurons \ todo) \cup {n} \cup InputNeurons : value'[m] = next[m]
  BY <1>1, <1>2, NetAssumption DEF MinerInv, WithinTick, Values
<1>6. MinerTypeOK'
  BY <1>1, <1>3, <1>4 DEF MinerInv, MinerTypeOK
<1>7. CASE todo = {n}
  <2>1. value' = next
    BY <1>2, <1>4, <1>5, <1>7 DEF Values
  <2>2. Run(lut, window)[minerTick + 1] = Ticked(lut, window, Now)
    BY <1>2, <1>3, RunGoesOn DEF Now
  <2>3. BetweenTicks'
    BY <1>1, <1>2, <1>3, <1>7, <2>1, <2>2 DEF BetweenTicks, Now
  <2>4. WithinTick' /\ Graded' /\ MinerScored'
    BY <1>1, <1>7 DEF MinerInv, WithinTick, Graded, MinerScored
  <2> QED
    BY <1>6, <2>3, <2>4 DEF MinerInv
<1>8. CASE todo # {n}
  <2>1. WithinTick'
    BY <1>1, <1>2, <1>5, <1>8 DEF MinerInv, WithinTick, Now
  <2>2. BetweenTicks' /\ Graded' /\ MinerScored'
    BY <1>1, <1>8 DEF MinerInv, BetweenTicks, Graded, MinerScored
  <2> QED
    BY <1>6, <2>1, <2>2 DEF MinerInv
<1> QED
  BY <1>7, <1>8

\* One more window graded.
LEMMA WrongOneMore ==
  ASSUME NEW tab, NEW n \in Nat
  PROVE  /\ IsFiniteSet(Wrong(tab, 0..(n - 1))) /\ Cardinality(Wrong(tab, 0..(n - 1))) \in Nat
         /\ Cardinality(Wrong(tab, 0..n)) =
              IF Prediction(tab, n) # Outputs[n + Width]
              THEN Cardinality(Wrong(tab, 0..(n - 1))) + 1 ELSE Cardinality(Wrong(tab, 0..(n - 1)))
<1>1. IsFiniteSet(0..(n - 1))
  BY FS_Interval
<1>2. Wrong(tab, 0..(n - 1)) \subseteq 0..(n - 1)
  BY DEF Wrong
<1>3. IsFiniteSet(Wrong(tab, 0..(n - 1)))
  BY <1>1, <1>2, FS_Subset
<1>4. 0..n = (0..(n - 1)) \cup {n} /\ n \notin 0..(n - 1)
  OBVIOUS
<1>5. Wrong(tab, 0..n) = IF Prediction(tab, n) # Outputs[n + Width]
                         THEN Wrong(tab, 0..(n - 1)) \cup {n} ELSE Wrong(tab, 0..(n - 1))
  BY <1>4 DEF Wrong
<1>6. n \notin Wrong(tab, 0..(n - 1))
  BY <1>2, <1>4
<1> QED
  BY <1>3, <1>5, <1>6, FS_AddElement, FS_CardinalityType

\* Settled in time: graded by the reference's prediction.
LEMMA MinerGrades ==
  ASSUME MinerInv, lut \in Luts, Miner!Grade
  PROVE  MinerInv'
<1>1. /\ minerPc = "tick" /\ minerTick < MaxTicks /\ value[Signal] = UNKNOWN /\ feedCounter >= Width
      /\ minerFailures' = IF value[Output] # Outputs[window + feedCounter]
                          THEN minerFailures + 1 ELSE minerFailures
      /\ window' = window + 1 /\ minerPc' = "window" /\ lut' = lut /\ minerTick' = minerTick
      /\ value' = value /\ next' = next /\ todo' = todo
  BY DEF Miner!Grade, Miner!UNKNOWN, UNKNOWN
<1>2. /\ window \in Windows /\ window \in Nat /\ NumWindows \in Nat /\ value = Now.v
      /\ feedCounter = Now.fed /\ Now \in NetStates
      /\ Width \in Nat /\ lut \in LUT /\ minerTick \in 0..(MaxTicks - 1)
  BY <1>1, NowType, NetAssumption, TickNumbers DEF MinerInv, MinerTypeOK, BetweenTicks
<1>3. feedCounter = Width /\ Settled(Now)
  BY <1>1, <1>2 DEF NetStates, Settled
<1>4. Prediction(lut, window) = value[Output] /\ Prediction(lut, window) \in Trit
  BY <1>2, <1>3, PredictionIs DEF Now
<1>5. window \in 0..(NumWindows - 1)
  BY <1>2 DEF Windows
<1>6. window + 1 \in 0..NumWindows /\ 0..((window + 1) - 1) = (0..(window - 1)) \cup {window} /\ (window + 1) - 1 = window
  BY <1>2, <1>5
<1>7. MinerTypeOK'
  BY <1>1, <1>6 DEF MinerInv, MinerTypeOK
<1>8. Graded'
  <2>1. Prediction(lut, window) # Timeout
    BY <1>4 DEF Trit, Timeout
  <2>2. \A w \in 0..((window + 1) - 1) : Prediction(lut, w) # Timeout
    BY <1>1, <1>6, <2>1 DEF MinerInv, Graded
  <2>3. minerFailures' = Cardinality(Wrong(lut, 0..window))
    BY <1>1, <1>2, <1>3, <1>4, WrongOneMore DEF MinerInv, Graded
  <2> QED
    BY <1>1, <1>6, <2>2, <2>3 DEF Graded
<1>9. BetweenTicks' /\ WithinTick' /\ MinerScored'
  BY <1>1 DEF BetweenTicks, WithinTick, MinerScored
<1> QED
  BY <1>7, <1>8, <1>9 DEF MinerInv

\* Out of ticks: the reference times out as well.
LEMMA MinerRunsOut ==
  ASSUME MinerInv, lut \in Luts, Miner!RunOut
  PROVE  MinerInv'
<1>1. /\ minerPc = "tick" /\ minerTick = MaxTicks /\ minerResult' = INF /\ minerPc' = "done"
      /\ lut' = lut /\ window' = window /\ minerTick' = minerTick
      /\ value' = value /\ next' = next /\ todo' = todo
  BY DEF Miner!RunOut, Miner!INF, INF
<1>2. window \in Windows /\ lut \in LUT /\ MaxTicks \in Nat /\ MaxTicks > 0
  BY <1>1, NetAssumption DEF MinerInv, MinerTypeOK
<1>3. ~ Settled(Run(lut, window)[MaxTicks - 1])
  BY <1>1, <1>2 DEF MinerInv, BetweenTicks
<1>4. ScoreOf(lut) = INF
  BY <1>2, <1>3, PredictionIs, ScoreIs
<1> QED
  BY <1>1, <1>4 DEF MinerInv, MinerTypeOK, BetweenTicks, WithinTick, Graded, MinerScored

\* All windows graded: their failures are the score.
LEMMA MinerReturns ==
  ASSUME MinerInv, lut \in Luts, Miner!Return
  PROVE  MinerInv'
<1>1. /\ minerPc = "window" /\ window = NumWindows /\ minerResult' = minerFailures /\ minerPc' = "done"
      /\ lut' = lut /\ window' = window /\ minerTick' = minerTick
      /\ value' = value /\ next' = next /\ todo' = todo
  BY DEF Miner!Return
<1>2. ScoreOf(lut) = minerFailures
  BY <1>1, ScoreIs DEF MinerInv, Graded, Windows
<1> QED
  BY <1>1, <1>2 DEF MinerInv, MinerTypeOK, BetweenTicks, WithinTick, Graded, MinerScored

LEMMA MinerSteps ==
  ASSUME MinerInv, lut \in Luts, Miner!Next
  PROVE  MinerInv'
BY MinerStarts, MinerShows, MinerLooksUp, MinerWrites, MinerGrades, MinerRunsOut, MinerReturns
   DEF Miner!Next

-----------------------------------------------------------------------------
(* The AVX2 build: a window per lane, lane after lane within a tick.         *)

\* A network in the run of a window, and what it shows if it goes on.
LEMMA RunShape ==
  ASSUME NEW tab \in LUT, NEW w \in Windows, NEW t \in 0..MaxTicks
  PROVE  LET now == Run(tab, w)[t]
         IN  /\ now \in NetStates /\ now.v \in Values /\ now.fed \in 0..Width
             /\ ~ Settled(now) => Shown(w, now) \in Values /\ Ticked(tab, w, now) \in NetStates
BY RunType, TickedType DEF NetStates

\* The windows before number f, and that they are scored.
Behind(f) == {w \in Windows : w < f}

Scored(f, failed) ==
  /\ \A w \in Behind(f) : Prediction(lut, w) # Timeout
  /\ failed = Cardinality(Wrong(lut, Behind(f)))

Lanes2 == 0..(NumLanes2 - 1)
Batch2 == IF NumWindows - first2 < NumLanes2 THEN NumWindows - first2 ELSE NumLanes2

\* The reference network of lane l's window.
Now2(l) == Run(lut, first2 + l)[tick2]

\* A lane whose outputs are captured, one shown its sample, one still to be looked at:
\* of the input neurons' rows the last one holds what they showed two ticks ago.
Captured2(l) == predicted2[l] = Prediction(lut, first2 + l) /\ predicted2[l] # Timeout

Shown2(l) ==
  /\ ~ Settled(Now2(l))
  /\ \A n \in Neurons : cur2[n][l] = Shown(first2 + l, Now2(l))[n]
  /\ counter2[l] = Ticked(lut, first2 + l, Now2(l)).fed

Waiting2(l) ==
  /\ \A n \in Updated : cur2[n][l] = Now2(l).v[n]
  /\ counter2[l] = Now2(l).fed
  /\ tick2 > 0 => ~ Settled(Run(lut, first2 + l)[tick2 - 1])

LaneOK2(l) ==
  IF l \in done2 THEN Captured2(l) ELSE IF l < lane THEN Shown2(l) ELSE Waiting2(l)

Avx2TypeOK ==
  /\ pc2 \in {"batch", "sense", "done"}
  /\ first2 \in Nat /\ tick2 \in 0..MaxTicks
  /\ cur2 \in [Neurons -> [Lanes2 -> Trit]] /\ nxt2 \in [Neurons -> [Lanes2 -> Trit]]
  /\ counter2 \in [Lanes2 -> Nat] /\ predicted2 \in [Lanes2 -> Trit]
  /\ done2 \subseteq Lanes2

Sensing2 ==
  pc2 = "sense" =>
    /\ first2 \in Windows /\ lane \in 0..Batch2
    /\ remaining = Cardinality(Lanes2 \ done2)
    /\ \A l \in Lanes2 : l >= Batch2 => l \in done2
    /\ tick2 = MaxTicks => lane = 0 /\ remaining # 0
    /\ \A l \in Lanes2 : l < Batch2 => LaneOK2(l)

Avx2Inv ==
  /\ Avx2TypeOK /\ Sensing2
  /\ pc2 # "done" => Scored(first2, failures2)
  /\ pc2 = "done" => result2 = ScoreOf(lut)

LEMMA BatchType ==
  ASSUME Avx2TypeOK, first2 \in Windows
  PROVE  /\ NumLanes2 \in Nat \ {0} /\ Batch2 \in 1..NumLanes2
         /\ \A l \in Lanes2 : l \in Nat /\ (l < Batch2 => first2 + l \in Windows)
<1>1. NumWindows \in Nat /\ NumLanes2 \in Nat \ {0} /\ first2 \in 0..(NumWindows - 1)
  BY NetAssumption, AgreementAssumption DEF Windows
<1> QED
  BY <1>1 DEF Batch2, Lanes2, Windows

LEMMA CountUpTo ==
  ASSUME NEW n \in Nat
  PROVE  IsFiniteSet(0..(n - 1)) /\ Cardinality(0..(n - 1)) = n
<1>1. 0 \in Int /\ n - 1 \in Int /\ (n - 1) - 0 + 1 = n /\ (0 > n - 1 => n = 0)
  OBVIOUS
<1> QED
  BY <1>1, FS_Interval

LEMMA LanesFinite ==
  /\ IsFiniteSet(Lanes2)
  /\ \A D : IsFiniteSet(Lanes2 \ D) /\ Cardinality(Lanes2 \ D) \in Nat
<1>1. NumLanes2 \in Nat
  BY AgreementAssumption
<1>2. IsFiniteSet(Lanes2)
  BY <1>1, FS_Interval DEF Lanes2
<1>3. ASSUME NEW D PROVE IsFiniteSet(Lanes2 \ D)
  BY <1>2, FS_Difference
<1> QED
  BY <1>2, <1>3, FS_CardinalityType

\* Every lane of a batch is the network of its window before the first tick.
LEMMA Avx2Starts ==
  ASSUME Avx2Inv, lut \in Luts, lut' = lut, Avx2!StartWindows
  PROVE  Avx2Inv'
<1>1. /\ pc2 = "batch" /\ first2 < NumWindows /\ first2' = first2 /\ nxt2' = nxt2
      /\ cur2' = [n \in Neurons |-> [l \in Lanes2 |-> UNKNOWN]]
      /\ counter2' = [l \in Lanes2 |-> 0] /\ predicted2' = [l \in Lanes2 |-> UNKNOWN]
      /\ done2' = {l \in Lanes2 : l >= Batch2} /\ remaining' = Batch2
      /\ tick2' = 0 /\ lane' = 0 /\ pc2' = "sense" /\ failures2' = failures2
  BY DEF Avx2!StartWindows, Avx2!AllLanes, Avx2!Lanes, Lanes2, Avx2!Batch, Batch2,
         Avx2!UNKNOWN, UNKNOWN
<1>2. first2 \in Windows /\ MaxTicks \in Nat /\ MaxTicks # 0
  BY <1>1, NetAssumption DEF Avx2Inv, Avx2TypeOK, Windows
<1>3. Batch2 \in 1..NumLanes2 /\ NumLanes2 \in Nat /\ Batch2' = Batch2
  BY <1>1, <1>2, BatchType DEF Avx2Inv, Batch2
<1>4. Avx2TypeOK'
  <2>1. UNKNOWN \in Trit
    BY DEF UNKNOWN, Trit
  <2> QED
    BY <1>1, <1>2, <2>1 DEF Avx2Inv, Avx2TypeOK
<1>5. Lanes2 \ done2' = 0..(Batch2 - 1)
  BY <1>1, <1>3 DEF Lanes2
<1>6. Cardinality(Lanes2 \ done2') = Batch2
  <2>1. Batch2 \in Nat
    BY <1>3
  <2> QED
    BY <1>5, <2>1, CountUpTo
<1>7. ASSUME NEW l \in Lanes2, l < Batch2 PROVE LaneOK2(l)'
  <2>1. l \notin done2' /\ ~ (l < lane')
    BY <1>1, <1>3, <1>7 DEF Lanes2
  <2>2. Now2(l)' = Start
    BY <1>1, RunStarts DEF Now2
  <2>3. Waiting2(l)'
    BY <1>1, <2>2 DEF Waiting2, Start, AllUnknown, Updated
  <2> QED
    BY <2>1, <2>3 DEF LaneOK2
<1>8. Sensing2'
  BY <1>1, <1>2, <1>3, <1>6, <1>7 DEF Sensing2
<1> QED
  BY <1>1, <1>4, <1>8 DEF Avx2Inv, Scored

\* What holds of a batch being sensed.
LEMMA Sensing2Facts ==
  ASSUME Avx2Inv, lut \in Luts, pc2 = "sense"
  PROVE  /\ lut \in LUT /\ first2 \in Windows /\ first2 \in Nat /\ Batch2 \in 1..NumLanes2
         /\ lane \in Nat /\ lane <= Batch2 /\ NumLanes2 \in Nat \ {0}
         /\ tick2 \in 0..MaxTicks /\ MaxTicks \in Nat /\ Width \in Nat
         /\ tick2 < MaxTicks => tick2 \in 0..(MaxTicks - 1) /\ tick2 + 1 \in 0..MaxTicks
         /\ \A l \in Lanes2 : /\ l \in Nat
                              /\ l \notin done2 => l < Batch2
                              /\ l < Batch2 => first2 + l \in Windows /\ LaneOK2(l)
                              /\ l < Batch2 => Now2(l) \in NetStates /\ Now2(l).v \in Values
<1>1. first2 \in Windows /\ first2 \in Nat /\ lane \in 0..Batch2 /\ tick2 \in 0..MaxTicks
  BY DEF Avx2Inv, Avx2TypeOK, Sensing2
<1>2. Batch2 \in 1..NumLanes2 /\ NumLanes2 \in Nat \ {0}
  BY <1>1, BatchType DEF Avx2Inv
<1>3. MaxTicks \in Nat /\ Width \in Nat /\ lut \in LUT
  BY NetAssumption
<1>4. tick2 < MaxTicks => tick2 \in 0..(MaxTicks - 1) /\ tick2 + 1 \in 0..MaxTicks
  BY <1>1, <1>3
<1>5. ASSUME NEW l \in Lanes2
      PROVE  /\ l \in Nat
             /\ l \notin done2 => l < Batch2
             /\ l < Batch2 => first2 + l \in Windows /\ LaneOK2(l)
             /\ l < Batch2 => Now2(l) \in NetStates /\ Now2(l).v \in Values
  <2>1. l \in Nat /\ (l < Batch2 => first2 + l \in Windows)
    BY <1>1, BatchType DEF Avx2Inv
  <2>2. l \notin done2 => l < Batch2
    BY <1>2, <2>1 DEF Avx2Inv, Sensing2
  <2>3. l < Batch2 => LaneOK2(l)
    BY DEF Avx2Inv, Sensing2
  <2>4. l < Batch2 => Now2(l) \in NetStates /\ Now2(l).v \in Values
    BY <1>1, <1>3, <2>1, RunShape DEF Now2
  <2> QED
    BY <2>1, <2>2, <2>3, <2>4
<1>6. lane \in Nat /\ lane <= Batch2
  BY <1>1, <1>2
<1> QED
  BY <1>1, <1>2, <1>3, <1>4, <1>5, <1>6

\* The lanes but the one looked at stay as they are.
LEMMA OtherLanes2 ==
  ASSUME Avx2Inv, lut \in Luts, lut' = lut, pc2 = "sense", lane < Batch2,
         first2' = first2, tick2' = tick2, lane' = lane + 1,
         NEW l \in Lanes2, l < Batch2, l # lane,
         l \in done2' <=> l \in done2, predicted2'[l] = predicted2[l],
         counter2'[l] = counter2[l], \A n \in Neurons : cur2'[n][l] = cur2[n][l]
  PROVE  LaneOK2(l)'
<1>1. LaneOK2(l) /\ l \in Nat /\ lane \in Nat
  BY Sensing2Facts
<1>2. l < lane' <=> l < lane
  BY <1>1
<1>3. Now2(l)' = Now2(l)
  BY DEF Now2
<1>4. Updated \subseteq Neurons
  BY DEF Updated
<1> QED
  BY <1>1, <1>2, <1>3, <1>4 DEF LaneOK2, Captured2, Shown2, Waiting2

LEMMA Avx2Skips ==
  ASSUME Avx2Inv, lut \in Luts, lut' = lut, Avx2!SkipLane
  PROVE  Avx2Inv'
<1>1. /\ pc2 = "sense" /\ tick2 < MaxTicks /\ lane < Batch2 /\ lane \in done2 /\ lane' = lane + 1
      /\ UNCHANGED <<pc2, first2, tick2, cur2, nxt2, counter2, predicted2, done2, remaining,
                     failures2, result2>>
  BY DEF Avx2!SkipLane, Avx2!Sensing, Avx2!Batch, Batch2
<1>2. Batch2' = Batch2
  BY <1>1 DEF Batch2
<1>3. ASSUME NEW l \in Lanes2, l < Batch2 PROVE LaneOK2(l)'
  <2>1. CASE l = lane
    BY <1>1, <1>3, <2>1, Sensing2Facts DEF LaneOK2, Captured2
  <2>2. CASE l # lane
    BY <1>1, <1>3, <2>2, OtherLanes2
  <2> QED
    BY <2>1, <2>2
<1>4. lane' \in 0..Batch2 /\ tick2 # MaxTicks
  BY <1>1, Sensing2Facts
<1>5. Avx2TypeOK' /\ Sensing2'
  BY <1>1, <1>2, <1>3, <1>4 DEF Avx2Inv, Avx2TypeOK, Sensing2
<1> QED
  BY <1>1, <1>5 DEF Avx2Inv, Scored

\* A lane that is through: its output is the reference's prediction.
LEMMA Avx2Finishes ==
  ASSUME Avx2Inv, lut \in Luts, lut' = lut, Avx2!FinishLane
  PROVE  Avx2Inv'
<1>1. /\ pc2 = "sense" /\ tick2 < MaxTicks /\ lane < Batch2 /\ lane \notin done2 /\ lane' = lane + 1
      /\ cur2[Signal][lane] = UNKNOWN /\ counter2[lane] >= Width
      /\ predicted2' = [predicted2 EXCEPT ![lane] = cur2[Output][lane]]
      /\ done2' = done2 \cup {lane} /\ remaining' = remaining - 1
      /\ UNCHANGED <<pc2, first2, tick2, cur2, nxt2, counter2, failures2, result2>>
  BY DEF Avx2!FinishLane, Avx2!Sensing, Avx2!Batch, Batch2, Avx2!UNKNOWN, UNKNOWN
<1>2. Batch2' = Batch2
  BY <1>1 DEF Batch2
<1>3. /\ lane \in Lanes2 /\ lane \in Nat /\ first2 + lane \in Windows /\ Waiting2(lane)
      /\ Now2(lane) \in NetStates /\ tick2 \in 0..(MaxTicks - 1) /\ lut \in LUT /\ Width \in Nat
      /\ lane' \in 0..Batch2 /\ tick2 # MaxTicks
  <2>1. lane \in Lanes2 /\ lane \in Nat /\ ~ (lane < lane)
    BY <1>1, Sensing2Facts DEF Lanes2
  <2> QED
    BY <1>1, <2>1, Sensing2Facts DEF LaneOK2
<1>4. Output \in Updated /\ Signal \in Updated /\ Output \in Neurons
  BY NetAssumption DEF Updated
<1>5. Settled(Now2(lane))
  BY <1>1, <1>3, <1>4 DEF Waiting2, Settled, NetStates
<1>6. Prediction(lut, first2 + lane) = cur2[Output][lane] /\ Prediction(lut, first2 + lane) \in Trit
  BY <1>3, <1>4, <1>5, PredictionIs DEF Waiting2, Now2
<1>7. ASSUME NEW l \in Lanes2, l < Batch2 PROVE LaneOK2(l)'
  <2>1. CASE l = lane
    <3>1. predicted2'[l] = Prediction(lut, first2 + lane)
      BY <1>1, <1>3, <1>6, <2>1 DEF Avx2Inv, Avx2TypeOK
    <3>2. predicted2'[l] # Timeout
      BY <1>6, <3>1 DEF Trit, Timeout
    <3> QED
      BY <1>1, <2>1, <3>1, <3>2 DEF LaneOK2, Captured2
  <2>2. CASE l # lane
    <3>1. predicted2'[l] = predicted2[l] /\ (l \in done2' <=> l \in done2)
      BY <1>1, <2>2 DEF Avx2Inv, Avx2TypeOK
    <3> QED
      BY <1>1, <1>7, <2>2, <3>1, OtherLanes2
  <2> QED
    BY <2>1, <2>2
<1>8. remaining' = Cardinality(Lanes2 \ done2')
  <2>1. Lanes2 \ done2' = (Lanes2 \ done2) \ {lane} /\ lane \in Lanes2 \ done2
    BY <1>1, <1>3
  <2> QED
    BY <1>1, <2>1, LanesFinite, FS_RemoveElement DEF Avx2Inv, Sensing2
<1>9. Avx2TypeOK'
  <2>1. predicted2' \in [Lanes2 -> Trit]
    BY <1>1, <1>3, <1>6 DEF Avx2Inv, Avx2TypeOK
  <2> QED
    BY <1>1, <1>3, <2>1 DEF Avx2Inv, Avx2TypeOK
<1>10. Sensing2'
  BY <1>1, <1>2, <1>3, <1>7, <1>8 DEF Avx2Inv, Sensing2
<1> QED
  BY <1>1, <1>9, <1>10 DEF Avx2Inv, Scored

\* A lane's inputs show what the reference's show.
LEMMA Avx2Shows ==
  ASSUME Avx2Inv, lut \in Luts, lut' = lut, Avx2!FeedLane \/ Avx2!MaskLane
  PROVE  Avx2Inv'
<1>1. /\ pc2 = "sense" /\ tick2 < MaxTicks /\ lane < Batch2 /\ lane \notin done2 /\ lane' = lane + 1
      /\ UNCHANGED <<pc2, first2, tick2, nxt2, predicted2, done2, remaining, failures2, result2>>
  BY DEF Avx2!FeedLane, Avx2!MaskLane, Avx2!Sensing, Avx2!Batch, Batch2
<1>2. Batch2' = Batch2
  BY <1>1 DEF Batch2
<1>3. /\ lane \in Lanes2 /\ lane \in Nat /\ first2 + lane \in Windows /\ Waiting2(lane)
      /\ Now2(lane) \in NetStates /\ tick2 \in 0..(MaxTicks - 1) /\ lut \in LUT /\ Width \in Nat
      /\ lane' \in 0..Batch2 /\ tick2 # MaxTicks /\ first2 \in Nat
  <2>1. lane \in Lanes2 /\ lane \in Nat /\ ~ (lane < lane)
    BY <1>1, Sensing2Facts DEF Lanes2
  <2> QED
    BY <1>1, <2>1, Sensing2Facts DEF LaneOK2
<1>4. Signal \in Updated /\ InputNeurons \subseteq Neurons
  BY NetAssumption DEF Updated
<1>5. PICK sample \in [InputNeurons -> Trit] :
        /\ cur2' = [n \in Neurons |-> IF n \in InputNeurons
                                      THEN [cur2[n] EXCEPT ![lane] = sample[n]] ELSE cur2[n]]
        /\ ~ Settled(Now2(lane))
        /\ \A n \in Neurons : Shown(first2 + lane, Now2(lane))[n] =
             IF n \in InputNeurons THEN sample[n] ELSE Now2(lane).v[n]
        /\ counter2' \in [Lanes2 -> Nat]
        /\ counter2'[lane] = Ticked(lut, first2 + lane, Now2(lane)).fed
        /\ \A l \in Lanes2 : l # lane => counter2'[l] = counter2[l]
  <2>1. CASE Avx2!FeedLane
    <3>1. /\ cur2[Signal][lane] = UNKNOWN /\ counter2[lane] < Width
          /\ cur2' = [n \in Neurons |-> IF n \in InputNeurons
                 THEN [cur2[n] EXCEPT ![lane] = Inputs[first2 + lane + counter2[lane]][n]] ELSE cur2[n]]
          /\ counter2' = [counter2 EXCEPT ![lane] = @ + 1]
      BY <2>1 DEF Avx2!FeedLane, Avx2!Shown, Avx2!UNKNOWN, UNKNOWN
    <3>2. /\ Now2(lane).v[Signal] = UNKNOWN /\ counter2[lane] = Now2(lane).fed
          /\ Now2(lane).fed \in 0..Width /\ Now2(lane).fed # Width
      BY <1>3, <1>4, <3>1 DEF Waiting2, NetStates
    <3>3. first2 + lane + counter2[lane] \in Samples
      <4>1. NumWindows \in Nat
        BY NetAssumption
      <4> QED
        BY <1>3, <3>2, <4>1 DEF Windows, Samples
    <3>4. Inputs[first2 + lane + counter2[lane]] \in [InputNeurons -> Trit]
      BY <3>3, NetAssumption
    <3>5. ~ Settled(Now2(lane)) /\ Shown(first2 + lane, Now2(lane)) = Fed(Now2(lane).v, first2 + lane + counter2[lane])
      BY <1>3, <3>2 DEF Settled, Shown
    <3>6. /\ counter2' \in [Lanes2 -> Nat] /\ counter2'[lane] = Ticked(lut, first2 + lane, Now2(lane)).fed
          /\ \A l \in Lanes2 : l # lane => counter2'[l] = counter2[l]
      BY <1>3, <3>1, <3>2 DEF Ticked, Avx2Inv, Avx2TypeOK
    <3> QED
      BY <3>1, <3>4, <3>5, <3>6 DEF Fed
  <2>2. CASE Avx2!MaskLane
    <3>1. /\ cur2[Signal][lane] # UNKNOWN /\ counter2' = counter2
          /\ cur2' = [n \in Neurons |-> IF n \in InputNeurons
                 THEN [cur2[n] EXCEPT ![lane] = [m \in InputNeurons |-> UNKNOWN][n]] ELSE cur2[n]]
      BY <2>2 DEF Avx2!MaskLane, Avx2!Shown, Avx2!UNKNOWN, UNKNOWN
    <3>2. Now2(lane).v[Signal] # UNKNOWN /\ counter2[lane] = Now2(lane).fed
      BY <1>3, <1>4, <3>1 DEF Waiting2
    <3>3. [m \in InputNeurons |-> UNKNOWN] \in [InputNeurons -> Trit]
      BY DEF UNKNOWN, Trit
    <3>4. ~ Settled(Now2(lane)) /\ Shown(first2 + lane, Now2(lane)) = Masked(Now2(lane).v)
      BY <3>2 DEF Settled, Shown
    <3>5. /\ counter2' \in [Lanes2 -> Nat] /\ counter2'[lane] = Ticked(lut, first2 + lane, Now2(lane)).fed
          /\ \A l \in Lanes2 : l # lane => counter2'[l] = counter2[l]
      BY <3>1, <3>2 DEF Ticked, Avx2Inv, Avx2TypeOK
    <3> QED
      BY <3>1, <3>3, <3>4, <3>5 DEF Masked
  <2> QED
    BY <2>1, <2>2
<1>6. cur2' \in [Neurons -> [Lanes2 -> Trit]]
  <2>1. ASSUME NEW n \in Neurons PROVE cur2'[n] \in [Lanes2 -> Trit]
    BY <1>3, <1>5 DEF Avx2Inv, Avx2TypeOK
  <2> QED
    BY <1>5, <2>1
<1>7. ASSUME NEW l \in Lanes2, l < Batch2 PROVE LaneOK2(l)'
  <2>1. CASE l = lane
    <3>1. ASSUME NEW n \in Neurons PROVE cur2'[n][lane] = Shown(first2 + lane, Now2(lane))[n]
      BY <1>3, <1>5 DEF Avx2Inv, Avx2TypeOK, Waiting2, Updated
    <3>3. lane < lane' /\ lane \notin done2'
      BY <1>1, <1>3
    <3>4. Now2(l)' = Now2(lane)
      BY <1>1, <2>1 DEF Now2
    <3> QED
      BY <1>1, <1>5, <2>1, <3>1, <3>3, <3>4 DEF LaneOK2, Shown2
  <2>2. CASE l # lane
    <3>1. \A n \in Neurons : cur2'[n][l] = cur2[n][l]
      BY <1>3, <1>5, <2>2 DEF Avx2Inv, Avx2TypeOK
    <3> QED
      BY <1>1, <1>5, <1>7, <2>2, <3>1, OtherLanes2
  <2> QED
    BY <2>1, <2>2
<1>8. Avx2TypeOK'
  BY <1>1, <1>5, <1>6 DEF Avx2Inv, Avx2TypeOK
<1>9. Sensing2'
  BY <1>1, <1>2, <1>3, <1>7 DEF Avx2Inv, Sensing2
<1> QED
  BY <1>1, <1>8, <1>9 DEF Avx2Inv, Scored

\* All lanes shown: the planes swap, and every running lane is the reference one tick on.
LEMMA Avx2Ticks ==
  ASSUME Avx2Inv, lut \in Luts, lut' = lut, Table = lut, Avx2!TickLanes
  PROVE  Avx2Inv'
<1>1. /\ pc2 = "sense" /\ tick2 < MaxTicks /\ lane = Batch2 /\ remaining # 0
      /\ cur2' = [n \in Neurons |->
           IF n \in InputNeurons THEN nxt2[n]
           ELSE [l \in Lanes2 |-> LookUp(lut, [m \in Neurons |-> cur2[m][l]], n)]]
      /\ nxt2' = cur2 /\ tick2' = tick2 + 1 /\ lane' = 0
      /\ UNCHANGED <<pc2, first2, counter2, predicted2, done2, remaining, failures2, result2>>
  BY DEF Avx2!TickLanes, Avx2!Batch, Batch2, Avx2!Lanes, Lanes2, Avx2!LookUp, LookUp
<1>2. Batch2' = Batch2
  BY <1>1 DEF Batch2
<1>3. /\ tick2 \in 0..(MaxTicks - 1) /\ tick2 + 1 \in 0..MaxTicks /\ lut \in LUT
      /\ tick2 \in Nat /\ (tick2 + 1) - 1 = tick2 /\ 0 \in 0..Batch2
  BY <1>1, Sensing2Facts
<1>4. ASSUME NEW l \in Lanes2 PROVE [m \in Neurons |-> cur2[m][l]] \in Values
  BY DEF Avx2Inv, Avx2TypeOK, Values
<1>5. cur2' \in [Neurons -> [Lanes2 -> Trit]]
  <2>1. ASSUME NEW n \in Neurons PROVE cur2'[n] \in [Lanes2 -> Trit]
    <3>1. CASE n \in InputNeurons
      BY <1>1, <3>1 DEF Avx2Inv, Avx2TypeOK
    <3>2. CASE n \notin InputNeurons
      <4>1. \A l \in Lanes2 : LookUp(lut, [m \in Neurons |-> cur2[m][l]], n) \in Trit
        BY <1>3, <1>4, <3>2, LookUpType DEF Updated
      <4> QED
        BY <1>1, <3>2, <4>1
    <3> QED
      BY <3>1, <3>2
  <2> QED
    BY <1>1, <2>1
<1>6. ASSUME NEW l \in Lanes2, l < Batch2 PROVE LaneOK2(l)'
  <2>1. CASE l \in done2
    BY <1>1, <1>6, <2>1, Sensing2Facts DEF LaneOK2, Captured2
  <2>2. CASE l \notin done2
    <3>1. Shown2(l) /\ first2 + l \in Windows /\ Now2(l) \in NetStates /\ l \in Nat
      BY <1>1, <1>6, <2>2, Sensing2Facts DEF LaneOK2
    <3>2. Now2(l)' = Ticked(lut, first2 + l, Now2(l))
      BY <1>1, <1>3, <3>1, RunGoesOn DEF Now2, Shown2
    <3>3. [m \in Neurons |-> cur2[m][l]] = Shown(first2 + l, Now2(l))
      <4>1. Shown(first2 + l, Now2(l)) \in Values
        BY <1>3, <3>1, TickedType DEF Shown2
      <4>2. \A m \in Neurons : cur2[m][l] = Shown(first2 + l, Now2(l))[m]
        BY <3>1 DEF Shown2
      <4> QED
        BY <4>1, <4>2 DEF Values
    <3>4. ASSUME NEW n \in Updated PROVE cur2'[n][l] = Ticked(lut, first2 + l, Now2(l)).v[n]
      BY <1>1, <3>3 DEF Updated, Ticked, Synchronous
    <3>5. Waiting2(l)'
      BY <1>1, <1>3, <3>1, <3>2, <3>4 DEF Waiting2, Shown2, Now2
    <3>6. l \notin done2' /\ ~ (l < lane')
      BY <1>1, <2>2, <3>1
    <3> QED
      BY <3>5, <3>6 DEF LaneOK2
  <2> QED
    BY <2>1, <2>2
<1>7. Avx2TypeOK'
  BY <1>1, <1>3, <1>5 DEF Avx2Inv, Avx2TypeOK
<1>8. Sensing2'
  BY <1>1, <1>2, <1>3, <1>6 DEF Avx2Inv, Sensing2
<1> QED
  BY <1>1, <1>7, <1>8 DEF Avx2Inv, Scored

\* Out of ticks: some lane is still running, and its window times out.
LEMMA Avx2RunsOut ==
  ASSUME Avx2Inv, lut \in Luts, lut' = lut, Avx2!OutOfTicks
  PROVE  Avx2Inv'
<1>1. /\ pc2 = "sense" /\ tick2 = MaxTicks /\ result2' = INF /\ pc2' = "done"
      /\ UNCHANGED <<first2, tick2, cur2, nxt2, counter2, predicted2, done2>>
  BY DEF Avx2!OutOfTicks, Avx2!INF, INF
<1>2. lane = 0 /\ remaining # 0 /\ remaining = Cardinality(Lanes2 \ done2) /\ MaxTicks > 0
  BY <1>1, NetAssumption DEF Avx2Inv, Sensing2
<1>3. PICK l \in Lanes2 : l \notin done2
  <2>1. Lanes2 \ done2 # {}
    BY <1>2, FS_EmptySet
  <2> QED
    BY <2>1
<1>4. l \in Nat /\ ~ (l < 0) /\ first2 + l \in Windows /\ LaneOK2(l) /\ lut \in LUT
  BY <1>1, <1>3, Sensing2Facts
<1>5. ~ Settled(Run(lut, first2 + l)[MaxTicks - 1])
  BY <1>1, <1>2, <1>3, <1>4 DEF LaneOK2, Waiting2
<1>6. ScoreOf(lut) = INF
  BY <1>4, <1>5, PredictionIs, ScoreIs
<1> QED
  BY <1>1, <1>6 DEF Avx2Inv, Avx2TypeOK, Sensing2

\* Windows counted once: a one-to-one relation of counters to windows keeps the count.
LEMMA CountedOnce ==
  ASSUME NEW S, NEW T, NEW f \in [S -> T], IsFiniteSet(S),
         \A x, y \in S : f[x] = f[y] => x = y, \A z \in T : \E x \in S : f[x] = z
  PROVE  IsFiniteSet(T) /\ Cardinality(T) = Cardinality(S)
<1>1. f \in Bijection(S, T)
  BY DEF Bijection, Injection, Surjection, IsInjective
<1>2. ExistsBijection(S, T)
  BY <1>1 DEF ExistsBijection
<1> QED
  BY <1>2, FS_Bijection

LEMMA CardinalityOfParts ==
  ASSUME NEW S, NEW T, IsFiniteSet(S), IsFiniteSet(T), S \cap T = {}
  PROVE  Cardinality(S \cup T) = Cardinality(S) + Cardinality(T)
<1>1. Cardinality(S \cup T) = Cardinality(S) + Cardinality(T) - Cardinality(S \cap T)
  BY FS_Union
<1>2. Cardinality(S \cap T) = 0 /\ Cardinality(S) \in Nat /\ Cardinality(T) \in Nat
  BY FS_EmptySet, FS_CardinalityType
<1> QED
  BY <1>1, <1>2

\* The windows of a batch are graded after those before it.
LEMMA BatchScored ==
  ASSUME NEW f \in Nat, NEW g \in Nat, f <= g, NEW failed,
         Scored(f, failed), NEW wrong, IsFiniteSet(wrong),
         \A w \in Behind(g) \ Behind(f) : Prediction(lut, w) # Timeout,
         Cardinality(Wrong(lut, Behind(g) \ Behind(f))) = Cardinality(wrong)
  PROVE  Scored(g, failed + Cardinality(wrong))
<1>1. NumWindows \in Nat
  BY NetAssumption
<1>2. IsFiniteSet(Windows)
  BY <1>1, CountUpTo DEF Windows
<1>3. Behind(f) \subseteq Behind(g) /\ Behind(g) \subseteq Windows /\ Windows \subseteq Nat
  BY <1>1 DEF Behind, Windows
<1>4. Wrong(lut, Behind(g)) = Wrong(lut, Behind(f)) \cup Wrong(lut, Behind(g) \ Behind(f))
  BY <1>3 DEF Wrong
<1>5. Wrong(lut, Behind(f)) \cap Wrong(lut, Behind(g) \ Behind(f)) = {}
  BY DEF Wrong
<1>6. IsFiniteSet(Wrong(lut, Behind(f))) /\ IsFiniteSet(Wrong(lut, Behind(g) \ Behind(f)))
  <2>1. Wrong(lut, Behind(f)) \subseteq Windows /\ Wrong(lut, Behind(g) \ Behind(f)) \subseteq Windows
    BY <1>3 DEF Wrong
  <2> QED
    BY <1>2, <2>1, FS_Subset
<1>7. Cardinality(Wrong(lut, Behind(g)))
        = Cardinality(Wrong(lut, Behind(f))) + Cardinality(Wrong(lut, Behind(g) \ Behind(f)))
  BY <1>4, <1>5, <1>6, CardinalityOfParts
<1> QED
  BY <1>3, <1>7 DEF Scored

\* The batch is through: a wrong lane is a wrong window.
LEMMA Avx2Grades ==
  ASSUME Avx2Inv, lut \in Luts, lut' = lut, Avx2!GradeLanes
  PROVE  Avx2Inv'
<1> DEFINE wrong == {l \in 0..(Batch2 - 1) : predicted2[l] # Outputs[first2 + l + Width]}
<1> DEFINE graded == Behind(first2 + NumLanes2) \ Behind(first2)
<1>1. /\ pc2 = "sense" /\ remaining = 0 /\ failures2' = failures2 + Cardinality(wrong)
      /\ first2' = first2 + NumLanes2 /\ pc2' = "batch"
      /\ UNCHANGED <<tick2, cur2, nxt2, counter2, predicted2, done2>>
  <2>1. Avx2!Batch = Batch2
    BY DEF Avx2!Batch, Batch2
  <2>2. wrong = {l \in 0..(Avx2!Batch - 1) : predicted2[l] # Outputs[first2 + l + Width]}
    BY <2>1
  <2>3. failures2' = failures2 + Cardinality(wrong)
    BY <2>2 DEF Avx2!GradeLanes, Avx2!Cardinality, Cardinality
  <2> HIDE DEF wrong
  <2>4. pc2 = "sense" /\ remaining = 0 /\ first2' = first2 + NumLanes2 /\ pc2' = "batch"
    BY DEF Avx2!GradeLanes
  <2>5. UNCHANGED <<tick2, cur2, nxt2, counter2, predicted2, done2>>
    BY DEF Avx2!GradeLanes
  <2> QED
    BY <2>3, <2>4, <2>5
<1>2. /\ first2 \in Nat /\ Batch2 \in 1..NumLanes2 /\ NumLanes2 \in Nat \ {0}
      /\ NumWindows \in Nat /\ first2 \in Windows /\ lut \in LUT
  BY <1>1, Sensing2Facts, NetAssumption
<1>3. Lanes2 \ done2 = {}
  BY <1>1, LanesFinite, FS_EmptySet DEF Avx2Inv, Sensing2
<1>4. ASSUME NEW l \in 0..(Batch2 - 1)
      PROVE  /\ l \in Lanes2 /\ first2 + l \in graded /\ first2 + l \in Windows
             /\ predicted2[l] = Prediction(lut, first2 + l) /\ Prediction(lut, first2 + l) # Timeout
  <2>1. l \in Nat /\ l < Batch2 /\ l \in Lanes2 /\ l < NumLanes2
    BY <1>2 DEF Lanes2
  <2>2. l \in done2 /\ first2 + l \in Windows /\ LaneOK2(l)
    BY <1>1, <1>3, <2>1, Sensing2Facts
  <2>3. first2 + l < first2 + NumLanes2 /\ ~ (first2 + l < first2)
    BY <1>2, <2>1
  <2> QED
    BY <2>1, <2>2, <2>3 DEF LaneOK2, Captured2, Behind
<1>5. ASSUME NEW w \in graded
      PROVE  w - first2 \in 0..(Batch2 - 1) /\ first2 + (w - first2) = w
  <2>1. w \in 0..(NumWindows - 1) /\ w < first2 + NumLanes2 /\ ~ (w < first2)
    BY <1>5 DEF Behind, Windows
  <2> QED
    BY <1>2, <2>1 DEF Batch2
<1>6. \A w \in graded : Prediction(lut, w) # Timeout
  BY <1>4, <1>5
<1>7. IsFiniteSet(wrong) /\ Cardinality(Wrong(lut, graded)) = Cardinality(wrong)
  <2>1. IsFiniteSet(wrong)
    <3>1. wrong \subseteq 0..(Batch2 - 1) /\ Batch2 \in Nat
      BY <1>2
    <3> QED
      BY <3>1, CountUpTo, FS_Subset
  <2> DEFINE f == [l \in wrong |-> first2 + l]
  <2>2. f \in [wrong -> Wrong(lut, graded)]
    <3>1. ASSUME NEW l \in wrong PROVE first2 + l \in Wrong(lut, graded)
      BY <1>4 DEF Wrong
    <3> QED
      BY <3>1
  <2>3. \A x, y \in wrong : f[x] = f[y] => x = y
    BY <1>2
  <2>4. ASSUME NEW z \in Wrong(lut, graded) PROVE \E x \in wrong : f[x] = z
    <3>1. z \in graded /\ Prediction(lut, z) # Outputs[z + Width]
      BY DEF Wrong
    <3>2. z - first2 \in 0..(Batch2 - 1) /\ first2 + (z - first2) = z
      BY <1>5, <3>1
    <3>3. predicted2[z - first2] = Prediction(lut, z)
      BY <1>4, <3>2
    <3>4. z - first2 \in wrong
      BY <3>1, <3>2, <3>3
    <3> QED
      BY <3>2, <3>4
  <2> HIDE DEF f, wrong, graded
  <2> QED
    BY <2>1, <2>2, <2>3, <2>4, CountedOnce
<1> HIDE DEF wrong
<1>8. Scored(first2 + NumLanes2, failures2 + Cardinality(wrong))
  BY <1>1, <1>2, <1>6, <1>7, BatchScored DEF Avx2Inv
<1>9. Avx2TypeOK'
  BY <1>1, <1>2 DEF Avx2Inv, Avx2TypeOK
<1> QED
  BY <1>1, <1>8, <1>9 DEF Avx2Inv, Sensing2, Scored

LEMMA Avx2Returns ==
  ASSUME Avx2Inv, lut \in Luts, lut' = lut, Avx2!ReturnFailures
  PROVE  Avx2Inv'
<1>1. /\ pc2 = "batch" /\ first2 >= NumWindows /\ result2' = failures2 /\ pc2' = "done"
      /\ UNCHANGED <<first2, tick2, cur2, nxt2, counter2, predicted2, done2>>
  BY DEF Avx2!ReturnFailures
<1>2. Behind(first2) = Windows
  BY <1>1, NetAssumption DEF Behind, Windows, Avx2Inv, Avx2TypeOK
<1>3. ScoreOf(lut) = failures2
  BY <1>1, <1>2, ScoreIs DEF Avx2Inv, Scored
<1> QED
  BY <1>1, <1>3 DEF Avx2Inv, Avx2TypeOK, Sensing2

LEMMA Avx2Steps ==
  ASSUME Avx2Inv, lut \in Luts, lut' = lut, Table = lut, Avx2!Next
  PROVE  Avx2Inv'
BY Avx2Starts, Avx2Skips, Avx2Finishes, Avx2Shows, Avx2Ticks, Avx2RunsOut, Avx2Grades, Avx2Returns
   DEF Avx2!Next

-----------------------------------------------------------------------------
(* What the node makes of the topology: positions, rows and the cone.        *)

\* A strict order by distinct keys numbers a finite set from 0 without gaps.
LEMMA PlaceNumbers ==
  ASSUME NEW S, IsFiniteSet(S), NEW key, \A n \in S : key[n] \in Nat,
         \A m, n \in S : key[m] = key[n] => m = n
  PROVE  /\ Cardinality(S) \in Nat
         /\ \A n \in S : Place(S, key, n) \in 0..(Cardinality(S) - 1)
         /\ \A m, n \in S : Place(S, key, m) = Place(S, key, n) => m = n
         /\ \A k \in 0..(Cardinality(S) - 1) : \E n \in S : Place(S, key, n) = k
<1> DEFINE Below(n) == {m \in S : key[m] < key[n]}
<1>1. \A n \in S : Below(n) \subseteq S /\ n \notin Below(n)
  OBVIOUS
<1>2. \A n \in S : IsFiniteSet(Below(n)) /\ Cardinality(Below(n)) \in Nat
  BY <1>1, FS_Subset, FS_CardinalityType
<1>3. Cardinality(S) \in Nat
  BY FS_CardinalityType
<1>4. ASSUME NEW n \in S PROVE Place(S, key, n) \in 0..(Cardinality(S) - 1)
  <2>1. Cardinality(Below(n)) <= Cardinality(S) /\ Cardinality(Below(n)) # Cardinality(S)
    BY <1>1, FS_Subset
  <2>2. Place(S, key, n) = Cardinality(Below(n))
    BY DEF Place
  <2> HIDE DEF Below
  <2> QED
    BY <1>2, <1>3, <2>1, <2>2
<1>5. ASSUME NEW m \in S, NEW n \in S, key[m] < key[n]
      PROVE  Place(S, key, m) # Place(S, key, n)
  <2>1. Below(m) \subseteq Below(n) /\ m \in Below(n) /\ m \notin Below(m)
    BY <1>5
  <2>2. Place(S, key, m) = Cardinality(Below(m)) /\ Place(S, key, n) = Cardinality(Below(n))
    BY DEF Place
  <2> HIDE DEF Below
  <2> QED
    BY <1>2, <2>1, <2>2, FS_Subset
<1>6. ASSUME NEW m \in S, NEW n \in S, Place(S, key, m) = Place(S, key, n) PROVE m = n
  <2>1. key[m] \in Nat /\ key[n] \in Nat
    OBVIOUS
  <2>2. ~ (key[m] < key[n]) /\ ~ (key[n] < key[m])
    BY <1>5, <1>6
  <2>3. key[m] = key[n]
    BY <2>1, <2>2
  <2> QED
    BY <2>3
<1> DEFINE f == [n \in S |-> Place(S, key, n)]
<1> DEFINE T == 0..(Cardinality(S) - 1)
<1>7. f \in Injection(S, T)
  BY <1>4, <1>6 DEF Injection, IsInjective
<1>8. IsFiniteSet(T) /\ Cardinality(T) = Cardinality(S)
  BY <1>3, CountUpTo
<1>9. f \in Surjection(S, T)
  <2> HIDE DEF f, T
  <2> QED
    BY <1>7, <1>8, FS_Injection
<1>10. \A k \in T : \E n \in S : f[n] = k
  BY <1>9 DEF Surjection
<1> QED
  BY <1>3, <1>4, <1>6, <1>10

\* The neurons are numbers, the inputs have distinct places in their list.
LEMMA Keys ==
  /\ IsFiniteSet(Neurons) /\ Neurons \subseteq Nat
  /\ \A S \in SUBSET Neurons :
       IsFiniteSet(S) /\ (\A n \in S : Number[n] \in Nat)
       /\ \A m, n \in S : Number[m] = Number[n] => m = n
  /\ \A S \in SUBSET InputNeurons :
       IsFiniteSet(S) /\ (\A n \in S : InputPosition[n] \in Nat)
       /\ \A m, n \in S : InputPosition[m] = InputPosition[n] => m = n
<1>1. IsFiniteSet(Neurons) /\ InputNeurons \subseteq Neurons
  BY NetAssumption
<1>2. Neurons \subseteq Nat
  <2>1. Cardinality(Neurons) \in Nat /\ Neurons = 0..(Cardinality(Neurons) - 1)
    BY <1>1, NodeAssumption, FS_CardinalityType
  <2> QED
    BY <2>1
<1>3. ASSUME NEW n \in InputNeurons PROVE InputPosition[n] \in Nat
  <2>1. InputPosition[n] \in 0..(Cardinality(InputNeurons) - 1)
    BY NodeAssumption
  <2> QED
    BY <2>1
<1>4. ASSUME NEW S \in SUBSET Neurons
      PROVE  /\ IsFiniteSet(S) /\ \A n \in S : Number[n] \in Nat
             /\ \A m, n \in S : Number[m] = Number[n] => m = n
  <2>1. IsFiniteSet(S)
    BY <1>1, FS_Subset
  <2>2. \A n \in S : Number[n] = n /\ n \in Nat
    BY <1>2 DEF Number
  <2> QED
    BY <2>1, <2>2
<1>5. ASSUME NEW S \in SUBSET InputNeurons
      PROVE  /\ IsFiniteSet(S) /\ \A n \in S : InputPosition[n] \in Nat
             /\ \A m, n \in S : InputPosition[m] = InputPosition[n] => m = n
  <2>1. IsFiniteSet(S)
    BY <1>1, <1>4
  <2>2. \A m, n \in S : InputPosition[m] = InputPosition[n] => m = n
    BY NodeAssumption
  <2> QED
    BY <1>3, <2>1, <2>2
<1> QED
  BY <1>1, <1>2, <1>4, <1>5

\* Row k of a table by position is the row of the k-th updated neuron, and back.
LEMMA RowsOfTables ==
  /\ \A n \in Updated : TableRow[n] \in DOMAIN UpdatedAt /\ UpdatedAt[TableRow[n]] = n
  /\ \A k \in DOMAIN UpdatedAt : UpdatedAt[k] \in Updated /\ TableRow[UpdatedAt[k]] = k
  /\ Cardinality(Updated) \in Nat /\ DOMAIN UpdatedAt = 0..(Cardinality(Updated) - 1)
<1>1. Updated \subseteq Neurons
  BY DEF Updated
<1>2. /\ Cardinality(Updated) \in Nat
      /\ \A n \in Updated : TableRow[n] \in 0..(Cardinality(Updated) - 1)
      /\ \A m, n \in Updated : TableRow[m] = TableRow[n] => m = n
      /\ \A k \in 0..(Cardinality(Updated) - 1) : \E n \in Updated : TableRow[n] = k
  <2>1. /\ IsFiniteSet(Updated) /\ \A n \in Updated : Number[n] \in Nat
        /\ \A m, n \in Updated : Number[m] = Number[n] => m = n
    BY <1>1, Keys
  <2>2. \A n \in Updated : TableRow[n] = Place(Updated, Number, n)
    BY DEF TableRow
  <2>3. /\ Cardinality(Updated) \in Nat
        /\ \A n \in Updated : Place(Updated, Number, n) \in 0..(Cardinality(Updated) - 1)
        /\ \A m, n \in Updated : Place(Updated, Number, m) = Place(Updated, Number, n) => m = n
        /\ \A k \in 0..(Cardinality(Updated) - 1) : \E n \in Updated : Place(Updated, Number, n) = k
    BY <2>1, PlaceNumbers
  <2> QED
    BY <2>2, <2>3
<1>3. \A k \in 0..(Cardinality(Updated) - 1) : UpdatedAt[k] = CHOOSE n \in Updated : TableRow[n] = k
  BY DEF UpdatedAt
<1>4. DOMAIN UpdatedAt = 0..(Cardinality(Updated) - 1)
  BY DEF UpdatedAt
<1>5. \A k \in DOMAIN UpdatedAt : UpdatedAt[k] \in Updated /\ TableRow[UpdatedAt[k]] = k
  BY <1>2, <1>3, <1>4
<1> QED
  BY <1>2, <1>4, <1>5

\* The rows of the planes: each neuron of the network has one of its own.
LEMMA RowsOfPlanes ==
  /\ RowOf \in [Neurons -> Neurons]
  /\ \A m, n \in Neurons : RowOf[m] = RowOf[n] => m = n
<1> DEFINE Dead == Updated \ Live
           DeadInputs == InputNeurons \ Cone
           a == Cardinality(Live)
           b == Cardinality(Updated)
           c == Cardinality(Updated \cup LiveInputs)
           d == Cardinality(Neurons)
<1>1. /\ Live \subseteq Updated /\ Dead \subseteq Updated /\ Updated \subseteq Neurons
      /\ LiveInputs \subseteq InputNeurons /\ DeadInputs \subseteq InputNeurons
      /\ InputNeurons \subseteq Neurons
  BY NetAssumption DEF Live, LiveInputs, Updated
<1>2. /\ IsFiniteSet(Live) /\ IsFiniteSet(Dead) /\ IsFiniteSet(LiveInputs)
      /\ IsFiniteSet(DeadInputs) /\ IsFiniteSet(Updated) /\ IsFiniteSet(Updated \cup LiveInputs)
  BY <1>1, Keys, FS_Subset, FS_Union
<1>3. /\ Cardinality(Updated) = Cardinality(Live) + Cardinality(Dead)
      /\ Cardinality(Updated \cup LiveInputs) = Cardinality(Updated) + Cardinality(LiveInputs)
      /\ Cardinality(Neurons) = Cardinality(Updated \cup LiveInputs) + Cardinality(DeadInputs)
  <2>1. Updated = Live \cup Dead /\ Live \cap Dead = {}
    BY <1>1
  <2>2. Updated \cap LiveInputs = {}
    BY <1>1 DEF Updated
  <2>3. Neurons = (Updated \cup LiveInputs) \cup DeadInputs /\ (Updated \cup LiveInputs) \cap DeadInputs = {}
    BY <1>1 DEF Updated, LiveInputs
  <2>4. Cardinality(Live \cup Dead) = Cardinality(Live) + Cardinality(Dead)
    BY <1>2, <2>1, CardinalityOfParts
  <2>5. Cardinality(Updated \cup LiveInputs) = Cardinality(Updated) + Cardinality(LiveInputs)
    BY <1>2, <2>2, CardinalityOfParts
  <2>6. Cardinality((Updated \cup LiveInputs) \cup DeadInputs)
          = Cardinality(Updated \cup LiveInputs) + Cardinality(DeadInputs)
    BY <1>2, <2>3, CardinalityOfParts
  <2> HIDE DEF Dead, DeadInputs
  <2> QED
    BY <2>1, <2>3, <2>4, <2>5, <2>6
<1> HIDE DEF Dead, DeadInputs
<1>4. /\ Cardinality(Live) \in Nat /\ Cardinality(Dead) \in Nat /\ Cardinality(LiveInputs) \in Nat
      /\ Cardinality(DeadInputs) \in Nat
      /\ \A n \in Live : Place(Live, Number, n) \in 0..(Cardinality(Live) - 1)
      /\ \A m, n \in Live : Place(Live, Number, m) = Place(Live, Number, n) => m = n
      /\ \A n \in Dead : Place(Dead, Number, n) \in 0..(Cardinality(Dead) - 1)
      /\ \A m, n \in Dead : Place(Dead, Number, m) = Place(Dead, Number, n) => m = n
  <2>1. /\ \A n \in Live : Number[n] \in Nat
        /\ \A m, n \in Live : Number[m] = Number[n] => m = n
        /\ \A n \in Dead : Number[n] \in Nat
        /\ \A m, n \in Dead : Number[m] = Number[n] => m = n
    BY <1>1, Keys
  <2> QED
    BY <1>2, <2>1, PlaceNumbers, FS_CardinalityType
<1>5. /\ \A n \in LiveInputs : Place(LiveInputs, InputPosition, n) \in 0..(Cardinality(LiveInputs) - 1)
      /\ \A m, n \in LiveInputs :
           Place(LiveInputs, InputPosition, m) = Place(LiveInputs, InputPosition, n) => m = n
      /\ \A n \in DeadInputs : Place(DeadInputs, InputPosition, n) \in 0..(Cardinality(DeadInputs) - 1)
      /\ \A m, n \in DeadInputs :
           Place(DeadInputs, InputPosition, m) = Place(DeadInputs, InputPosition, n) => m = n
  <2>1. /\ \A n \in LiveInputs : InputPosition[n] \in Nat
        /\ \A m, n \in LiveInputs : InputPosition[m] = InputPosition[n] => m = n
        /\ \A n \in DeadInputs : InputPosition[n] \in Nat
        /\ \A m, n \in DeadInputs : InputPosition[m] = InputPosition[n] => m = n
    BY <1>1, Keys
  <2> QED
    BY <1>2, <2>1, PlaceNumbers
<1>6. a \in Nat /\ b \in Nat /\ c \in Nat /\ d \in Nat /\ a <= b /\ b <= c /\ c <= d
  BY <1>3, <1>4
<1>7. /\ \A n \in Neurons : \/ n \in Live \/ n \in Dead \/ n \in LiveInputs \/ n \in DeadInputs
      /\ Live \cap Dead = {} /\ Live \cap InputNeurons = {} /\ Dead \cap InputNeurons = {}
      /\ LiveInputs \cap DeadInputs = {}
  BY <1>1 DEF Dead, DeadInputs, Updated, LiveInputs
<1>8. /\ \A n \in Live : RowOf[n] = Place(Live, Number, n)
      /\ \A n \in Dead : RowOf[n] = a + Place(Dead, Number, n)
      /\ \A n \in LiveInputs : RowOf[n] = b + Place(LiveInputs, InputPosition, n)
      /\ \A n \in DeadInputs : RowOf[n] = c + Place(DeadInputs, InputPosition, n)
  BY <1>1, <1>7 DEF RowOf, Dead, DeadInputs
<1>9. /\ \A n \in Live : RowOf[n] \in 0..(a - 1)
      /\ \A n \in Dead : RowOf[n] \in a..(b - 1)
      /\ \A n \in LiveInputs : RowOf[n] \in b..(c - 1)
      /\ \A n \in DeadInputs : RowOf[n] \in c..(d - 1)
  <2>1. b = a + Cardinality(Dead) /\ c = b + Cardinality(LiveInputs) /\ d = c + Cardinality(DeadInputs)
    BY <1>3
  <2>2. ASSUME NEW i \in Nat, NEW j \in Nat, NEW k \in 0..(j - 1) PROVE i + k \in i..(i + j - 1)
    OBVIOUS
  <2> HIDE DEF a, b, c, d
  <2>3. \A n \in Live : RowOf[n] \in 0..(a - 1)
    BY <1>4, <1>8 DEF a
  <2>4. \A n \in Dead : RowOf[n] \in a..(b - 1)
    BY <1>4, <1>6, <1>8, <2>1, <2>2
  <2>5. \A n \in LiveInputs : RowOf[n] \in b..(c - 1)
    BY <1>4, <1>5, <1>6, <1>8, <2>1, <2>2
  <2>6. \A n \in DeadInputs : RowOf[n] \in c..(d - 1)
    BY <1>4, <1>5, <1>6, <1>8, <2>1, <2>2
  <2> QED
    BY <2>3, <2>4, <2>5, <2>6
<1>10. \A n \in Neurons : RowOf[n] \in Neurons
  <2>1. Neurons = 0..(d - 1)
    BY NodeAssumption
  <2> HIDE DEF a, b, c, d
  <2> QED
    BY <1>6, <1>7, <1>9, <2>1
<1>11. ASSUME NEW m \in Neurons, NEW n \in Neurons, RowOf[m] = RowOf[n] PROVE m = n
  <2> HIDE DEF a, b, c, d
  <2>1. CASE m \in Live
    <3>1. n \in Live
      BY <1>6, <1>7, <1>9, <1>11, <2>1
    <3> QED
      BY <1>4, <1>8, <1>11, <2>1, <3>1
  <2>2. CASE m \in Dead
    <3>1. n \in Dead
      BY <1>6, <1>7, <1>9, <1>11, <2>2
    <3> QED
      BY <1>4, <1>6, <1>8, <1>11, <2>2, <3>1
  <2>3. CASE m \in LiveInputs
    <3>1. n \in LiveInputs
      BY <1>6, <1>7, <1>9, <1>11, <2>3
    <3> QED
      BY <1>5, <1>6, <1>8, <1>11, <2>3, <3>1
  <2>4. CASE m \in DeadInputs
    <3>1. n \in DeadInputs
      BY <1>6, <1>7, <1>9, <1>11, <2>4
    <3> QED
      BY <1>5, <1>6, <1>8, <1>11, <2>4, <3>1
  <2> QED
    BY <1>7, <2>1, <2>2, <2>3, <2>4
<1>12. RowOf \in [Neurons -> Neurons]
  <2> DEFINE row(n) ==
        CASE n \in Live                -> Place(Live, Number, n)
          [] n \in Updated \ Live      -> Cardinality(Live) + Place(Updated \ Live, Number, n)
          [] n \in LiveInputs          -> Cardinality(Updated) + Place(LiveInputs, InputPosition, n)
          [] n \in InputNeurons \ Cone -> Cardinality(Updated \cup LiveInputs)
                                            + Place(InputNeurons \ Cone, InputPosition, n)
  <2>1. RowOf = [n \in Neurons |-> row(n)]
    BY DEF RowOf
  <2> HIDE DEF row
  <2> QED
    BY <1>10, <2>1
<1> QED
  BY <1>11, <1>12

\* A packed row read at two bits per trit is the row itself.
LEMMA PackedReads ==
  ASSUME NEW row, NEW p \in Trit, NEW q \in Trit, NEW r \in Trit
  PROVE  Packed(row)[p + 4 * q + 16 * r] = row[p + 3 * q + 9 * r]
<1>1. p \in 0..2 /\ q \in 0..2 /\ r \in 0..2
  BY DEF Trit
<1> DEFINE x == p + 4 * q + 16 * r
<1>2. /\ x = p + 4 * q + 16 * r /\ x \in 0..63
      /\ x % 4 = p /\ (x \div 4) % 4 = q /\ x \div 16 = r
  BY <1>1
<1>3. 3 \notin {p, q, r}
  BY <1>1
<1> HIDE DEF x
<1> QED
  BY <1>2, <1>3 DEF Packed

\* One more step back from the neurons reached, the inputs being leaves.
Grown(S) == S \cup {Neighbours[n][j] : n \in S \ InputNeurons, j \in 0..2}

Reaches(f, m) == f = [k \in 0..m |-> IF k = 0 THEN {Signal, Output} ELSE Grown(f[k - 1])]

LEMMA ReachesExist ==
  ASSUME NEW m \in Nat
  PROVE  \E f : Reaches(f, m)
<1> DEFINE A == {k \in Nat : \E f : Reaches(f, k)}
<1>1. 0 \in A
  <2>1. Reaches([k \in 0..0 |-> {Signal, Output}], 0)
    BY DEF Reaches
  <2> QED
    BY <2>1
<1>2. ASSUME NEW k \in Nat, k \in A PROVE k + 1 \in A
  <2>1. PICK f : Reaches(f, k)
    BY <1>2
  <2> DEFINE g == [j \in 0..(k + 1) |-> IF j = k + 1 THEN Grown(f[k]) ELSE f[j]]
  <2>2. ASSUME NEW j \in 0..(k + 1)
        PROVE  g[j] = IF j = 0 THEN {Signal, Output} ELSE Grown(g[j - 1])
    <3>1. CASE j = k + 1
      <4>1. g[k] = f[k] /\ j # 0 /\ j - 1 = k
        BY <3>1
      <4> QED
        BY <3>1, <4>1
    <3>2. CASE j # k + 1
      <4>1. j \in 0..k /\ g[j] = f[j]
        BY <3>2
      <4>2. f[j] = IF j = 0 THEN {Signal, Output} ELSE Grown(f[j - 1])
        BY <2>1, <4>1 DEF Reaches
      <4>3. j # 0 => g[j - 1] = f[j - 1]
        BY <4>1
      <4> QED
        BY <4>1, <4>2, <4>3
    <3> QED
      BY <3>1, <3>2
  <2>3. g = [j \in 0..(k + 1) |-> g[j]]
    OBVIOUS
  <2> HIDE DEF g
  <2>4. Reaches(g, k + 1)
    BY <2>2, <2>3 DEF Reaches
  <2> QED
    BY <2>4
<1> HIDE DEF A
<1>3. m \in A
  BY <1>1, <1>2, NatSetInduction
<1> QED
  BY <1>3 DEF A

LEMMA GrownKeeps ==
  ASSUME NEW S \in SUBSET Neurons
  PROVE  Grown(S) \in SUBSET Neurons /\ S \subseteq Grown(S)
<1>1. ASSUME NEW n \in S, NEW j \in 0..2 PROVE Neighbours[n][j] \in Neurons
  BY NetAssumption
<1> QED
  BY <1>1 DEF Grown

\* The cone is closed: as many steps as there are neurons reach every neuron that can
\* be reached, for each step that reaches one more takes it from those left.
LEMMA ConeClosed ==
  /\ Cone \subseteq Neurons /\ Signal \in Cone /\ Output \in Cone
  /\ \A n \in Live : \A j \in 0..2 : Neighbours[n][j] \in Cone
<1> DEFINE N == Cardinality(Neurons)
<1>1. IsFiniteSet(Neurons) /\ N \in Nat /\ Signal \in Neurons /\ Output \in Neurons
  BY NetAssumption, FS_CardinalityType DEF Updated
<1>2. PICK r : Reaches(r, N) /\ Cone = r[N]
  <2>1. Cone = (CHOOSE f : Reaches(f, N))[N]
    BY DEF Cone, Reaches, Grown
  <2> HIDE DEF N
  <2> QED
    BY <1>1, <2>1, ReachesExist
<1> HIDE DEF N
<1>3. r[0] = {Signal, Output} /\ \A k \in Nat : k + 1 <= N => r[k + 1] = Grown(r[k])
  <2>1. \A k \in 0..N : r[k] = IF k = 0 THEN {Signal, Output} ELSE Grown(r[k - 1])
    BY <1>2 DEF Reaches
  <2>2. \A k \in Nat : k + 1 <= N => k + 1 \in 0..N /\ k + 1 # 0 /\ (k + 1) - 1 = k
    BY <1>1
  <2> QED
    BY <1>1, <2>1, <2>2
<1> DEFINE A == {k \in Nat : k <= N =>
                   /\ r[k] \in SUBSET Neurons /\ {Signal, Output} \subseteq r[k]
                   /\ Grown(r[k]) = r[k] \/ Cardinality(r[k]) > k}
<1>4. 0 \in A
  <2>1. r[0] \in SUBSET Neurons /\ r[0] # {}
    BY <1>1, <1>3
  <2>2. IsFiniteSet(r[0])
    BY <1>1, <2>1, FS_Subset
  <2>3. Cardinality(r[0]) > 0
    BY <2>1, <2>2, FS_EmptySet, FS_CardinalityType
  <2> QED
    BY <1>3, <2>1, <2>3
<1>5. ASSUME NEW k \in Nat, k \in A PROVE k + 1 \in A
  <2>1. SUFFICES ASSUME k + 1 <= N
                 PROVE  /\ r[k + 1] \in SUBSET Neurons /\ {Signal, Output} \subseteq r[k + 1]
                        /\ Grown(r[k + 1]) = r[k + 1] \/ Cardinality(r[k + 1]) > k + 1
    OBVIOUS
  <2>2. /\ r[k] \in SUBSET Neurons /\ {Signal, Output} \subseteq r[k]
        /\ Grown(r[k]) = r[k] \/ Cardinality(r[k]) > k
    BY <1>1, <1>5, <2>1
  <2>3. r[k + 1] = Grown(r[k])
    BY <1>3, <2>1
  <2>4. r[k + 1] \in SUBSET Neurons /\ r[k] \subseteq r[k + 1]
    BY <2>2, <2>3, GrownKeeps
  <2>5. CASE Grown(r[k]) = r[k]
    BY <2>2, <2>3, <2>4, <2>5
  <2>6. CASE Grown(r[k]) # r[k]
    <3>1. IsFiniteSet(r[k + 1]) /\ Cardinality(r[k + 1]) \in Nat /\ Cardinality(r[k]) \in Nat
      BY <1>1, <2>2, <2>4, FS_Subset, FS_CardinalityType
    <3>2. Cardinality(r[k]) <= Cardinality(r[k + 1]) /\ Cardinality(r[k]) # Cardinality(r[k + 1])
      BY <2>3, <2>4, <2>6, <3>1, FS_Subset
    <3>3. Cardinality(r[k + 1]) > k + 1
      BY <2>2, <2>6, <3>1, <3>2
    <3> QED
      BY <2>2, <2>4, <3>3
  <2> QED
    BY <2>5, <2>6
<1> HIDE DEF A
<1>6. N \in A
  BY <1>1, <1>4, <1>5, NatSetInduction
<1>7. /\ Cone \in SUBSET Neurons /\ {Signal, Output} \subseteq Cone
      /\ Grown(Cone) = Cone \/ Cardinality(Cone) > N
  BY <1>1, <1>2, <1>6 DEF A
<1>8. Grown(Cone) = Cone
  <2>1. Cardinality(Cone) <= N /\ Cardinality(Cone) \in Nat
    BY <1>1, <1>7, FS_Subset, FS_CardinalityType DEF N
  <2> QED
    BY <1>1, <1>7, <2>1
<1>9. ASSUME NEW n \in Live, NEW j \in 0..2 PROVE Neighbours[n][j] \in Cone
  <2>1. n \in Cone \ InputNeurons
    BY DEF Live, Updated
  <2>2. Neighbours[n][j] \in Grown(Cone)
    BY <2>1 DEF Grown
  <2> QED
    BY <1>8, <2>2
<1> QED
  BY <1>7, <1>9

-----------------------------------------------------------------------------
(* The AVX-512 build: two windows per lane, the neurons of the cone only.    *)

\* The reference network of the window in lane l of half h.
NowAt(h, l) == Run(lut, Origin(h) + l)[tick]

RowsShow(h, l, v, S) == \A n \in S : cur[RowOf[n]][h][l] = v[n]

\* A lane whose output is captured; one about to be looked at; one that goes on, before
\* and after it is fed; one whose input rows show what it was fed.  Before a tick the
\* rows of the inputs hold what they showed two ticks ago.
CapturedIn(h, l) ==
  predicted[h][l] = Prediction(lut, Origin(h) + l) /\ predicted[h][l] # Timeout

WaitingIn(h, l) ==
  /\ RowsShow(h, l, NowAt(h, l).v, Live) /\ fed[h][l] = NowAt(h, l).fed
  /\ tick > 0 => ~ Settled(Run(lut, Origin(h) + l)[tick - 1])

RunningIn(h, l) ==
  /\ ~ Settled(NowAt(h, l))
  /\ RowsShow(h, l, NowAt(h, l).v, Live) /\ fed[h][l] = NowAt(h, l).fed

FedIn(h, l) ==
  /\ ~ Settled(NowAt(h, l))
  /\ RowsShow(h, l, NowAt(h, l).v, Live)
  /\ fed[h][l] = Ticked(lut, Origin(h) + l, NowAt(h, l)).fed
  /\ show[h][l] = IF NowAt(h, l).v[Signal] # UNKNOWN THEN Nothing ELSE l + NowAt(h, l).fed

ShownIn(h, l) ==
  /\ ~ Settled(NowAt(h, l))
  /\ RowsShow(h, l, Shown(Origin(h) + l, NowAt(h, l)), Cone)
  /\ fed[h][l] = Ticked(lut, Origin(h) + l, NowAt(h, l)).fed

LaneIn(h, l) ==
  /\ l \in done[h] => CapturedIn(h, l)
  /\ l \notin done[h] =>
       /\ pc = "sense" => WaitingIn(h, l)
       /\ pc = "feed lo" \/ (pc = "feed hi" /\ h = "hi") => RunningIn(h, l)
       /\ pc = "show" \/ (pc = "feed hi" /\ h = "lo") => FedIn(h, l)
       /\ pc = "tick" => ShownIn(h, l)

InTick == {"feed lo", "feed hi", "show", "tick"}
InBatch == {"sense", "grade"} \cup InTick

NodeTypeOK ==
  /\ pc \in {"batch", "done"} \cup InBatch
  /\ first \in Nat /\ tick \in 0..MaxTicks
  /\ pc \in InTick => tick < MaxTicks

BatchOK ==
  pc \in InBatch =>
    /\ first \in Windows
    /\ \A h \in Halves : Lanes \ Active(h) \subseteq done[h]
    /\ \A h \in Halves : \A l \in Active(h) : LaneIn(h, l)
    /\ pc \in InTick \/ (pc = "sense" /\ tick > 0) => \E h \in Halves : done[h] # Lanes
    /\ pc = "grade" => \A h \in Halves : done[h] = Lanes

NodeInv ==
  /\ NodeTypeOK /\ FeedInv /\ BatchOK
  /\ pc # "done" => Scored(first, failures)
  /\ pc = "done" => result = ScoreOf(lut)

\* Lanes with a window, and the reference of their windows.
LEMMA LanesOfBatch ==
  ASSUME NodeInv, lut \in Luts, pc \in InBatch, NEW h \in Halves
  PROVE  /\ first \in Windows /\ first \in Nat /\ NumLanes \in Nat /\ NumWindows \in Nat
         /\ MaxTicks \in Nat /\ Width \in Nat /\ lut \in LUT /\ tick \in 0..MaxTicks
         /\ tick < MaxTicks => tick \in 0..(MaxTicks - 1) /\ tick + 1 \in 0..MaxTicks
         /\ Active(h) \subseteq Lanes /\ Origin(h) \in Nat
         /\ done[h] \in SUBSET Lanes /\ complete[h] \in SUBSET Lanes
         /\ \A l \in Lanes : l \notin done[h] => l \in Active(h)
         /\ \A l \in Active(h) : /\ l \in Nat /\ l \in Lanes /\ Origin(h) + l \in Windows
                                 /\ LaneIn(h, l)
                                 /\ NowAt(h, l) \in NetStates /\ NowAt(h, l).v \in Values
                                 /\ NowAt(h, l).fed \in 0..Width
                                 /\ fed[h][l] \in 0..Width
                                 /\ l \in complete[h] <=> fed[h][l] = Width
<1>1. first \in Windows /\ first \in Nat /\ tick \in 0..MaxTicks /\ Active(h) \subseteq Lanes
  BY DEF NodeInv, NodeTypeOK, BatchOK, Active
<1>2. NumLanes \in Nat /\ NumWindows \in Nat /\ MaxTicks \in Nat /\ Width \in Nat /\ lut \in LUT
  BY FeedConstants, NetAssumption
<1>3. Origin(h) \in Nat
  BY <1>1, <1>2 DEF Origin, Halves
<1>4. tick < MaxTicks => tick \in 0..(MaxTicks - 1) /\ tick + 1 \in 0..MaxTicks
  BY <1>1, <1>2
<1>5. done[h] \in SUBSET Lanes /\ complete[h] \in SUBSET Lanes
  BY DEF NodeInv, FeedInv, FeedTypeOK
<1>6. \A l \in Lanes : l \notin done[h] => l \in Active(h)
  BY DEF NodeInv, BatchOK
<1>7. ASSUME NEW l \in Active(h)
      PROVE  /\ l \in Nat /\ l \in Lanes /\ Origin(h) + l \in Windows
             /\ LaneIn(h, l)
             /\ NowAt(h, l) \in NetStates /\ NowAt(h, l).v \in Values
             /\ NowAt(h, l).fed \in 0..Width
             /\ fed[h][l] \in 0..Width
             /\ l \in complete[h] <=> fed[h][l] = Width
  <2>1. l \in Nat /\ l \in Lanes /\ Origin(h) + l < NumWindows
    BY <1>1, <1>2 DEF Active, Lanes
  <2>2. Origin(h) + l \in Windows
    BY <1>2, <1>3, <2>1 DEF Windows
  <2>3. LaneIn(h, l)
    BY DEF NodeInv, BatchOK
  <2>4. NowAt(h, l) \in NetStates /\ NowAt(h, l).v \in Values /\ NowAt(h, l).fed \in 0..Width
    BY <1>1, <1>2, <2>2, RunShape DEF NowAt
  <2>5. fed[h][l] \in 0..Width /\ (l \in complete[h] <=> fed[h][l] = Width)
    BY <2>1 DEF NodeInv, FeedInv, FeedTypeOK, CompleteExact
  <2> QED
    BY <2>1, <2>2, <2>3, <2>4, <2>5
<1> QED
  BY <1>1, <1>2, <1>3, <1>4, <1>5, <1>6, <1>7

\* Signal and output are computed; live neurons and live inputs make up the cone.
LEMMA ConeParts ==
  /\ Signal \in Live /\ Output \in Live /\ Live \subseteq Neurons
  /\ Cone = Live \cup LiveInputs /\ LiveInputs \subseteq InputNeurons
  /\ \A n \in Cone : RowOf[n] \in Neurons
<1>1. Signal \in Updated /\ Output \in Updated /\ Updated \subseteq Neurons
  BY NetAssumption DEF Updated
<1>2. Cone \subseteq Neurons /\ Signal \in Cone /\ Output \in Cone
  BY ConeClosed
<1>3. \A n \in Cone : RowOf[n] \in Neurons
  BY <1>2, RowsOfPlanes
<1> QED
  BY <1>1, <1>2, <1>3 DEF Live, LiveInputs, Updated

\* A batch starts with every lane at the start of its window.
LEMMA NodeStarts ==
  ASSUME NodeInv, lut \in Luts, lut' = lut, StartWindows
  PROVE  NodeInv'
<1>1. /\ pc = "batch" /\ first < NumWindows /\ first' = first /\ cur' = Plane(UNKNOWN)
      /\ tick' = 0 /\ pc' = "sense" /\ failures' = failures
      /\ StartBatch([h \in Halves |-> Active(h)])
  BY DEF StartWindows
<1>2. PICK active \in [Halves -> SUBSET Lanes] : active = [h \in Halves |-> Active(h)]
  BY DEF Active
<1>3. FeedInv'
  BY <1>1, <1>2, StartBatchKeeps
<1>4. first \in Windows /\ MaxTicks \in Nat
  BY <1>1, NetAssumption DEF NodeInv, NodeTypeOK, Windows
<1>5. ASSUME NEW h \in Halves
      PROVE  /\ Origin(h)' = Origin(h) /\ Active(h)' = Active(h) /\ done'[h] = Lanes \ Active(h)
             /\ \A l \in Lanes : fed'[h][l] = 0
  BY <1>1 DEF Origin, Active, StartBatch
<1>6. ASSUME NEW h \in Halves, NEW l \in Active(h) PROVE LaneIn(h, l)'
  <2>1. l \in Lanes /\ l \notin done'[h] /\ fed'[h][l] = 0
    BY <1>5, <1>6 DEF Active
  <2>2. NowAt(h, l)' = Start
    BY <1>1, <1>5, RunStarts DEF NowAt
  <2>3. ASSUME NEW n \in Live PROVE cur'[RowOf[n]][h][l] = AllUnknown[n]
    BY <1>1, <2>1, ConeParts DEF Plane, AllLanes, AllUnknown
  <2>4. WaitingIn(h, l)'
    BY <1>1, <2>1, <2>2, <2>3 DEF WaitingIn, RowsShow, Start
  <2> QED
    BY <1>1, <2>1, <2>4 DEF LaneIn
<1>7. NodeTypeOK'
  BY <1>1, <1>4 DEF NodeInv, NodeTypeOK, InBatch, InTick
<1>8. BatchOK'
  BY <1>1, <1>4, <1>5, <1>6 DEF BatchOK, InTick
<1> QED
  BY <1>1, <1>3, <1>7, <1>8 DEF NodeInv, Scored

\* The lanes that are through are captured: their outputs are the reference's predictions.
LEMMA NodeCaptures ==
  ASSUME NodeInv, lut \in Luts, lut' = lut, Capture
  PROVE  NodeInv'
<1>1. PICK finishing \in [Halves -> SUBSET Lanes] :
        /\ pc = "sense" /\ tick < MaxTicks
        /\ finishing = [h \in Halves |-> Finishing(h, Unknown(h))]
        /\ Finish(finishing)
        /\ predicted' = [h \in Halves |-> [l \in Lanes |->
             IF l \in finishing[h] THEN cur[RowOf[Output]][h][l] ELSE predicted[h][l]]]
        /\ pc' = IF \A h \in Halves : done'[h] = Lanes THEN "grade" ELSE "feed lo"
        /\ UNCHANGED <<first, tick, cur, failures, result>>
  <2>1. [h \in Halves |-> Finishing(h, Unknown(h))] \in [Halves -> SUBSET Lanes]
    BY DEF Finishing, Unknown
  <2> QED
    BY <2>1 DEF Capture
<1>2. pc \in InBatch /\ pc' \in InBatch /\ (pc' = "grade" \/ pc' = "feed lo")
  BY <1>1 DEF InBatch, InTick
<1>3. FeedInv'
  BY <1>1, FinishKeeps DEF NodeInv
<1>4. ASSUME NEW h \in Halves
      PROVE  /\ Origin(h)' = Origin(h) /\ Active(h)' = Active(h)
             /\ done'[h] = done[h] \cup finishing[h] /\ fed'[h] = fed[h]
             /\ finishing[h] = (Unknown(h) \ done[h]) \cap complete[h]
             /\ \A l \in Lanes : predicted'[h][l] =
                  IF l \in finishing[h] THEN cur[RowOf[Output]][h][l] ELSE predicted[h][l]
             /\ \A l \in Lanes : NowAt(h, l)' = NowAt(h, l)
  BY <1>1 DEF Origin, Active, Finish, Finishing, NowAt
<1>5. ASSUME NEW h \in Halves, NEW l \in Active(h), l \notin done[h]
      PROVE  WaitingIn(h, l) /\ (l \in finishing[h] <=> Settled(NowAt(h, l)))
  <2>1. WaitingIn(h, l) /\ l \in Lanes /\ (l \in complete[h] <=> fed[h][l] = Width)
    BY <1>1, <1>2, <1>5, LanesOfBatch DEF LaneIn
  <2>2. cur[RowOf[Signal]][h][l] = NowAt(h, l).v[Signal] /\ fed[h][l] = NowAt(h, l).fed
    BY <2>1, ConeParts DEF WaitingIn, RowsShow
  <2> QED
    BY <1>4, <1>5, <2>1, <2>2 DEF Unknown, Settled
<1>6. ASSUME NEW h \in Halves, NEW l \in Active(h) PROVE LaneIn(h, l)'
  <2>1. /\ l \in Lanes /\ LaneIn(h, l) /\ Origin(h) + l \in Windows /\ lut \in LUT
        /\ tick \in 0..(MaxTicks - 1)
    BY <1>1, <1>2, LanesOfBatch
  <2>2. CASE l \in done[h]
    <3>1. l \in done'[h] /\ predicted'[h][l] = predicted[h][l] /\ CapturedIn(h, l)
      BY <1>4, <2>1, <2>2 DEF LaneIn
    <3> QED
      BY <1>4, <3>1 DEF LaneIn, CapturedIn
  <2>3. CASE l \notin done[h] /\ l \in finishing[h]
    <3>1. Settled(NowAt(h, l)) /\ WaitingIn(h, l)
      BY <1>5, <2>3
    <3>2. Prediction(lut, Origin(h) + l) = NowAt(h, l).v[Output] /\ Prediction(lut, Origin(h) + l) \in Trit
      BY <2>1, <3>1, PredictionIs DEF NowAt
    <3>3. predicted'[h][l] = Prediction(lut, Origin(h) + l)
      BY <1>4, <2>1, <2>3, <3>1, <3>2, ConeParts DEF WaitingIn, RowsShow
    <3>4. predicted'[h][l] # Timeout
      BY <3>2, <3>3 DEF Trit, Timeout
    <3>5. CapturedIn(h, l)' /\ l \in done'[h]
      BY <1>4, <2>3, <3>3, <3>4 DEF CapturedIn
    <3> QED
      BY <3>5 DEF LaneIn
  <2>4. CASE l \notin done[h] /\ l \notin finishing[h]
    <3>1. ~ Settled(NowAt(h, l)) /\ WaitingIn(h, l) /\ l \notin done'[h]
      BY <1>4, <1>5, <2>4
    <3>2. RunningIn(h, l)'
      BY <1>1, <1>4, <2>1, <3>1 DEF RunningIn, WaitingIn, RowsShow
    <3> QED
      BY <1>2, <3>1, <3>2 DEF LaneIn
  <2> QED
    BY <2>2, <2>3, <2>4
<1>7. BatchOK'
  <2>1. first' \in Windows /\ \A h \in Halves : Lanes \ Active(h)' \subseteq done'[h]
    BY <1>1, <1>2, <1>4 DEF NodeInv, BatchOK
  <2>2. pc' # "grade" => \E h \in Halves : done'[h] # Lanes
    BY <1>1
  <2>3. pc' = "grade" => \A h \in Halves : done'[h] = Lanes
    BY <1>1
  <2>4. pc' # "sense"
    BY <1>2
  <2>5. \A h \in Halves : \A l \in Active(h)' : LaneIn(h, l)'
    BY <1>4, <1>6
  <2> QED
    BY <2>1, <2>2, <2>3, <2>4, <2>5 DEF BatchOK, InTick
<1>8. NodeTypeOK'
  BY <1>1, <1>2 DEF NodeInv, NodeTypeOK, InBatch, InTick
<1> QED
  BY <1>1, <1>2, <1>3, <1>7, <1>8 DEF NodeInv, Scored, InBatch, InTick

\* What feeding a half does to its lanes, whichever of the four ways it takes.
LEMMA FeedHalfDoes ==
  ASSUME FeedInv, NEW h \in Halves, NEW lanes \in SUBSET Lanes, lanes \cap complete[h] = {},
         FeedHalf(h, lanes)
  PROVE  /\ FeedInv' /\ done' = done
         /\ \A g \in Halves : g # h => fed'[g] = fed[g] /\ show'[g] = show[g]
         /\ \A l \in lanes : fed'[h][l] = fed[h][l] + 1 /\ show'[h][l] = l + fed[h][l]
         /\ \A l \in Lanes \ lanes : fed'[h][l] = fed[h][l] /\ show'[h][l] = Nothing
<1>1. FeedInv'
  BY FeedNoneKeeps, FeedInBytesKeeps, FeedRebasedKeeps, FeedByCounterKeeps DEF FeedHalf
<1>2. CASE lanes = {} /\ FeedNone(h)
  BY <1>1, <1>2 DEF FeedNone, NotShown, FeedInv, FeedTypeOK
<1>3. CASE ~ (lanes = {} /\ FeedNone(h))
  <2>1. \A l \in Lanes : base[h] \in Nat /\ rel[h][l] \in 0..Saturated /\ Position(h, l) \in Nat
    BY PositionType DEF FeedInv, FeedTypeOK
  <2>2. PICK positions : Read(h, lanes, positions) /\ done' = done /\ \A l \in lanes : positions[l] \in Nat
    <3>1. CASE FeedInBytes(h, lanes)
      <4>1. Read(h, lanes, [l \in Lanes |-> base[h] + rel[h][l]]) /\ done' = done
        BY <3>1 DEF FeedInBytes, Gather
      <4>2. \A l \in lanes : [k \in Lanes |-> base[h] + rel[h][k]][l] \in Nat
        BY <2>1, FeedConstants
      <4> QED
        BY <4>1, <4>2
    <3>2. CASE FeedRebased(h, lanes)
      <4>1. PICK b \in {Position(h, l) : l \in lanes} : Gather(h, lanes, b, FromBase(h, b))
        BY <3>2 DEF FeedRebased
      <4>2. b \in Nat /\ \A l \in Lanes : FromBase(h, b)[l] \in 0..Saturated
        BY <2>1, NarrowKeeps DEF FromBase
      <4>3. Read(h, lanes, [l \in Lanes |-> b + FromBase(h, b)[l]]) /\ done' = done
        BY <3>2, <4>1 DEF FeedRebased, Gather
      <4>4. \A l \in lanes : [k \in Lanes |-> b + FromBase(h, b)[k]][l] \in Nat
        BY <4>2, FeedConstants
      <4> QED
        BY <4>3, <4>4
    <3>3. CASE FeedByCounter(h, lanes)
      <4>1. Read(h, lanes, Positions(h)) /\ done' = done
        BY <3>3 DEF FeedByCounter
      <4>2. \A l \in lanes : Positions(h)[l] \in Nat
        BY <2>1 DEF Positions
      <4> QED
        BY <4>1, <4>2
    <3> QED
      BY <1>3, <3>1, <3>2, <3>3 DEF FeedHalf
  <2>3. /\ \A l \in lanes : fed'[h][l] = fed[h][l] + 1 /\ show'[h][l] = positions[l]
        /\ \A l \in Lanes \ lanes : fed'[h][l] = fed[h][l] /\ show'[h][l] = Nothing
        /\ \A g \in Halves : g # h => fed'[g] = fed[g] /\ show'[g] = show[g]
    BY <2>2 DEF Read, FeedInv, FeedTypeOK
  <2>4. ASSUME NEW l \in lanes PROVE show'[h][l] = l + fed[h][l]
    <3>0. \A k \in Nat : k # Nothing
      BY DEF Nothing
    <3>1. l \in Nat /\ l \in Lanes /\ fed[h][l] \in Nat /\ show'[h][l] # Nothing
      <4>1. l \in Lanes /\ fed[h][l] \in 0..Width
        BY DEF FeedInv, FeedTypeOK
      <4>2. show'[h][l] # Nothing
        BY <2>2, <2>3, <3>0
      <4> QED
        BY <4>1, <4>2, FeedConstants DEF Lanes
    <3>2. show'[h][l] = l + fed'[h][l] - 1
      BY <1>1, <3>1 DEF FeedInv, ShowsNextSample
    <3> QED
      BY <2>3, <3>1, <3>2
  <2> QED
    BY <1>1, <2>2, <2>3, <2>4
<1> QED
  BY <1>2, <1>3

\* The lanes of a half that go on are fed what their windows are due.
LEMMA FeedsWindows ==
  ASSUME NodeInv, lut \in Luts, lut' = lut, pc \in InTick, NEW h \in Halves,
         FeedHalf(h, Feeding(h, Unknown(h))),
         first' = first, tick' = tick, cur' = cur,
         \A l \in Active(h) \ done[h] : RunningIn(h, l)
  PROVE  /\ FeedInv' /\ done' = done
         /\ \A g \in Halves : g # h => fed'[g] = fed[g] /\ show'[g] = show[g]
         /\ \A l \in Active(h) \ done[h] : FedIn(h, l)'
<1>1. PICK lanes \in SUBSET Lanes : lanes = Feeding(h, Unknown(h))
  BY DEF Feeding, Unknown
<1>2. lanes \cap complete[h] = {} /\ FeedHalf(h, lanes) /\ pc \in InBatch
  BY <1>1 DEF Feeding, InBatch
<1>3. /\ FeedInv' /\ done' = done
      /\ \A g \in Halves : g # h => fed'[g] = fed[g] /\ show'[g] = show[g]
      /\ \A l \in lanes : fed'[h][l] = fed[h][l] + 1 /\ show'[h][l] = l + fed[h][l]
      /\ \A l \in Lanes \ lanes : fed'[h][l] = fed[h][l] /\ show'[h][l] = Nothing
  BY <1>2, FeedHalfDoes DEF NodeInv
<1>4. ASSUME NEW l \in Active(h) \ done[h] PROVE FedIn(h, l)'
  <2>1. /\ l \in Lanes /\ RunningIn(h, l) /\ (l \in complete[h] <=> fed[h][l] = Width)
        /\ NowAt(h, l)' = NowAt(h, l) /\ Origin(h)' = Origin(h)
    BY <1>2, LanesOfBatch DEF NowAt, Origin
  <2>2. cur[RowOf[Signal]][h][l] = NowAt(h, l).v[Signal] /\ fed[h][l] = NowAt(h, l).fed
    BY <2>1, ConeParts DEF RunningIn, RowsShow
  <2>3. l \in lanes <=> NowAt(h, l).v[Signal] = UNKNOWN
    BY <1>1, <2>1, <2>2 DEF Feeding, Unknown, RunningIn, Settled
  <2>4. /\ fed'[h][l] = Ticked(lut, Origin(h) + l, NowAt(h, l)).fed
        /\ show'[h][l] = IF NowAt(h, l).v[Signal] # UNKNOWN THEN Nothing ELSE l + NowAt(h, l).fed
    BY <1>3, <2>1, <2>2, <2>3 DEF Ticked
  <2> QED
    BY <2>1, <2>4 DEF FedIn, RunningIn, RowsShow
<1> QED
  BY <1>3, <1>4

LEMMA NodeFeedsLo ==
  ASSUME NodeInv, lut \in Luts, lut' = lut, FeedLo
  PROVE  NodeInv'
<1>1. /\ pc = "feed lo" /\ pc' = "feed hi" /\ FeedHalf("lo", Feeding("lo", Unknown("lo")))
      /\ UNCHANGED <<first, tick, cur, predicted, failures, result>>
  BY DEF FeedLo
<1>2. pc \in InTick /\ pc' \in InTick /\ pc \in InBatch /\ pc' \in InBatch
  BY <1>1 DEF InBatch, InTick
<1>3. Halves = {"lo", "hi"}
  BY DEF Halves
<1>4. ASSUME NEW h \in Halves, NEW l \in Active(h) \ done[h] PROVE RunningIn(h, l)
  BY <1>1, <1>2, LanesOfBatch DEF LaneIn
<1>5. /\ FeedInv' /\ done' = done /\ fed'["hi"] = fed["hi"]
      /\ \A l \in Active("lo") \ done["lo"] : FedIn("lo", l)'
  BY <1>1, <1>2, <1>3, <1>4, FeedsWindows
<1>6. ASSUME NEW h \in Halves, NEW l \in Active(h) PROVE LaneIn(h, l)'
  <2>1. LaneIn(h, l) /\ Origin(h)' = Origin(h) /\ NowAt(h, l)' = NowAt(h, l)
    BY <1>1, <1>2, LanesOfBatch DEF Origin, NowAt
  <2>2. CASE l \in done[h]
    BY <1>1, <1>5, <2>1, <2>2 DEF LaneIn, CapturedIn
  <2>3. CASE l \notin done[h] /\ h = "lo"
    BY <1>1, <1>5, <2>3 DEF LaneIn
  <2>4. CASE l \notin done[h] /\ h = "hi"
    <3>1. RunningIn(h, l) /\ fed'[h] = fed[h] /\ cur' = cur
      BY <1>1, <1>4, <1>5, <2>4
    <3>2. RunningIn(h, l)'
      BY <2>1, <3>1 DEF RunningIn, RowsShow
    <3> QED
      BY <1>1, <1>5, <2>4, <3>2 DEF LaneIn
  <2> QED
    BY <1>3, <2>2, <2>3, <2>4
<1>7. BatchOK'
  <2>1. \A h \in Halves : Active(h)' = Active(h)
    BY <1>1 DEF Active, Origin
  <2> QED
    BY <1>1, <1>2, <1>5, <1>6, <2>1 DEF NodeInv, BatchOK
<1>8. NodeTypeOK'
  BY <1>1, <1>2 DEF NodeInv, NodeTypeOK
<1> QED
  BY <1>1, <1>5, <1>7, <1>8 DEF NodeInv, Scored

LEMMA NodeFeedsHi ==
  ASSUME NodeInv, lut \in Luts, lut' = lut, FeedHi
  PROVE  NodeInv'
<1>1. /\ pc = "feed hi" /\ pc' = "show" /\ FeedHalf("hi", Feeding("hi", Unknown("hi")))
      /\ UNCHANGED <<first, tick, cur, predicted, failures, result>>
  BY DEF FeedHi
<1>2. pc \in InTick /\ pc' \in InTick /\ pc \in InBatch /\ pc' \in InBatch
  BY <1>1 DEF InBatch, InTick
<1>3. Halves = {"lo", "hi"}
  BY DEF Halves
<1>4. ASSUME NEW l \in Active("hi") \ done["hi"] PROVE RunningIn("hi", l)
  BY <1>1, <1>2, <1>3, LanesOfBatch DEF LaneIn
<1>5. /\ FeedInv' /\ done' = done /\ fed'["lo"] = fed["lo"] /\ show'["lo"] = show["lo"]
      /\ \A l \in Active("hi") \ done["hi"] : FedIn("hi", l)'
  BY <1>1, <1>2, <1>3, <1>4, FeedsWindows
<1>6. ASSUME NEW h \in Halves, NEW l \in Active(h) PROVE LaneIn(h, l)'
  <2>1. LaneIn(h, l) /\ Origin(h)' = Origin(h) /\ NowAt(h, l)' = NowAt(h, l)
    BY <1>1, <1>2, LanesOfBatch DEF Origin, NowAt
  <2>2. CASE l \in done[h]
    BY <1>1, <1>5, <2>1, <2>2 DEF LaneIn, CapturedIn
  <2>3. CASE l \notin done[h] /\ h = "hi"
    BY <1>1, <1>5, <2>3 DEF LaneIn
  <2>4. CASE l \notin done[h] /\ h = "lo"
    <3>1. FedIn(h, l)
      BY <1>1, <2>1, <2>4 DEF LaneIn
    <3>2. FedIn(h, l)'
      BY <1>1, <1>5, <2>1, <2>4, <3>1 DEF FedIn, RowsShow
    <3> QED
      BY <1>1, <1>5, <2>4, <3>2 DEF LaneIn
  <2> QED
    BY <1>3, <2>2, <2>3, <2>4
<1>7. BatchOK'
  <2>1. \A h \in Halves : Active(h)' = Active(h)
    BY <1>1 DEF Active, Origin
  <2> QED
    BY <1>1, <1>2, <1>5, <1>6, <2>1 DEF NodeInv, BatchOK
<1>8. NodeTypeOK'
  BY <1>1, <1>2 DEF NodeInv, NodeTypeOK
<1> QED
  BY <1>1, <1>5, <1>7, <1>8 DEF NodeInv, Scored

\* The rows of the live inputs show what the inputs of each lane's window show.
LEMMA NodeShows ==
  ASSUME NodeInv, lut \in Luts, lut' = lut, ShowSamples
  PROVE  NodeInv'
<1> DEFINE rowOfInput == {RowOf[n] : n \in LiveInputs}
           input(row) == CHOOSE n \in LiveInputs : RowOf[n] = row
           shown(row) == [h \in Halves |-> [l \in Lanes |->
                            IF show[h][l] = Nothing THEN UNKNOWN
                            ELSE Inputs[Origin(h) + show[h][l]][input(row)]]]
<1>1. /\ pc = "show" /\ pc' = "tick"
      /\ cur' = [row \in Neurons |-> IF row \notin rowOfInput THEN cur[row] ELSE shown(row)]
      /\ UNCHANGED <<first, tick, predicted, failures, result, feedVars>>
  BY DEF ShowSamples
<1>2. pc \in InTick /\ pc' \in InTick /\ pc \in InBatch /\ pc' \in InBatch
  BY <1>1 DEF InBatch, InTick
<1>3. ASSUME NEW n \in LiveInputs PROVE RowOf[n] \in rowOfInput /\ input(RowOf[n]) = n
  <2>1. LiveInputs \subseteq Neurons
    BY NetAssumption DEF LiveInputs
  <2>2. \A m \in LiveInputs : RowOf[m] = RowOf[n] => m = n
    BY <2>1, RowsOfPlanes
  <2> QED
    BY <2>2
<1>4. ASSUME NEW n \in Live PROVE RowOf[n] \notin rowOfInput
  <2>1. LiveInputs \subseteq Neurons /\ n \in Neurons /\ n \notin LiveInputs
    BY NetAssumption DEF LiveInputs, Live, Updated
  <2> QED
    BY <2>1, RowsOfPlanes
<1> HIDE DEF rowOfInput, input
<1>5. UNCHANGED <<fed, done, complete, show>> /\ FeedInv'
  <2>1. UNCHANGED feedVars
    BY <1>1
  <2>2. UNCHANGED <<base, rel, counter, complete, done, show, fed>>
    BY <2>1 DEF feedVars
  <2> QED
    BY <2>2 DEF NodeInv, FeedInv, FeedTypeOK, PositionsExact, CompleteExact, ShowsNextSample, Position
<1>6. ASSUME NEW h \in Halves, NEW l \in Active(h) PROVE LaneIn(h, l)'
  <2>1. LaneIn(h, l) /\ Origin(h)' = Origin(h) /\ NowAt(h, l)' = NowAt(h, l) /\ l \in Lanes
    BY <1>1, <1>2, LanesOfBatch DEF Origin, NowAt
  <2>2. CASE l \in done[h]
    BY <1>1, <1>5, <2>1, <2>2 DEF LaneIn, CapturedIn
  <2>3. CASE l \notin done[h]
    <3>1. FedIn(h, l)
      BY <1>1, <2>1, <2>3 DEF LaneIn
    <3>2. ASSUME NEW n \in Live
          PROVE  cur'[RowOf[n]][h][l] = Shown(Origin(h) + l, NowAt(h, l))[n]
      <4>1. RowOf[n] \in Neurons /\ n \in Neurons /\ n \notin InputNeurons
        BY ConeParts DEF Live, Updated
      <4>2. Shown(Origin(h) + l, NowAt(h, l))[n] = NowAt(h, l).v[n]
        BY <4>1 DEF Shown, Masked, Fed
      <4> QED
        BY <1>1, <1>4, <3>1, <4>1, <4>2 DEF FedIn, RowsShow
    <3>3. ASSUME NEW n \in LiveInputs
          PROVE  cur'[RowOf[n]][h][l] = Shown(Origin(h) + l, NowAt(h, l))[n]
      <4>1. RowOf[n] \in Neurons /\ n \in Neurons /\ n \in InputNeurons
        BY ConeParts, ConeClosed
      <4>2. cur'[RowOf[n]][h][l] = IF show[h][l] = Nothing THEN UNKNOWN
                                    ELSE Inputs[Origin(h) + show[h][l]][n]
        BY <1>1, <1>3, <2>1, <4>1
      <4>3. CASE NowAt(h, l).v[Signal] # UNKNOWN
        BY <3>1, <4>1, <4>2, <4>3 DEF FedIn, Shown, Masked
      <4>4. CASE NowAt(h, l).v[Signal] = UNKNOWN
        <5>1. /\ l \in Nat /\ NowAt(h, l).fed \in 0..Width /\ Width \in Nat /\ Origin(h) \in Nat
              /\ show[h][l] = l + NowAt(h, l).fed
          BY <1>2, <3>1, <4>4, LanesOfBatch DEF FedIn
        <5>2. show[h][l] # Nothing /\ Origin(h) + show[h][l] = (Origin(h) + l) + NowAt(h, l).fed
          BY <5>1 DEF Nothing
        <5> QED
          BY <4>1, <4>2, <4>4, <5>2 DEF Shown, Fed
      <4> QED
        BY <4>3, <4>4
    <3>4. RowsShow(h, l, Shown(Origin(h) + l, NowAt(h, l)), Cone)'
      BY <2>1, <3>2, <3>3, ConeParts DEF RowsShow, Shown, Masked, Fed
    <3>5. ShownIn(h, l)'
      BY <1>5, <2>1, <3>1, <3>4 DEF ShownIn, FedIn
    <3> QED
      BY <1>1, <1>5, <2>3, <3>5 DEF LaneIn
  <2> QED
    BY <2>2, <2>3
<1>7. BatchOK'
  <2>1. \A h \in Halves : Active(h)' = Active(h)
    BY <1>1 DEF Active, Origin
  <2> QED
    BY <1>1, <1>2, <1>5, <1>6, <2>1 DEF NodeInv, BatchOK
<1>8. NodeTypeOK'
  BY <1>1, <1>2 DEF NodeInv, NodeTypeOK
<1> QED
  BY <1>1, <1>5, <1>7, <1>8 DEF NodeInv, Scored

\* A tick computes the next value of every live neuron of every lane from the rows of
\* the cone; the packed rows of the dense table are the rows of the table.
LEMMA NodeTicks ==
  ASSUME NodeInv, lut \in Luts, lut' = lut, Table = lut, TickLanes
  PROVE  NodeInv'
<1> DEFINE live == [row \in {RowOf[n] : n \in Live} |-> CHOOSE n \in Live : RowOf[n] = row]
<1>1. /\ pc = "tick" /\ pc' = "sense" /\ tick' = tick + 1
      /\ cur' = [row \in Neurons |-> IF row \in DOMAIN live THEN NextRow(live[row]) ELSE nxt[row]]
      /\ UNCHANGED <<first, predicted, failures, result, feedVars>>
  BY DEF TickLanes
<1>2. pc \in InTick /\ pc \in InBatch /\ pc' \in InBatch /\ tick < MaxTicks
  BY <1>1 DEF InBatch, InTick, NodeInv, NodeTypeOK
<1>3. ASSUME NEW n \in Live
      PROVE  /\ RowOf[n] \in Neurons /\ RowOf[n] \in DOMAIN live /\ live[RowOf[n]] = n
  <2>1. Live \subseteq Neurons /\ RowOf[n] \in Neurons
    BY ConeParts
  <2>2. \A m \in Live : RowOf[m] = RowOf[n] => m = n
    BY <2>1, RowsOfPlanes
  <2> QED
    BY <2>1, <2>2
<1> HIDE DEF live
<1>4. UNCHANGED <<fed, done, complete, show>> /\ FeedInv'
  <2>1. UNCHANGED feedVars
    BY <1>1
  <2>2. UNCHANGED <<base, rel, counter, complete, done, show, fed>>
    BY <2>1 DEF feedVars
  <2> QED
    BY <2>2 DEF NodeInv, FeedInv, FeedTypeOK, PositionsExact, CompleteExact, ShowsNextSample, Position
<1>5. ASSUME NEW h \in Halves, NEW l \in Active(h) PROVE LaneIn(h, l)'
  <2>1. /\ LaneIn(h, l) /\ Origin(h)' = Origin(h) /\ l \in Lanes /\ Origin(h) + l \in Windows
        /\ lut \in LUT /\ NowAt(h, l) \in NetStates
        /\ tick \in 0..(MaxTicks - 1) /\ (tick + 1) - 1 = tick
    BY <1>1, <1>2, LanesOfBatch DEF Origin
  <2>2. CASE l \in done[h]
    BY <1>1, <1>4, <2>1, <2>2 DEF LaneIn, CapturedIn
  <2>3. CASE l \notin done[h]
    <3> DEFINE seen == Shown(Origin(h) + l, NowAt(h, l))
    <3>1. ShownIn(h, l)
      BY <1>1, <2>1, <2>3 DEF LaneIn
    <3>2. NowAt(h, l)' = Ticked(lut, Origin(h) + l, NowAt(h, l))
      BY <1>1, <2>1, <3>1, RunGoesOn DEF ShownIn, NowAt
    <3>3. seen \in Values
      BY <2>1, <3>1, TickedType DEF ShownIn
    <3>4. ASSUME NEW n \in Live PROVE cur'[RowOf[n]][h][l] = Ticked(lut, Origin(h) + l, NowAt(h, l)).v[n]
      <4> DEFINE trit(j) == cur[RowOf[Neighbours[n][j]]][h][l]
      <4>1. n \in Updated /\ n \in Neurons /\ n \notin InputNeurons
        BY DEF Live, Updated
      <4>2. cur'[RowOf[n]] = NextRow(n)
        BY <1>1, <1>3
      <4>3. cur'[RowOf[n]][h][l] = Packed(dense[TableRow[n]])[trit(0) + 4 * trit(1) + 16 * trit(2)]
        <5> DEFINE at(g, k) == Packed(dense[TableRow[n]])[
                     cur[RowOf[Neighbours[n][0]]][g][k] + 4 * cur[RowOf[Neighbours[n][1]]][g][k]
                       + 16 * cur[RowOf[Neighbours[n][2]]][g][k]]
        <5>1. NextRow(n) = [g \in Halves |-> [k \in Lanes |-> at(g, k)]]
          BY Zenon DEF NextRow
        <5>2. l \in Lanes
          BY <2>1
        <5> HIDE DEF at
        <5>3. NextRow(n)[h][l] = at(h, l)
          BY <5>1, <5>2
        <5> QED
          BY <4>2, <5>3 DEF at
      <4>4. ASSUME NEW j \in 0..2 PROVE trit(j) = seen[Neighbours[n][j]] /\ trit(j) \in Trit
        <5>1. Neighbours[n][j] \in Cone /\ Neighbours[n][j] \in Neurons
          BY ConeClosed
        <5> QED
          BY <3>1, <3>3, <5>1 DEF ShownIn, RowsShow, Values
      <4>5. dense[TableRow[n]] = lut[n]
        BY <4>1 DEF Table
      <4>6. 0 \in 0..2 /\ 1 \in 0..2 /\ 2 \in 0..2
        OBVIOUS
      <4> HIDE DEF trit, seen
      <4>7. cur'[RowOf[n]][h][l] = LookUp(lut, seen, n)
        BY <4>3, <4>4, <4>5, <4>6, PackedReads DEF LookUp
      <4>8. Ticked(lut, Origin(h) + l, NowAt(h, l)).v[n] = LookUp(lut, seen, n)
        BY <4>1 DEF Ticked, Synchronous, seen
      <4> QED
        BY <4>7, <4>8
    <3>5. fed'[h][l] = Ticked(lut, Origin(h) + l, NowAt(h, l)).fed
      BY <1>4, <3>1 DEF ShownIn
    <3>6. ~ Settled(Run(lut, Origin(h) + l)[tick])
      BY <3>1 DEF ShownIn, NowAt
    <3>7. WaitingIn(h, l)'
      BY <1>1, <2>1, <3>2, <3>4, <3>5, <3>6 DEF WaitingIn, RowsShow
    <3> QED
      BY <1>1, <1>4, <2>3, <3>7 DEF LaneIn
  <2> QED
    BY <2>2, <2>3
<1>6. BatchOK'
  <2>1. \A h \in Halves : Active(h)' = Active(h)
    BY <1>1 DEF Active, Origin
  <2> QED
    BY <1>1, <1>2, <1>4, <1>5, <2>1 DEF NodeInv, BatchOK
<1>7. NodeTypeOK'
  <2>1. MaxTicks \in Nat /\ tick \in 0..MaxTicks
    BY NetAssumption DEF NodeInv, NodeTypeOK
  <2>2. tick' \in 0..MaxTicks
    BY <1>1, <1>2, <2>1
  <2> QED
    BY <1>1, <1>2, <2>2 DEF NodeInv, NodeTypeOK, InBatch, InTick
<1> QED
  BY <1>1, <1>4, <1>6, <1>7 DEF NodeInv, Scored

\* Out of ticks: some lane is still running, and its window times out.
LEMMA NodeRunsOut ==
  ASSUME NodeInv, lut \in Luts, lut' = lut, OutOfTicks
  PROVE  NodeInv'
<1>1. /\ pc = "sense" /\ tick = MaxTicks /\ result' = INF /\ pc' = "done"
      /\ UNCHANGED <<first, tick, cur, predicted, failures, feedVars>>
  BY DEF OutOfTicks
<1>2. pc \in InBatch /\ MaxTicks > 0 /\ pc' \notin InBatch
  BY <1>1, NetAssumption DEF InBatch, InTick
<1>3. PICK h \in Halves : done[h] # Lanes
  BY <1>1, <1>2 DEF NodeInv, BatchOK
<1>4. PICK l \in Lanes : l \notin done[h]
  BY <1>2, <1>3, LanesOfBatch
<1>5. l \in Active(h) /\ LaneIn(h, l) /\ Origin(h) + l \in Windows /\ lut \in LUT
  BY <1>2, <1>4, LanesOfBatch
<1>6. ~ Settled(Run(lut, Origin(h) + l)[MaxTicks - 1])
  BY <1>1, <1>2, <1>4, <1>5 DEF LaneIn, WaitingIn
<1>7. ScoreOf(lut) = INF
  BY <1>5, <1>6, PredictionIs, ScoreIs
<1>8. FeedInv'
  <2>1. UNCHANGED feedVars
    BY <1>1
  <2>2. UNCHANGED <<base, rel, counter, complete, done, show, fed>>
    BY <2>1 DEF feedVars
  <2> QED
    BY <2>2 DEF NodeInv, FeedInv, FeedTypeOK, PositionsExact, CompleteExact, ShowsNextSample, Position
<1> QED
  BY <1>1, <1>2, <1>7, <1>8 DEF NodeInv, NodeTypeOK, BatchOK, InTick

\* The lanes of the two halves stand for the windows of the batch, one each.
LEMMA WindowsOfBatch ==
  ASSUME NodeInv, lut \in Luts, pc \in InBatch
  PROVE  LET lanes == {hl \in Halves \X Lanes : hl[2] \in Active(hl[1])}
             graded == Behind(first + 2 * NumLanes) \ Behind(first)
         IN  /\ \A hl \in lanes : Origin(hl[1]) + hl[2] \in graded
             /\ \A a, b \in lanes : Origin(a[1]) + a[2] = Origin(b[1]) + b[2] => a = b
             /\ \A w \in graded : \E hl \in lanes : Origin(hl[1]) + hl[2] = w
<1> DEFINE lanes == {hl \in Halves \X Lanes : hl[2] \in Active(hl[1])}
           graded == Behind(first + 2 * NumLanes) \ Behind(first)
<1>1. /\ first \in Nat /\ NumLanes \in Nat \ {0} /\ NumWindows \in Nat
      /\ Halves = {"lo", "hi"} /\ Origin("lo") = first /\ Origin("hi") = first + NumLanes
  BY LanesOfBatch, FeedConstants DEF Halves, Origin
<1>2. ASSUME NEW hl \in lanes
      PROVE  /\ hl[1] \in {"lo", "hi"} /\ hl[2] \in 0..(NumLanes - 1) /\ hl = <<hl[1], hl[2]>>
             /\ Origin(hl[1]) + hl[2] < NumWindows
  BY <1>1 DEF Active, Lanes
<1>3. ASSUME NEW hl \in lanes PROVE Origin(hl[1]) + hl[2] \in graded
  <2>1. PICK k \in 0..(NumLanes - 1) : k = hl[2]
    BY <1>2
  <2>2. Origin(hl[1]) = first \/ Origin(hl[1]) = first + NumLanes
    BY <1>1, <1>2
  <2>3. /\ Origin(hl[1]) + k \in 0..(NumWindows - 1)
        /\ Origin(hl[1]) + k < first + 2 * NumLanes /\ ~ (Origin(hl[1]) + k < first)
    BY <1>1, <1>2, <2>1, <2>2
  <2> QED
    BY <2>1, <2>3 DEF Behind, Windows
<1>4. ASSUME NEW a \in lanes, NEW b \in lanes, Origin(a[1]) + a[2] = Origin(b[1]) + b[2]
      PROVE  a = b
  <2>1. PICK j \in 0..(NumLanes - 1), k \in 0..(NumLanes - 1) : j = a[2] /\ k = b[2]
    BY <1>2
  <2>2. a[1] \in {"lo", "hi"} /\ b[1] \in {"lo", "hi"} /\ a = <<a[1], a[2]>> /\ b = <<b[1], b[2]>>
    BY <1>2
  <2>3. a[1] = b[1]
    BY <1>1, <1>4, <2>1, <2>2
  <2>4. j = k
    BY <1>1, <1>4, <2>1, <2>2, <2>3
  <2> QED
    BY <2>1, <2>2, <2>3, <2>4
<1>5. ASSUME NEW w \in graded PROVE \E hl \in lanes : Origin(hl[1]) + hl[2] = w
  <2>1. w \in 0..(NumWindows - 1) /\ w < first + 2 * NumLanes /\ ~ (w < first)
    BY <1>5 DEF Behind, Windows
  <2>2. CASE w < first + NumLanes
    <3>1. w - first \in 0..(NumLanes - 1) /\ first + (w - first) = w /\ first + (w - first) < NumWindows
      BY <1>1, <2>1, <2>2
    <3>2. <<"lo", w - first>> \in lanes
      BY <1>1, <3>1 DEF Active, Lanes
    <3> QED
      BY <1>1, <3>1, <3>2
  <2>3. CASE ~ (w < first + NumLanes)
    <3>1. /\ w - (first + NumLanes) \in 0..(NumLanes - 1)
          /\ (first + NumLanes) + (w - (first + NumLanes)) = w
          /\ (first + NumLanes) + (w - (first + NumLanes)) < NumWindows
      BY <1>1, <2>1, <2>3
    <3>2. <<"hi", w - (first + NumLanes)>> \in lanes
      BY <1>1, <3>1 DEF Active, Lanes
    <3> QED
      BY <1>1, <3>1, <3>2
  <2> QED
    BY <2>2, <2>3
<1> QED
  BY <1>3, <1>4, <1>5

\* All captured: a wrong lane is a wrong window.
LEMMA NodeGrades ==
  ASSUME NodeInv, lut \in Luts, lut' = lut, GradeLanes
  PROVE  NodeInv'
<1> DEFINE lanes == {hl \in Halves \X Lanes : hl[2] \in Active(hl[1])}
           wrong == {hl \in Halves \X Lanes :
                       /\ hl[2] \in Active(hl[1])
                       /\ predicted[hl[1]][hl[2]] # Outputs[Origin(hl[1]) + hl[2] + Width]}
           graded == Behind(first + 2 * NumLanes) \ Behind(first)
           of(hl) == Origin(hl[1]) + hl[2]
<1>1. /\ pc = "grade" /\ failures' = failures + Cardinality(wrong)
      /\ first' = first + 2 * NumLanes /\ pc' = "batch"
      /\ UNCHANGED <<tick, cur, predicted, result, feedVars>>
  BY DEF GradeLanes
<1>2. /\ pc \in InBatch /\ pc' \notin InBatch /\ pc' \notin InTick
      /\ first \in Nat /\ NumLanes \in Nat \ {0}
  BY <1>1, FeedConstants DEF InBatch, InTick, NodeInv, NodeTypeOK
<1>3. /\ \A hl \in lanes : of(hl) \in graded
      /\ \A a, b \in lanes : of(a) = of(b) => a = b
      /\ \A w \in graded : \E hl \in lanes : of(hl) = w
  BY <1>2, WindowsOfBatch
<1>4. ASSUME NEW hl \in lanes
      PROVE  /\ predicted[hl[1]][hl[2]] = Prediction(lut, of(hl)) /\ Prediction(lut, of(hl)) # Timeout
  <2>1. hl[1] \in Halves /\ hl[2] \in Lanes /\ hl[2] \in Active(hl[1])
    OBVIOUS
  <2>2. hl[2] \in done[hl[1]]
    BY <1>1, <1>2, <2>1 DEF NodeInv, BatchOK
  <2>3. LaneIn(hl[1], hl[2])
    BY <1>2, <2>1, LanesOfBatch
  <2> QED
    BY <2>2, <2>3 DEF LaneIn, CapturedIn
<1>5. wrong \subseteq lanes /\ \A hl \in lanes : hl \in wrong <=> predicted[hl[1]][hl[2]] # Outputs[of(hl) + Width]
  OBVIOUS
<1>6. IsFiniteSet(lanes)
  <2>1. IsFiniteSet(Halves)
    <3>1. IsFiniteSet({"lo"}) /\ Halves = {"lo"} \cup {"hi"}
      BY FS_Singleton DEF Halves
    <3> QED
      BY <3>1, FS_AddElement
  <2>2. IsFiniteSet(Lanes)
    BY <1>2, CountUpTo DEF Lanes
  <2>3. IsFiniteSet(Halves \X Lanes)
    BY <2>1, <2>2, FS_Product
  <2> QED
    BY <2>3, FS_Subset
<1> HIDE DEF lanes, wrong, graded, of
<1>7. \A w \in graded : Prediction(lut, w) # Timeout
  BY <1>3, <1>4
<1>8. IsFiniteSet(wrong) /\ Cardinality(Wrong(lut, graded)) = Cardinality(wrong)
  <2>1. IsFiniteSet(wrong)
    BY <1>5, <1>6, FS_Subset
  <2> DEFINE f == [hl \in wrong |-> of(hl)]
  <2>2. f \in [wrong -> Wrong(lut, graded)]
    <3>1. ASSUME NEW hl \in wrong PROVE of(hl) \in Wrong(lut, graded)
      BY <1>3, <1>4, <1>5 DEF Wrong
    <3> QED
      BY <3>1
  <2>3. \A x, y \in wrong : f[x] = f[y] => x = y
    BY <1>3, <1>5
  <2>4. ASSUME NEW z \in Wrong(lut, graded) PROVE \E x \in wrong : f[x] = z
    <3>1. z \in graded /\ Prediction(lut, z) # Outputs[z + Width]
      BY DEF Wrong
    <3>2. PICK hl \in lanes : of(hl) = z
      BY <1>3, <3>1
    <3>3. hl \in wrong
      BY <1>4, <1>5, <3>1, <3>2
    <3> QED
      BY <3>2, <3>3
  <2> HIDE DEF f
  <2> QED
    BY <2>1, <2>2, <2>3, <2>4, CountedOnce
<1>9. first + 2 * NumLanes \in Nat /\ first <= first + 2 * NumLanes
  BY <1>2
<1>10. Scored(first + 2 * NumLanes, failures + Cardinality(wrong))
  <2>1. Scored(first, failures)
    BY <1>1 DEF NodeInv
  <2> QED
    BY <1>2, <1>7, <1>8, <1>9, <2>1, BatchScored DEF graded
<1>11. FeedInv'
  <2>1. UNCHANGED feedVars
    BY <1>1
  <2>2. UNCHANGED <<base, rel, counter, complete, done, show, fed>>
    BY <2>1 DEF feedVars
  <2> QED
    BY <2>2 DEF NodeInv, FeedInv, FeedTypeOK, PositionsExact, CompleteExact, ShowsNextSample, Position
<1>12. NodeTypeOK' /\ BatchOK'
  BY <1>1, <1>2, <1>9 DEF NodeInv, NodeTypeOK, BatchOK
<1> QED
  BY <1>1, <1>10, <1>11, <1>12 DEF NodeInv, Scored

LEMMA NodeReturns ==
  ASSUME NodeInv, lut \in Luts, lut' = lut, ReturnFailures
  PROVE  NodeInv'
<1>1. /\ pc = "batch" /\ first >= NumWindows /\ result' = failures /\ pc' = "done"
      /\ UNCHANGED <<first, tick, cur, predicted, failures, feedVars>>
  BY DEF ReturnFailures
<1>2. Behind(first) = Windows
  BY <1>1, NetAssumption DEF Behind, Windows, NodeInv, NodeTypeOK
<1>3. ScoreOf(lut) = failures
  BY <1>1, <1>2, ScoreIs DEF NodeInv, Scored
<1>4. FeedInv'
  <2>1. UNCHANGED feedVars
    BY <1>1
  <2>2. UNCHANGED <<base, rel, counter, complete, done, show, fed>>
    BY <2>1 DEF feedVars
  <2> QED
    BY <2>2 DEF NodeInv, FeedInv, FeedTypeOK, PositionsExact, CompleteExact, ShowsNextSample, Position
<1> QED
  BY <1>1, <1>3, <1>4 DEF NodeInv, NodeTypeOK, BatchOK, InBatch, InTick

LEMMA NodeSteps ==
  ASSUME NodeInv, lut \in Luts, lut' = lut, Table = lut, NodeNext
  PROVE  NodeInv'
BY NodeStarts, NodeCaptures, NodeFeedsLo, NodeFeedsHi, NodeShows, NodeTicks, NodeRunsOut, NodeGrades,
   NodeReturns DEF NodeNext

-----------------------------------------------------------------------------
(* Miner and node together: one table, mutated by both, scored by one after  *)
(* the other.                                                                *)

\* A scorer that has not begun: what it holds does not depend on the table.
MinerFresh ==
  /\ minerPc = "window" /\ window = 0 /\ minerTick = 0 /\ todo = {} /\ minerFailures = 0
  /\ value \in Values /\ next \in Values

NodeFresh == pc = "batch" /\ first = 0 /\ tick = 0 /\ failures = 0 /\ FeedInv

Avx2Fresh == pc2 = "batch" /\ first2 = 0 /\ failures2 = 0 /\ Avx2TypeOK

AgreeInv ==
  /\ phase \in {"mutate", "miner", "node", "avx2", "done"}
  /\ Table = lut
  /\ phase = "mutate" =>
       MinerFresh /\ \E draw \in Draws : lut = MinerRoot(draw) /\ dense = NodeRoot(draw)
  /\ phase # "mutate" => lut \in Luts /\ MinerInv
  /\ phase \in {"mutate", "miner"} => NodeFresh
  /\ phase \in {"node", "avx2", "done"} => minerPc = "done" /\ NodeInv
  /\ phase \in {"mutate", "miner", "node"} => Avx2Fresh
  /\ phase \in {"avx2", "done"} => pc = "done" /\ Avx2Inv
  /\ phase = "done" => pc2 = "done"

LEMMA NoneBehind ==
  /\ \A tab : Wrong(tab, 0..(0 - 1)) = {} /\ Wrong(tab, Behind(0)) = {}
  /\ Behind(0) = {} /\ Cardinality({}) = 0
<1>1. NumWindows \in Nat
  BY NetAssumption
<1>2. Behind(0) = {} /\ 0..(0 - 1) = {}
  BY <1>1 DEF Behind, Windows
<1> QED
  BY <1>2, FS_EmptySet DEF Wrong

LEMMA FreshMiner == MinerFresh => MinerInv
<1> SUFFICES ASSUME MinerFresh PROVE MinerInv
  OBVIOUS
<1>1. NumWindows \in Nat /\ MaxTicks \in Nat
  BY NetAssumption
<1>2. MinerTypeOK
  BY <1>1 DEF MinerFresh, MinerTypeOK
<1>3. Graded
  <2>1. window = 0 /\ minerFailures = 0
    BY DEF MinerFresh
  <2>2. \A w \in 0..(0 - 1) : FALSE
    OBVIOUS
  <2> QED
    BY <2>1, <2>2, NoneBehind DEF Graded
<1> QED
  BY <1>2, <1>3 DEF MinerInv, MinerFresh, BetweenTicks, WithinTick, MinerScored

LEMMA FreshNode == NodeFresh => NodeInv
<1> SUFFICES ASSUME NodeFresh PROVE NodeInv
  OBVIOUS
<1>1. MaxTicks \in Nat
  BY NetAssumption
<1>2. NodeTypeOK /\ BatchOK
  BY <1>1 DEF NodeFresh, NodeTypeOK, BatchOK, InBatch, InTick
<1>3. Scored(0, 0)
  BY NoneBehind DEF Scored
<1> QED
  BY <1>2, <1>3 DEF NodeInv, NodeFresh

LEMMA FreshAvx2 == Avx2Fresh => Avx2Inv
<1> SUFFICES ASSUME Avx2Fresh PROVE Avx2Inv
  OBVIOUS
<1>1. Scored(0, 0)
  BY NoneBehind DEF Scored
<1> QED
  BY <1>1 DEF Avx2Inv, Avx2Fresh, Sensing2

\* By neuron or by position: both sides start from one table, and mutate it alike.
LEMMA RootsAgree ==
  ASSUME NEW draw \in Draws, lut = MinerRoot(draw), dense = NodeRoot(draw)
  PROVE  Table = lut
BY RowsOfTables DEF Table, MinerRoot, NodeRoot

LEMMA MutationsAgree ==
  ASSUME NEW draw \in Draws, NEW seed \in MutationSeeds,
         lut = MinerRoot(draw), dense = NodeRoot(draw),
         lut' = MinerMutate(lut, seed), dense' = NodeMutate(dense, seed)
  PROVE  Table' = lut' /\ lut' \in Luts
<1> DEFINE k == Flat(seed) \div 27  line == Flat(seed) % 27
<1>1. k \in DOMAIN UpdatedAt
  <2>1. Cardinality(Updated) \in Nat \ {0} /\ seed \in Nat
    <3>1. IsFiniteSet(Updated) /\ Updated # {}
      BY NetAssumption, FS_Difference DEF Updated
    <3> QED
      BY <3>1, FS_EmptySet, FS_CardinalityType, AgreementAssumption
  <2> DEFINE c == Cardinality(Updated)  half == seed \div 2
  <2>2. c \in Nat \ {0} /\ half \in Nat /\ Flat(seed) = half % (27 * c)
    BY <2>1 DEF Flat
  <2> HIDE DEF c, half
  <2>3. 27 * c \in Nat /\ 27 * c > 0
    BY <2>2
  <2>4. Flat(seed) \in 0..(27 * c - 1)
    BY <2>2, <2>3
  <2>5. Flat(seed) \div 27 \in 0..(c - 1)
    BY <2>2, <2>4
  <2> QED
    BY <2>5, RowsOfTables DEF c
<1> HIDE DEF k, line
<1>2. /\ lut' = [lut EXCEPT ![UpdatedAt[k]][line] = Turned(@, seed)]
      /\ dense' = [dense EXCEPT ![k][line] = Turned(@, seed)]
  BY DEF MinerMutate, NodeMutate, k, line
<1>3. ASSUME NEW n \in Updated PROVE dense'[TableRow[n]] = lut'[n]
  <2>1. /\ TableRow[n] \in DOMAIN UpdatedAt /\ UpdatedAt[TableRow[n]] = n
        /\ TableRow[n] = k <=> n = UpdatedAt[k]
    BY <1>1, RowsOfTables
  <2>2. dense[TableRow[n]] = lut[n]
    BY <2>1 DEF MinerRoot, NodeRoot
  <2>3. DOMAIN dense = DOMAIN UpdatedAt /\ DOMAIN lut = Updated
    BY DEF MinerRoot, NodeRoot
  <2> QED
    BY <1>2, <2>1, <2>2, <2>3
<1>4. DOMAIN lut' = Updated /\ lut' = [n \in Updated |-> lut'[n]]
  <2>1. DOMAIN lut = Updated
    BY DEF MinerRoot
  <2> QED
    BY <1>2, <2>1
<1>5. Table' = [n \in Updated |-> dense'[TableRow[n]]]
  BY DEF Table
<1>6. Table' = lut'
  BY <1>3, <1>4, <1>5
<1> QED
  BY <1>6, LutsAssumption

\* A scorer whose turn it is not stays as it is.
LEMMA MinerWaits ==
  ASSUME UNCHANGED <<lut, minerVars>>
  PROVE  (MinerInv => MinerInv') /\ (MinerFresh => MinerFresh') /\ minerPc' = minerPc
<1>1. /\ lut' = lut /\ minerPc' = minerPc /\ window' = window /\ minerTick' = minerTick
      /\ feedCounter' = feedCounter /\ value' = value /\ next' = next /\ todo' = todo
      /\ minerFailures' = minerFailures /\ minerResult' = minerResult
  BY DEF minerVars
<1> QED
  BY <1>1 DEF MinerInv, MinerTypeOK, BetweenTicks, WithinTick, Graded, MinerScored, MinerFresh, Now

LEMMA NodeWaits ==
  ASSUME lut' = lut, UNCHANGED <<pc, first, tick, cur, predicted, failures, result, feedVars>>
  PROVE  NodeInv => NodeInv'
<1>1. UNCHANGED <<base, rel, counter, complete, done, show, fed>>
  BY DEF feedVars
<1>2. FeedInv => FeedInv'
  BY <1>1 DEF FeedInv, FeedTypeOK, PositionsExact, CompleteExact, ShowsNextSample, Position
<1>3. \A h \in Halves : Origin(h)' = Origin(h) /\ Active(h)' = Active(h)
  BY DEF Origin, Active
<1>4. ASSUME NEW h \in Halves, NEW l \in Lanes PROVE LaneIn(h, l)' <=> LaneIn(h, l)
  <2>1. NowAt(h, l)' = NowAt(h, l)
    BY <1>3 DEF NowAt
  <2> QED
    BY <1>1, <1>3, <2>1 DEF LaneIn, CapturedIn, WaitingIn, RunningIn, FedIn, ShownIn, RowsShow
<1>5. BatchOK => BatchOK'
  <2>1. \A h \in Halves : Active(h) \subseteq Lanes
    BY DEF Active
  <2> QED
    BY <1>1, <1>3, <1>4, <2>1 DEF BatchOK
<1> QED
  BY <1>2, <1>5 DEF NodeInv, NodeTypeOK, Scored

LEMMA NodeStaysFresh ==
  ASSUME UNCHANGED <<pc, first, tick, failures, feedVars>>
  PROVE  NodeFresh => NodeFresh'
<1>1. UNCHANGED <<base, rel, counter, complete, done, show, fed>>
  BY DEF feedVars
<1> QED
  BY <1>1 DEF NodeFresh, FeedInv, FeedTypeOK, PositionsExact, CompleteExact, ShowsNextSample, Position

LEMMA Avx2Waits ==
  ASSUME UNCHANGED <<lut, avx2Vars>>
  PROVE  (Avx2Inv => Avx2Inv') /\ (Avx2Fresh => Avx2Fresh') /\ pc2' = pc2
<1>1. UNCHANGED <<lut, pc2, first2, tick2, lane, cur2, nxt2, counter2, predicted2, done2, remaining,
                  failures2, result2>>
  BY DEF avx2Vars
<1>2. Avx2TypeOK' <=> Avx2TypeOK
  BY <1>1 DEF Avx2TypeOK
<1>3. ASSUME NEW l \in Lanes2 PROVE LaneOK2(l)' <=> LaneOK2(l)
  <2>1. Now2(l)' = Now2(l)
    BY <1>1 DEF Now2
  <2> QED
    BY <1>1, <2>1 DEF LaneOK2, Captured2, Shown2, Waiting2
<1>4. Batch2' = Batch2
  BY <1>1 DEF Batch2
<1>5. Sensing2 => Sensing2'
  BY <1>1, <1>3, <1>4 DEF Sensing2
<1> QED
  BY <1>1, <1>2, <1>5 DEF Avx2Inv, Avx2Fresh, Scored

\* Scoring leaves the table alone.
LEMMA MinerKeepsTable == Miner!Next => lut' = lut
BY DEF Miner!Next, Miner!StartWindow, Miner!Feed, Miner!Mask, Miner!BeginTick, Miner!LookUpNeuron,
       Miner!WriteNeuron, Miner!Grade, Miner!RunOut, Miner!Return

LEMMA NodeKeepsTable == NodeNext => dense' = dense
BY DEF NodeNext, StartWindows, Capture, FeedLo, FeedHi, ShowSamples, TickLanes, OutOfTicks, GradeLanes,
       ReturnFailures

LEMMA AgreeStarts == Init => AgreeInv
<1> SUFFICES ASSUME Init PROVE AgreeInv
  OBVIOUS
<1>1. 0 \in Trit /\ UNKNOWN \in Trit
  BY DEF Trit, UNKNOWN
<1>2. MinerFresh
  <2>1. /\ minerPc = "window" /\ window = 0 /\ minerTick = 0 /\ todo = {} /\ minerFailures = 0
        /\ value = [n \in Neurons |-> 0] /\ next = value
    BY DEF Init, Miner!Init
  <2> QED
    BY <1>1, <2>1 DEF MinerFresh, Values
<1>3. NodeFresh
  BY InitExact DEF Init, NodeInit, NodeFresh
<1>4. Avx2Fresh
  <2>1. /\ pc2 = "batch" /\ first2 = 0 /\ tick2 = 0
        /\ cur2 = [n \in Neurons |-> [l \in Lanes2 |-> 0]] /\ nxt2 = [n \in Neurons |-> [l \in Lanes2 |-> 0]]
        /\ counter2 = [l \in Lanes2 |-> 0] /\ predicted2 = counter2 /\ done2 = {} /\ failures2 = 0
    BY DEF Init, Avx2!Init, Avx2!AllLanes, Avx2!Lanes, Lanes2
  <2>2. MaxTicks \in Nat
    BY NetAssumption
  <2> QED
    BY <1>1, <2>1, <2>2 DEF Avx2Fresh, Avx2TypeOK
<1>5. PICK draw \in Draws : lut = MinerRoot(draw) /\ dense = NodeRoot(draw)
  BY DEF Init
<1>6. Table = lut
  BY <1>5, RootsAgree
<1>7. phase = "mutate"
  BY DEF Init
<1> QED
  BY <1>2, <1>3, <1>4, <1>5, <1>6, <1>7 DEF AgreeInv

LEMMA AgreeMutates ==
  ASSUME AgreeInv, Mutate
  PROVE  AgreeInv'
<1>1. PICK draw \in Draws : lut = MinerRoot(draw) /\ dense = NodeRoot(draw)
  BY DEF AgreeInv, Mutate
<1>2. PICK seed \in MutationSeeds : lut' = MinerMutate(lut, seed) /\ dense' = NodeMutate(dense, seed)
  BY DEF Mutate
<1>3. Table' = lut' /\ lut' \in Luts
  BY <1>1, <1>2, MutationsAgree
<1>4. /\ phase = "mutate" /\ phase' = "miner" /\ UNCHANGED <<minerVars, avx2Vars>>
      /\ UNCHANGED <<pc, first, tick, failures, feedVars>>
  BY DEF Mutate
<1>5. MinerInv'
  <2>1. MinerFresh'
    BY <1>4 DEF AgreeInv, MinerFresh, minerVars
  <2> QED
    BY <2>1, FreshMiner, PTL
<1>6. NodeFresh'
  BY <1>4, NodeStaysFresh DEF AgreeInv
<1>7. Avx2Fresh'
  <2>1. UNCHANGED <<pc2, first2, tick2, lane, cur2, nxt2, counter2, predicted2, done2, remaining,
                    failures2, result2>>
    BY <1>4 DEF avx2Vars
  <2> QED
    BY <1>4, <2>1 DEF AgreeInv, Avx2Fresh, Avx2TypeOK
<1> QED
  BY <1>3, <1>4, <1>5, <1>6, <1>7 DEF AgreeInv

LEMMA AgreeMinerScores ==
  ASSUME AgreeInv, MinerScores
  PROVE  AgreeInv'
<1>1. /\ phase = "miner" /\ Miner!Next /\ UNCHANGED <<nodeVars, avx2Vars>>
      /\ phase' = IF minerPc' = "done" THEN "node" ELSE phase
  BY DEF MinerScores
<1>2. lut' = lut /\ dense' = dense /\ UNCHANGED <<pc, first, tick, cur, predicted, failures, result, feedVars>>
  BY <1>1, MinerKeepsTable DEF nodeVars
<1>3. Table' = lut' /\ lut' \in Luts
  BY <1>1, <1>2 DEF AgreeInv, Table
<1>4. MinerInv'
  BY <1>1, MinerSteps DEF AgreeInv
<1>5. NodeFresh' /\ Avx2Fresh'
  BY <1>1, <1>2, NodeStaysFresh, Avx2Waits DEF AgreeInv
<1>6. NodeInv'
  BY <1>5, FreshNode, PTL
<1> QED
  BY <1>1, <1>3, <1>4, <1>5, <1>6 DEF AgreeInv

LEMMA AgreeNodeScores ==
  ASSUME AgreeInv, NodeScores
  PROVE  AgreeInv'
<1>1. /\ phase = "node" /\ NodeNext /\ UNCHANGED <<lut, minerVars, avx2Vars>>
      /\ phase' = IF pc' = "done" THEN "avx2" ELSE phase
  BY DEF NodeScores
<1>2. Table' = lut' /\ lut' \in Luts
  BY <1>1, NodeKeepsTable DEF AgreeInv, Table
<1>3. MinerInv' /\ minerPc' = "done"
  BY <1>1, MinerWaits DEF AgreeInv
<1>4. NodeInv'
  BY <1>1, NodeSteps DEF AgreeInv
<1>5. Avx2Fresh'
  BY <1>1, Avx2Waits DEF AgreeInv
<1>6. Avx2Inv'
  BY <1>5, FreshAvx2, PTL
<1> QED
  BY <1>1, <1>2, <1>3, <1>4, <1>5, <1>6 DEF AgreeInv

LEMMA AgreeAvx2Scores ==
  ASSUME AgreeInv, Avx2Scores
  PROVE  AgreeInv'
<1>1. /\ phase = "avx2" /\ Avx2!Next /\ UNCHANGED <<lut, minerVars, nodeVars>>
      /\ phase' = IF pc2' = "done" THEN "done" ELSE phase
  BY DEF Avx2Scores
<1>2. dense' = dense /\ UNCHANGED <<pc, first, tick, cur, predicted, failures, result, feedVars>>
  BY <1>1 DEF nodeVars
<1>3. Table' = lut' /\ lut' \in Luts
  BY <1>1, <1>2 DEF AgreeInv, Table
<1>4. MinerInv' /\ minerPc' = "done"
  BY <1>1, MinerWaits DEF AgreeInv
<1>5. NodeInv' /\ pc' = "done"
  BY <1>1, <1>2, NodeWaits DEF AgreeInv
<1>6. Avx2Inv'
  BY <1>1, Avx2Steps DEF AgreeInv
<1> QED
  BY <1>1, <1>3, <1>4, <1>5, <1>6 DEF AgreeInv

LEMMA AgreeStutters ==
  ASSUME AgreeInv, UNCHANGED vars
  PROVE  AgreeInv'
<1>1. UNCHANGED <<lut, minerVars>> /\ UNCHANGED <<lut, avx2Vars>> /\ UNCHANGED nodeVars /\ phase' = phase
  BY DEF vars
<1>2. lut' = lut /\ dense' = dense /\ UNCHANGED <<pc, first, tick, cur, predicted, failures, result, feedVars>>
  BY <1>1 DEF nodeVars
<1>3. Table' = Table
  BY <1>2 DEF Table
<1>4. /\ MinerInv => MinerInv'
      /\ MinerFresh => MinerFresh'
      /\ minerPc' = minerPc
  BY <1>1, MinerWaits
<1>5. /\ Avx2Inv => Avx2Inv'
      /\ Avx2Fresh => Avx2Fresh'
      /\ pc2' = pc2
  BY <1>1, Avx2Waits
<1>6. (NodeInv => NodeInv') /\ (NodeFresh => NodeFresh') /\ pc' = pc
  BY <1>2, NodeWaits, NodeStaysFresh
<1> QED
  BY <1>1, <1>2, <1>3, <1>4, <1>5, <1>6 DEF AgreeInv

LEMMA AgreeSteps == AgreeInv /\ [Next]_vars => AgreeInv'
BY AgreeMutates, AgreeMinerScores, AgreeNodeScores, AgreeAvx2Scores, AgreeStutters DEF Next

LEMMA SpecAgreeInv == Spec => []AgreeInv
BY AgreeStarts, AgreeSteps, PTL DEF Spec

-----------------------------------------------------------------------------
\* Whatever table, topology and samples, miner and node's two builds find the same
\* score, and it is that of the reference.
THEOREM SpecScoresAgree == Spec => []ScoresAgree
<1>1. AgreeInv => ScoresAgree
  <2> SUFFICES ASSUME AgreeInv, phase = "done" PROVE ScoresAgree
    BY DEF ScoresAgree
  <2>1. minerResult = ScoreOf(lut) /\ result = ScoreOf(lut) /\ result2 = ScoreOf(lut)
    BY DEF AgreeInv, MinerInv, MinerScored, NodeInv, Avx2Inv
  <2>2. NumWindows \in Nat
    BY NetAssumption
  <2>3. ASSUME NEW difficulty \in 0..(NumWindows - 1)
        PROVE  minerResult <= difficulty <=> EngineScore(result) <= difficulty
    BY <2>1, <2>2 DEF EngineScore, INF
  <2> QED
    BY <2>1, <2>3 DEF ScoresAgree
<1> QED
  BY <1>1, SpecAgreeInv, PTL

\* Between ticks the miner's array of neurons is the synchronous network of its window,
\* in whatever order the neurons of a tick are visited.
THEOREM SpecMinerTickIsSynchronous == Spec => []MinerTickIsSynchronous
<1>1. \A tab, w : Miner!Run(tab, w) = Run(tab, w)
  BY DEF Miner!Run, Run, Miner!Synchronous, Synchronous, Miner!LookUp, LookUp, Miner!Masked, Masked,
         Miner!Fed, Fed, Miner!AllUnknown, AllUnknown, Miner!UNKNOWN, UNKNOWN
<1>2. AgreeInv => MinerTickIsSynchronous
  BY <1>1 DEF AgreeInv, MinerInv, BetweenTicks, Now, MinerTickIsSynchronous, Miner!TickIsSynchronous
<1> QED
  BY <1>2, SpecAgreeInv, PTL

\* Between ticks every running lane of the AVX-512 build shows, in the rows of the cone,
\* the network of its own window as if it ran alone and in full.
THEOREM SpecPlanesSynchronous == Spec => []PlanesSynchronous
<1>1. AgreeInv => PlanesSynchronous
  <2> SUFFICES ASSUME AgreeInv, pc = "sense", NEW h \in Halves, NEW l \in Lanes \ done[h]
               PROVE  /\ \A n \in Live : cur[RowOf[n]][h][l] = Run(Table, Origin(h) + l)[tick].v[n]
                      /\ fed[h][l] = Run(Table, Origin(h) + l)[tick].fed
    BY DEF PlanesSynchronous
  <2>1. phase = "node" /\ NodeInv /\ lut \in Luts /\ Table = lut
    BY DEF AgreeInv, NodeFresh
  <2>2. pc \in InBatch
    BY DEF InBatch
  <2>3. LaneIn(h, l)
    BY <2>1, <2>2, LanesOfBatch
  <2>4. WaitingIn(h, l)
    BY <2>3 DEF LaneIn
  <2> QED
    BY <2>1, <2>4 DEF WaitingIn, RowsShow, NowAt
<1> QED
  BY <1>1, SpecAgreeInv, PTL

\* Scoring drives the position trackers as NodeFeed's specification allows, which
\* leaves open when a lane's signal is UNKNOWN ...
THEOREM SpecDrivesFeed == Spec => FeedSpec
<1>1. Init => FeedInit
  BY DEF Init, NodeInit
<1>2. [Next]_vars => [FeedNext]_feedVars
  <2> SUFFICES ASSUME [Next]_vars PROVE FeedNext \/ UNCHANGED feedVars
    OBVIOUS
  <2>1. CASE StartWindows
    <3>1. [h \in Halves |-> Active(h)] \in [Halves -> SUBSET Lanes]
      BY DEF Active
    <3> QED
      BY <2>1, <3>1 DEF StartWindows, FeedNext
  <2>2. CASE Capture
    <3> DEFINE unknown == [h \in Halves |-> Unknown(h)]
    <3>1. unknown \in [Halves -> SUBSET Lanes]
      BY DEF Unknown
    <3>2. [h \in Halves |-> Finishing(h, Unknown(h))] = [h \in Halves |-> Finishing(h, unknown[h])]
      OBVIOUS
    <3>3. Finish([h \in Halves |-> Finishing(h, unknown[h])])
      BY <2>2, <3>2 DEF Capture
    <3> HIDE DEF unknown
    <3> QED
      BY <3>1, <3>3 DEF FeedNext
  <2>3. CASE FeedLo \/ FeedHi
    <3>1. PICK h \in Halves : FeedHalf(h, Feeding(h, Unknown(h)))
      BY <2>3 DEF FeedLo, FeedHi, Halves
    <3>2. Unknown(h) \in SUBSET Lanes
      BY DEF Unknown
    <3> QED
      BY <3>1, <3>2 DEF FeedNext
  <2>4. CASE ShowSamples \/ TickLanes \/ OutOfTicks \/ GradeLanes \/ ReturnFailures
    BY <2>4 DEF ShowSamples, TickLanes, OutOfTicks, GradeLanes, ReturnFailures
  <2>5. CASE Mutate \/ MinerScores \/ Avx2Scores \/ UNCHANGED vars
    BY <2>5 DEF Mutate, MinerScores, Avx2Scores, vars, nodeVars
  <2> QED
    BY <2>1, <2>2, <2>3, <2>4, <2>5 DEF Next, NodeScores, NodeNext
<1> QED
  BY <1>1, <1>2, PTL DEF Spec, FeedSpec

\* ... so every lane of a score is placed exactly, and shown each sample once.
THEOREM SpecFeedExact == Spec => []FeedExact
BY SpecDrivesFeed, FeedSpecExact, PTL
=============================================================================
