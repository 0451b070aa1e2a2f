--------------------------- MODULE CohortClimbProofs ---------------------------
(***************************************************************************)
(* For every cohort size, number of steps, landscape and seeds: each       *)
(* candidate of a Metal cohort performs the abstract search of its nonce,  *)
(* and what is reported for it is never better than the full search, and   *)
(* equal to it when the cohort was not abandoned.                          *)
(***************************************************************************)
EXTENDS CohortClimb, TLAPS

\* The lemmas on mutations proved beside the CPU search; they are about operators of
\* AnnSearch, the variables play no part in them, nor does the solo miner's queue.
CPU == INSTANCE QinerProofs WITH
  currentANN <- lut0, prevANN <- lut0, bestANN <- lut0,
  Threads <- {}, MaxFound <- 0, PacketParts <- 1,
  stopping <- TRUE, running <- FALSE, thread <- <<>>, found <- <<>>, foundNonce <- <<>>,
  main <- "join", sendNonce <- <<>>, unsent <- 0, connection <- "closed", handed <- <<>>

\* The assumption on the queue, of the values above.
LEMMA QueueAssumed == CPU!QinerAssumption
BY DEF CPU!QinerAssumption

LEMMA MutatedStep ==
  ASSUME NEW base, NEW row, NEW k \in Nat
  PROVE  /\ Mutated(base, row, 0) = base
         /\ Mutated(base, row, k + 1) = Mutate(Mutated(base, row, k), row[k + 1])
<1>1. \A m : CPU!Mutated(base, row, m) = Mutated(base, row, m)
  BY DEF CPU!Mutated, Mutated, CPU!Mutate, Mutate
<1>2. \A t, m : CPU!Mutate(t, m) = Mutate(t, m)
  BY DEF CPU!Mutate, Mutate
<1>3. /\ CPU!Mutated(base, row, 0) = base
      /\ CPU!Mutated(base, row, k + 1) = CPU!Mutate(CPU!Mutated(base, row, k), row[k + 1])
  BY SearchAssumption, LandscapeAssumption, SeedAssumption, QueueAssumed, CPU!MutatedStep
     DEF LUT, Trit, CPU!LUT, CPU!Trit, SeedTable, CPU!SeedTable, Mutation, CPU!Mutation
<1> QED
  BY <1>1, <1>2, <1>3

LEMMA MutateType ==
  ASSUME NEW t \in LUT, NEW m \in Mutation PROVE Mutate(t, m) \in LUT
BY SearchAssumption, LandscapeAssumption, SeedAssumption, QueueAssumed, CPU!MutateType
   DEF LUT, Trit, CPU!LUT, CPU!Trit, SeedTable, CPU!SeedTable, Mutation, CPU!Mutation,
       Mutate, CPU!Mutate

\* The mutations of a step lead from table to table.
LEMMA MutatedType ==
  ASSUME NEW base \in LUT, NEW row \in [1..MaxL -> Mutation], NEW k \in 0..MaxL
  PROVE  Mutated(base, row, k) \in LUT
<1> DEFINE A == {m \in Nat : m <= MaxL => Mutated(base, row, m) \in LUT}
<1>1. 0 \in A
  BY MutatedStep
<1>2. ASSUME NEW m \in Nat, m \in A PROVE m + 1 \in A
  <2>1. SUFFICES ASSUME m + 1 <= MaxL PROVE Mutated(base, row, m + 1) \in LUT
    OBVIOUS
  <2>2. row[m + 1] \in Mutation
    <3>1. m + 1 \in 1..MaxL
      BY <2>1, SearchAssumption
    <3> QED
      BY <3>1
  <2>3. Mutated(base, row, m) \in LUT
    BY <1>2, <2>1, SearchAssumption
  <2>4. Mutated(base, row, m + 1) = Mutate(Mutated(base, row, m), row[m + 1])
    BY MutatedStep
  <2> QED
    BY <2>2, <2>3, <2>4, MutateType
<1> HIDE DEF A
<1>3. Nat \subseteq A
  BY <1>1, <1>2, SearchAssumption, LandscapeAssumption, SeedAssumption,
     QueueAssumed, CPU!NatSetInduction
     DEF LUT, Trit, CPU!LUT, CPU!Trit, SeedTable, CPU!SeedTable, Mutation, CPU!Mutation
<1> QED
  BY <1>3, SearchAssumption DEF A

LEMMA ScoreType ==
  ASSUME errs \in Landscapes, NEW t \in LUT PROVE errs[t] \in Scores /\ errs[t] \in Nat
BY SearchAssumption, LandscapeAssumption

-----------------------------------------------------------------------------
(* The full search: the tables it stands on after each step.                 *)

NextTable(e, t, row, l) ==
  LET next == Mutated(t, row, l) IN IF Accepts(e[next], e[t]) THEN next ELSE t

Tables(at, e, root, sd, l) ==
  at = [k \in 0..NumSteps |->
          IF k = 0 THEN root ELSE NextTable(e, at[k - 1], sd[k], l)]

At(e, root, sd, l) == CHOOSE at : Tables(at, e, root, sd, l)

\* Such tables up to any step, and hence for the whole search, exist.
LEMMA TablesExist ==
  ASSUME NEW e, NEW root, NEW sd, NEW l
  PROVE  \E at : Tables(at, e, root, sd, l)
<1> DEFINE Upto(f, m) ==
      f = [k \in 0..m |-> IF k = 0 THEN root ELSE NextTable(e, f[k - 1], sd[k], l)]
<1> DEFINE A == {m \in Nat : \E f : Upto(f, m)}
<1>1. 0 \in A
  <2>1. Upto([k \in 0..0 |-> root], 0)
    OBVIOUS
  <2> QED
    BY <2>1
<1>2. ASSUME NEW m \in Nat, m \in A PROVE m + 1 \in A
  <2>1. PICK f : Upto(f, m)
    BY <1>2
  <2> DEFINE g == [k \in 0..(m + 1) |->
                     IF k = m + 1 THEN NextTable(e, f[m], sd[m + 1], l) ELSE f[k]]
  <2>2. \A k \in 0..(m + 1) :
          g[k] = IF k = 0 THEN root ELSE NextTable(e, g[k - 1], sd[k], l)
    <3> SUFFICES ASSUME NEW k \in 0..(m + 1)
                 PROVE  g[k] = IF k = 0 THEN root ELSE NextTable(e, g[k - 1], sd[k], l)
      OBVIOUS
    <3>1. CASE k = m + 1
      <4>1. g[m] = f[m] /\ k # 0 /\ k - 1 = m
        BY <3>1
      <4> QED
        BY <3>1, <4>1
    <3>2. CASE k # m + 1
      <4>1. k \in 0..m /\ g[k] = f[k]
        BY <3>2
      <4>2. f[k] = IF k = 0 THEN root ELSE NextTable(e, f[k - 1], sd[k], l)
        BY <2>1, <4>1
      <4>3. k # 0 => g[k - 1] = f[k - 1]
        BY <4>1
      <4> QED
        BY <4>1, <4>2, <4>3
    <3> QED
      BY <3>1, <3>2
  <2>3. g = [k \in 0..(m + 1) |-> g[k]]
    OBVIOUS
  <2> HIDE DEF g
  <2>4. Upto(g, m + 1)
    BY <2>2, <2>3
  <2> HIDE DEF Upto
  <2> QED
    BY <2>4
<1>3. NumSteps \in A
  <2> HIDE DEF A
  <2> QED
    BY <1>1, <1>2, SearchAssumption, LandscapeAssumption, SeedAssumption,
       QueueAssumed, CPU!NatSetInduction
       DEF LUT, Trit, CPU!LUT, CPU!Trit, SeedTable, CPU!SeedTable, Mutation, CPU!Mutation
<1> QED
  BY <1>3 DEF Tables

LEMMA FullClimbIs ==
  ASSUME NEW e, NEW root, NEW sd, NEW l
  PROVE  FullClimb(e, root, sd, l) = e[At(e, root, sd, l)[NumSteps]]
BY DEF FullClimb, At, Tables, NextTable

\* The search starts at the root, moves by NextTable, and never to a worse table.
LEMMA SearchSteps ==
  ASSUME NEW e \in Landscapes, NEW root \in LUT, NEW sd \in SeedTable, NEW l \in 1..MaxL
  PROVE  LET at == At(e, root, sd, l)
         IN  /\ at[0] = root
             /\ \A k \in 0..NumSteps : at[k] \in LUT
             /\ \A k \in 1..NumSteps : at[k] = NextTable(e, at[k - 1], sd[k], l)
<1> DEFINE at == At(e, root, sd, l)
<1>1. Tables(at, e, root, sd, l)
  BY TablesExist DEF At
<1> HIDE DEF at
<1>2. at[0] = root /\ \A k \in 1..NumSteps : at[k] = NextTable(e, at[k - 1], sd[k], l)
  <2>1. 0 \in 0..NumSteps /\ \A k \in 1..NumSteps : k \in 0..NumSteps /\ k # 0
    BY SearchAssumption
  <2> QED
    BY <1>1, <2>1 DEF Tables
<1> DEFINE A == {k \in Nat : k <= NumSteps => at[k] \in LUT}
<1>3. 0 \in A
  BY <1>2
<1>4. ASSUME NEW k \in Nat, k \in A PROVE k + 1 \in A
  <2>1. SUFFICES ASSUME k + 1 <= NumSteps PROVE at[k + 1] \in LUT
    OBVIOUS
  <2>2. at[k] \in LUT /\ k + 1 \in 1..NumSteps /\ (k + 1) - 1 = k
    BY <1>4, <2>1, SearchAssumption
  <2>3. sd[k + 1] \in [1..MaxL -> Mutation] /\ l \in 0..MaxL
    BY <2>2, SearchAssumption DEF SeedTable
  <2>4. Mutated(at[k], sd[k + 1], l) \in LUT
    BY <2>2, <2>3, MutatedType
  <2>5. at[k + 1] = NextTable(e, at[k], sd[k + 1], l)
    BY <1>2, <2>2
  <2> QED
    BY <2>2, <2>4, <2>5 DEF NextTable
<1> HIDE DEF A
<1>5. Nat \subseteq A
  BY <1>3, <1>4, SearchAssumption, LandscapeAssumption, SeedAssumption,
     QueueAssumed, CPU!NatSetInduction
     DEF LUT, Trit, CPU!LUT, CPU!Trit, SeedTable, CPU!SeedTable, Mutation, CPU!Mutation
<1>6. \A k \in 0..NumSteps : at[k] \in LUT
  BY <1>5, SearchAssumption DEF A
<1> QED
  BY <1>2, <1>6 DEF at

\* So its result is at most the score of any table it stood on.
LEMMA FullClimbLowest ==
  ASSUME NEW e \in Landscapes, NEW root \in LUT, NEW sd \in SeedTable, NEW l \in 1..MaxL,
         NEW k \in 0..NumSteps
  PROVE  FullClimb(e, root, sd, l) <= e[At(e, root, sd, l)[k]]
<1> DEFINE at == At(e, root, sd, l)
<1> DEFINE A == {d \in Nat : d <= NumSteps => e[at[NumSteps]] <= e[at[NumSteps - d]]}
<1>1. \A j \in 0..NumSteps : at[j] \in LUT
  BY SearchSteps
<1>2. \A j \in 0..NumSteps : e[at[j]] \in Nat
  BY <1>1, SearchAssumption, LandscapeAssumption
<1>3. \A j \in 1..NumSteps : e[at[j]] <= e[at[j - 1]]
  <2> SUFFICES ASSUME NEW j \in 1..NumSteps PROVE e[at[j]] <= e[at[j - 1]]
    OBVIOUS
  <2>1. at[j] = NextTable(e, at[j - 1], sd[j], l)
    BY SearchSteps
  <2>2. j - 1 \in 0..NumSteps
    BY SearchAssumption
  <2>3. e[at[j - 1]] \in Nat
    BY <1>2, <2>2
  <2> HIDE DEF at
  <2> QED
    BY <2>1, <2>3 DEF NextTable, Accepts
<1> HIDE DEF at
<1>4. 0 \in A
  <2>1. NumSteps \in 0..NumSteps /\ NumSteps - 0 = NumSteps
    BY SearchAssumption
  <2>2. e[at[NumSteps]] <= e[at[NumSteps]]
    BY <1>2, <2>1
  <2> QED
    BY <2>1, <2>2
<1>5. ASSUME NEW d \in Nat, d \in A PROVE d + 1 \in A
  <2>1. SUFFICES ASSUME d + 1 <= NumSteps
                 PROVE  e[at[NumSteps]] <= e[at[NumSteps - (d + 1)]]
    OBVIOUS
  <2>2. NumSteps - d \in 1..NumSteps /\ NumSteps - (d + 1) = (NumSteps - d) - 1
        /\ NumSteps - d \in 0..NumSteps /\ NumSteps - (d + 1) \in 0..NumSteps
        /\ NumSteps \in 0..NumSteps
    BY <2>1, SearchAssumption
  <2>3. e[at[NumSteps]] <= e[at[NumSteps - d]]
    BY <1>5, <2>1, SearchAssumption
  <2>4. e[at[NumSteps - d]] <= e[at[NumSteps - (d + 1)]]
    BY <1>3, <2>2
  <2>5. e[at[NumSteps]] \in Nat /\ e[at[NumSteps - d]] \in Nat
        /\ e[at[NumSteps - (d + 1)]] \in Nat
    BY <1>2, <2>2
  <2> QED
    BY <2>3, <2>4, <2>5
<1> HIDE DEF A
<1>6. Nat \subseteq A
  BY <1>4, <1>5, SearchAssumption, LandscapeAssumption, SeedAssumption,
     QueueAssumed, CPU!NatSetInduction
     DEF LUT, Trit, CPU!LUT, CPU!Trit, SeedTable, CPU!SeedTable, Mutation, CPU!Mutation
<1>7. NumSteps - k \in Nat /\ NumSteps - k <= NumSteps /\ NumSteps - (NumSteps - k) = k
  BY SearchAssumption
<1>8. e[at[NumSteps]] <= e[at[k]]
  BY <1>6, <1>7 DEF A
<1> QED
  BY <1>8, FullClimbIs DEF at

-----------------------------------------------------------------------------
(* The inductive invariant.                                                   *)

PCs == {"test", "mutate", "dispatch", "accept", "failed", "returned"}

TypeOK ==
  /\ errs \in Landscapes /\ lut0 \in LUT
  /\ seeds \in [Cands -> SeedTable] /\ L \in [Cands -> 1..MaxL]
  /\ lut \in [Cands -> LUT] /\ prev \in [Cands -> LUT] /\ luts \in [Cands -> LUT]
  /\ cur \in [Cands -> Scores] /\ best \in [Cands -> Scores]
  /\ r \in [Cands -> Scores]
  /\ pc \in PCs /\ s \in 0..NumSteps /\ n \in Cands /\ i \in 0..MaxL
  /\ pc \in {"mutate", "dispatch", "accept"} => s < NumSteps
  /\ pc = "mutate" => i <= L[n]

\* The table candidate k can return to: its snapshot while its step is undecided.
Standing(k) == IF InStep(k) THEN prev[k] ELSE lut[k]

\* What candidate k tries in this step.
Tried(k) == Mutated(prev[k], seeds[k][s + 1], L[k])

\* The buffers hold, candidate by candidate, what the step has made of the snapshots.
BuffersInStep ==
  /\ pc = "mutate" => lut[n] = Mutated(prev[n], seeds[n][s + 1], i)
  /\ \A k \in Cands :
       (pc = "dispatch" \/ (pc = "mutate" /\ k < n) \/ (pc = "accept" /\ k >= n))
         => lut[k] = Tried(k) /\ luts[k] = lut[k]
  /\ pc = "accept" => \A k \in Cands : k >= n => r[k] = errs[lut[k]]

\* Every candidate's scores are those of the table it can return to.
ScoresOfStanding ==
  \A k \in Cands : cur[k] = errs[Standing(k)] /\ best[k] = cur[k]

\* And that is the table the full search of its nonce stands on after as many steps.
InLockstep ==
  \A k \in Cands :
    StepsDone(k) <= NumSteps
    /\ Standing(k) = At(errs, lut0, seeds[k], L[k])[StepsDone(k)]

Reported == pc = "returned" => bestOut = best

IInv == TypeOK /\ BuffersInStep /\ ScoresOfStanding /\ InLockstep /\ Reported

\* The two things that can happen to a candidate: nothing, or a step of its search.
Unmoved(k) == UNCHANGED <<Standing(k), StepsDone(k), cur[k], best[k]>>

Moved(k) ==
  LET tried == Mutated(Standing(k), seeds[k][StepsDone(k) + 1], L[k])
  IN  /\ StepsDone(k) < NumSteps /\ StepsDone(k)' = StepsDone(k) + 1
      /\ IF Accepts(errs[tried], cur[k])
         THEN Standing(k)' = tried /\ cur'[k] = errs[tried]
         ELSE UNCHANGED <<Standing(k), cur[k]>>
      /\ best'[k] = Lower(cur'[k], best[k])

-----------------------------------------------------------------------------
LEMMA InitIInv == Init => IInv
<1> SUFFICES ASSUME Init PROVE IInv
  OBVIOUS
<1>1. \A raw \in RawLs : ClampL(raw) \in 1..MaxL
  BY SearchAssumption DEF ClampL
<1>2. L \in [Cands -> 1..MaxL] /\ seeds \in [Cands -> SeedTable]
  BY <1>1, SeedAssumption DEF Init
<1>3. errs[lut0] \in Scores
  BY ScoreType DEF Init
<1>4. 0 \in 0..NumSteps /\ 1 \in Cands /\ 0 \in 0..MaxL
  BY SearchAssumption, CohortAssumption DEF Cands
<1>5. TypeOK
  BY <1>2, <1>3, <1>4 DEF Init, TypeOK, PCs
<1>6. BuffersInStep /\ Reported
  BY DEF Init, BuffersInStep, Reported
<1>7. \A k \in Cands : Standing(k) = lut0 /\ StepsDone(k) = 0
  BY DEF Init, Standing, InStep, StepsDone
<1>8. ScoresOfStanding
  BY <1>7 DEF Init, ScoresOfStanding
<1>9. InLockstep
  <2> SUFFICES ASSUME NEW k \in Cands
               PROVE  0 <= NumSteps /\ lut0 = At(errs, lut0, seeds[k], L[k])[0]
    BY <1>7 DEF InLockstep
  <2>1. errs \in Landscapes /\ lut0 \in LUT /\ seeds[k] \in SeedTable /\ L[k] \in 1..MaxL
    BY <1>2 DEF Init
  <2> QED
    BY <2>1, SearchSteps, SearchAssumption
<1> QED
  BY <1>5, <1>6, <1>8, <1>9 DEF IInv

LEMMA NextTypeOK == IInv /\ [Next]_vars => TypeOK'
<1> SUFFICES ASSUME IInv, [Next]_vars PROVE TypeOK'
  OBVIOUS
<1> TypeOK
  BY DEF IInv
<1> USE DEF TypeOK, PCs, cand
<1>1. CASE Interrupt \/ Return
  BY <1>1 DEF Interrupt, Return
<1>2. ASSUME NEW k \in Cands, Snapshot(k) PROVE prev' \in [Cands -> LUT] /\ n' \in Cands
      /\ i' \in 0..MaxL /\ i' <= L[n']
  <2>1. 0 <= L[k] /\ 0 \in 0..MaxL
    BY SearchAssumption
  <2> QED
    BY <1>2, <2>1 DEF Snapshot
<1>3. CASE BeginStep
  <2>1. 1 \in Cands
    BY CohortAssumption DEF Cands
  <2> QED
    BY <1>2, <1>3, <2>1 DEF BeginStep
<1>4. CASE MutateOne
  <2>1. s + 1 \in 1..NumSteps /\ i + 1 \in 1..MaxL /\ i + 1 <= L[n] /\ i + 1 \in 0..MaxL
    BY <1>4, SearchAssumption DEF MutateOne
  <2>2. seeds[n][s + 1][i + 1] \in Mutation
    <3>1. seeds[n] \in [1..NumSteps -> [1..MaxL -> Mutation]]
      BY DEF SeedTable
    <3>2. seeds[n][s + 1] \in [1..MaxL -> Mutation]
      BY <2>1, <3>1
    <3> QED
      BY <2>1, <3>2
  <2>3. Mutate(lut[n], seeds[n][s + 1][i + 1]) \in LUT
    BY <2>2, MutateType
  <2> QED
    BY <1>4, <2>1, <2>3 DEF MutateOne
<1>5. CASE CopyLut
  <2>1. luts' \in [Cands -> LUT]
    BY <1>5 DEF CopyLut
  <2>2. CASE n < Cohort
    <3>1. n + 1 \in Cands
      BY <2>2, CohortAssumption DEF Cands
    <3> QED
      BY <1>2, <1>5, <2>1, <2>2, <3>1 DEF CopyLut
  <2>3. CASE ~ (n < Cohort)
    BY <1>5, <2>1, <2>3 DEF CopyLut
  <2> QED
    BY <2>2, <2>3
<1>6. CASE Dispatch
  <2>1. \A k \in Cands : errs[luts[k]] \in Scores
    BY ScoreType
  <2>2. 1 \in Cands
    BY CohortAssumption DEF Cands
  <2> QED
    BY <1>6, <2>1, <2>2 DEF Dispatch
<1>7. CASE DispatchFails
  BY <1>7 DEF DispatchFails
<1>8. CASE AcceptOrRollback
  <2>1. cur' \in [Cands -> Scores] /\ lut' \in [Cands -> LUT]
    BY <1>8 DEF AcceptOrRollback
  <2>2. best' \in [Cands -> Scores]
    BY <1>8, <2>1 DEF AcceptOrRollback, Lower
  <2>3. n' \in Cands /\ s' \in 0..NumSteps /\ pc' \in {"accept", "test"}
        /\ (pc' = "accept" => s' = s)
    <3>1. n < Cohort => n + 1 \in Cands
      BY CohortAssumption DEF Cands
    <3>2. s + 1 \in 0..NumSteps
      BY <1>8, SearchAssumption DEF AcceptOrRollback
    <3> QED
      BY <1>8, <3>1, <3>2 DEF AcceptOrRollback
  <2>4. UNCHANGED <<errs, lut0, seeds, L, prev, luts, r, i>> /\ s < NumSteps
    BY <1>8 DEF AcceptOrRollback
  <2> QED
    BY <2>1, <2>2, <2>3, <2>4
<1>9. CASE UNCHANGED vars
  BY <1>9 DEF vars
<1> QED
  BY <1>1, <1>3, <1>4, <1>5, <1>6, <1>7, <1>8, <1>9 DEF Next

LEMMA NextBuffers == IInv /\ [Next]_vars => BuffersInStep'
<1> SUFFICES ASSUME IInv, [Next]_vars PROVE BuffersInStep'
  OBVIOUS
<1> TypeOK /\ BuffersInStep
  BY DEF IInv
<1> USE DEF BuffersInStep, Tried, cand
<1>1. CASE Interrupt \/ Return \/ DispatchFails
  BY <1>1 DEF Interrupt, Return, DispatchFails
<1>2. CASE BeginStep
  <2>1. 1 \in Cands /\ \A k \in Cands : ~ (k < 1)
    BY CohortAssumption DEF Cands
  <2>2. n' = 1 /\ i' = 0 /\ prev'[1] = lut[1] /\ lut' = lut /\ pc' = "mutate"
    BY <1>2, <2>1 DEF BeginStep, Snapshot, TypeOK
  <2>3. lut'[n'] = Mutated(prev'[n'], seeds'[n'][s' + 1], i')
    BY <2>2, MutatedStep
  <2> QED
    BY <2>1, <2>2, <2>3
<1>3. CASE MutateOne
  <2>1. lut'[n] = Mutate(lut[n], seeds[n][s + 1][i + 1]) /\ \A k \in Cands : k # n => lut'[k] = lut[k]
    BY <1>3 DEF MutateOne, TypeOK
  <2>2. i \in Nat
    BY SearchAssumption DEF TypeOK
  <2>3. lut'[n] = Mutated(prev[n], seeds[n][s + 1], i + 1)
    BY <1>3, <2>1, <2>2, MutatedStep DEF MutateOne
  <2>4. \A k \in Cands : k < n => k # n
    BY DEF TypeOK, Cands
  <2> QED
    BY <1>3, <2>1, <2>3, <2>4 DEF MutateOne
<1>4. CASE CopyLut
  <2>1. luts'[n] = lut[n] /\ \A k \in Cands : k # n => luts'[k] = luts[k]
    BY <1>4 DEF CopyLut, TypeOK
  <2>2. lut[n] = Tried(n) /\ lut' = lut /\ pc = "mutate" /\ UNCHANGED <<seeds, L, s>>
    BY <1>4 DEF CopyLut
  <2>3. n \in Cands /\ \A k \in Cands : k \in 1..Cohort
    BY DEF TypeOK, Cands
  <2>4. CASE n < Cohort
    <3>1. n + 1 \in Cands /\ n' = n + 1 /\ i' = 0 /\ pc' = "mutate"
          /\ prev'[n + 1] = lut[n + 1]
          /\ \A k \in Cands : k # n + 1 => prev'[k] = prev[k]
      BY <1>4, <2>3, <2>4, CohortAssumption DEF CopyLut, Snapshot, TypeOK, Cands
    <3>2. lut'[n'] = Mutated(prev'[n'], seeds'[n'][s' + 1], i')
      BY <2>2, <3>1, MutatedStep
    <3>3. \A k \in Cands : k < n + 1 => k # n + 1 /\ (k = n \/ k < n)
      BY <2>3, CohortAssumption
    <3> QED
      BY <2>1, <2>2, <3>1, <3>2, <3>3
  <2>5. CASE ~ (n < Cohort)
    <3>1. pc' = "dispatch" /\ prev' = prev
      BY <1>4, <2>5 DEF CopyLut
    <3>2. \A k \in Cands : k = n \/ k < n
      BY <2>3, <2>5, CohortAssumption
    <3> QED
      BY <2>1, <2>2, <3>1, <3>2
  <2> QED
    BY <2>4, <2>5
<1>5. CASE Dispatch
  BY <1>5 DEF Dispatch
<1>6. CASE AcceptOrRollback
  <2>1. CASE n < Cohort
    <3>1. n' = n + 1 /\ pc' = "accept" /\ s' = s
      BY <1>6, <2>1 DEF AcceptOrRollback
    <3>2. \A k \in Cands : k >= n + 1 => k >= n /\ k # n
      BY CohortAssumption DEF TypeOK, Cands
    <3>3. \A k \in Cands : k # n => lut'[k] = lut[k]
      BY <1>6 DEF AcceptOrRollback, TypeOK
    <3> QED
      BY <1>6, <3>1, <3>2, <3>3 DEF AcceptOrRollback
  <2>2. CASE ~ (n < Cohort)
    BY <1>6, <2>2 DEF AcceptOrRollback
  <2> QED
    BY <2>1, <2>2
<1>7. CASE UNCHANGED vars
  BY <1>7 DEF vars
<1> QED
  BY <1>1, <1>2, <1>3, <1>4, <1>5, <1>6, <1>7 DEF Next

-----------------------------------------------------------------------------
(* What a step does to a candidate's search.                                  *)

\* A step that is not a decision leaves every search where it is: tables are mutated,
\* copied and scored behind a snapshot.
LEMMA OthersUnmoved ==
  ASSUME IInv, [Next]_vars, ~ AcceptOrRollback, NEW k \in Cands
  PROVE  Unmoved(k)
<1> TypeOK
  BY DEF IInv
<1> USE DEF Unmoved, Standing, InStep, StepsDone, cand
<1>1. k \in 1..Cohort /\ n \in 1..Cohort /\ Cohort \in Nat \ {0}
  BY CohortAssumption DEF TypeOK, Cands
<1>2. CASE Interrupt
  BY <1>2 DEF Interrupt
<1>3. CASE BeginStep
  <2>1. k <= 1 => prev'[k] = lut[k]
    BY <1>1, <1>3 DEF BeginStep, Snapshot, TypeOK
  <2>2. pc = "test" /\ pc' = "mutate" /\ n' = 1 /\ UNCHANGED <<lut, cur, best, s>>
    BY <1>3 DEF BeginStep, Snapshot
  <2> QED
    BY <2>1, <2>2
<1>4. CASE MutateOne
  <2>1. k # n => lut'[k] = lut[k]
    BY <1>4 DEF MutateOne, TypeOK
  <2>2. k = n => k <= n
    BY <1>1
  <2> QED
    BY <1>4, <2>1, <2>2 DEF MutateOne
<1>5. CASE CopyLut
  <2>1. CASE n < Cohort
    <3>1. n' = n + 1 /\ pc' = "mutate" /\ prev' = [prev EXCEPT ![n + 1] = lut[n + 1]]
      BY <1>5, <2>1 DEF CopyLut, Snapshot
    <3>2. prev'[k] = IF k = n + 1 THEN lut[k] ELSE prev[k]
      BY <3>1 DEF TypeOK
    <3>3. k <= n + 1 <=> k <= n \/ k = n + 1
      BY <1>1
    <3>4. k = n + 1 => ~ (k <= n)
      BY <1>1
    <3> QED
      BY <1>5, <3>1, <3>2, <3>3, <3>4 DEF CopyLut
  <2>2. CASE ~ (n < Cohort)
    BY <1>1, <1>5, <2>2 DEF CopyLut
  <2> QED
    BY <2>1, <2>2
<1>6. CASE Dispatch
  BY <1>1, <1>6 DEF Dispatch
<1>7. CASE DispatchFails
  BY <1>7 DEF DispatchFails
<1>8. CASE Return
  BY <1>8 DEF Return
<1>9. CASE UNCHANGED vars
  BY <1>9 DEF vars
<1> QED
  BY <1>2, <1>3, <1>4, <1>5, <1>6, <1>7, <1>8, <1>9 DEF Next

\* A decision is one step of the search of the candidate decided, and of no other.
LEMMA DecisionMoves ==
  ASSUME IInv, AcceptOrRollback, NEW k \in Cands
  PROVE  IF k = n THEN Moved(k) ELSE Unmoved(k)
<1> TypeOK /\ BuffersInStep
  BY DEF IInv
<1>1. k \in 1..Cohort /\ n \in 1..Cohort /\ Cohort \in Nat \ {0} /\ n \in Cands
  BY CohortAssumption DEF TypeOK, Cands
<1>2. pc = "accept" /\ s < NumSteps /\ UNCHANGED <<prev, errs, seeds, L>>
  BY DEF AcceptOrRollback, TypeOK, cand
<1>3. \/ n < Cohort /\ n' = n + 1 /\ pc' = "accept" /\ s' = s
      \/ n = Cohort /\ n' = n /\ pc' = "test" /\ s' = s + 1
  BY <1>1 DEF AcceptOrRollback
<1>4. CASE k # n
  <2>1. lut'[k] = lut[k] /\ cur'[k] = cur[k] /\ best'[k] = best[k]
    BY <1>4 DEF AcceptOrRollback, TypeOK
  <2>2. k >= n <=> k >= n + 1
    BY <1>1, <1>4
  <2>3. k < n <=> k < n + 1
    BY <1>1, <1>4
  <2> QED
    BY <1>1, <1>2, <1>3, <1>4, <2>1, <2>2, <2>3 DEF Unmoved, Standing, InStep, StepsDone
<1>5. CASE k = n
  <2>1. Standing(k) = prev[k] /\ StepsDone(k) = s
    BY <1>1, <1>2, <1>5 DEF Standing, InStep, StepsDone
  <2>2. Standing(k)' = lut'[k] /\ StepsDone(k)' = s + 1
    BY <1>1, <1>3, <1>5 DEF Standing, InStep, StepsDone
  <2>3. lut[k] = Tried(k) /\ r[k] = errs[Tried(k)]
    BY <1>1, <1>2, <1>5 DEF BuffersInStep
  <2>4. CASE Accepts(r[k], cur[k])
    <3>1. lut'[k] = Tried(k) /\ cur'[k] = errs[Tried(k)]
      BY <1>5, <2>3, <2>4 DEF AcceptOrRollback, TypeOK
    <3>2. best'[k] = Lower(cur'[k], best[k])
      BY <1>5 DEF AcceptOrRollback, TypeOK
    <3> QED
      BY <1>2, <1>5, <2>1, <2>2, <2>3, <2>4, <3>1, <3>2 DEF Moved, Tried
  <2>5. CASE ~ Accepts(r[k], cur[k])
    <3>1. lut'[k] = prev[k] /\ cur'[k] = cur[k]
      BY <1>5, <2>5 DEF AcceptOrRollback, TypeOK
    <3>2. best'[k] = Lower(cur'[k], best[k])
      BY <1>5 DEF AcceptOrRollback, TypeOK
    <3> QED
      BY <1>2, <1>5, <2>1, <2>2, <2>3, <2>5, <3>1, <3>2 DEF Moved, Tried
  <2> QED
    BY <2>4, <2>5
<1> QED
  BY <1>4, <1>5

LEMMA EachMoves ==
  ASSUME IInv, [Next]_vars, NEW k \in Cands
  PROVE  /\ Moved(k) \/ Unmoved(k)
         /\ UNCHANGED <<errs, lut0, seeds, L>>
<1>1. UNCHANGED <<errs, lut0, seeds, L>>
  BY DEF Next, vars, cand, Interrupt, BeginStep, MutateOne, CopyLut, Dispatch, DispatchFails,
     AcceptOrRollback, Return
<1> QED
  BY <1>1, OthersUnmoved, DecisionMoves

-----------------------------------------------------------------------------
(* The parts of the invariant that speak of the searches follow from that.    *)

\* A table a candidate stands on or tries is a table, with a natural score.
LEMMA TablesOfCandidate ==
  ASSUME TypeOK, NEW k \in Cands, StepsDone(k) < NumSteps
  PROVE  LET tried == Mutated(Standing(k), seeds[k][StepsDone(k) + 1], L[k])
         IN  Standing(k) \in LUT /\ tried \in LUT /\ errs[tried] \in Nat
             /\ errs[Standing(k)] \in Nat /\ StepsDone(k) + 1 \in 1..NumSteps
             /\ StepsDone(k) \in Nat
<1>1. StepsDone(k) \in Nat /\ StepsDone(k) + 1 \in 1..NumSteps
  BY SearchAssumption DEF TypeOK, StepsDone
<1>2. Standing(k) \in LUT
  BY DEF TypeOK, Standing
<1>3. seeds[k][StepsDone(k) + 1] \in [1..MaxL -> Mutation] /\ L[k] \in 0..MaxL
  <2>1. seeds[k] \in [1..NumSteps -> [1..MaxL -> Mutation]] /\ L[k] \in 1..MaxL
    BY DEF TypeOK, SeedTable
  <2> QED
    BY <1>1, <2>1, SearchAssumption
<1>4. Mutated(Standing(k), seeds[k][StepsDone(k) + 1], L[k]) \in LUT
  BY <1>2, <1>3, MutatedType
<1> QED
  BY <1>1, <1>2, <1>4, ScoreType DEF TypeOK

LEMMA NextScores == IInv /\ [Next]_vars => ScoresOfStanding'
<1> SUFFICES ASSUME IInv, [Next]_vars, NEW k \in Cands
             PROVE  cur'[k] = errs'[Standing(k)'] /\ best'[k] = cur'[k]
  BY DEF ScoresOfStanding
<1>1. cur[k] = errs[Standing(k)] /\ best[k] = cur[k] /\ errs' = errs
  BY EachMoves DEF IInv, ScoresOfStanding
<1>2. CASE Unmoved(k)
  BY <1>1, <1>2 DEF Unmoved
<1>3. CASE Moved(k)
  <2> DEFINE tried == Mutated(Standing(k), seeds[k][StepsDone(k) + 1], L[k])
  <2>1. errs[tried] \in Nat /\ errs[Standing(k)] \in Nat
    BY <1>3, TablesOfCandidate DEF Moved, IInv
  <2>2. best'[k] = Lower(cur'[k], best[k])
    BY <1>3 DEF Moved
  <2>3. CASE Accepts(errs[tried], cur[k])
    <3>1. Standing(k)' = tried /\ cur'[k] = errs[tried]
      BY <1>3, <2>3 DEF Moved
    <3> HIDE DEF tried
    <3> QED
      BY <1>1, <2>1, <2>2, <2>3, <3>1 DEF Lower, Accepts
  <2>4. CASE ~ Accepts(errs[tried], cur[k])
    <3>1. Standing(k)' = Standing(k) /\ cur'[k] = cur[k]
      BY <1>3, <2>4 DEF Moved
    <3> QED
      BY <1>1, <2>1, <2>2, <3>1 DEF Lower
  <2> QED
    BY <2>3, <2>4
<1> QED
  BY <1>2, <1>3, EachMoves

LEMMA NextLockstep == IInv /\ [Next]_vars => InLockstep'
<1> SUFFICES ASSUME IInv, [Next]_vars, NEW k \in Cands
             PROVE  /\ StepsDone(k)' <= NumSteps
                    /\ Standing(k)' = At(errs', lut0', seeds'[k], L'[k])[StepsDone(k)']
  BY DEF InLockstep
<1> DEFINE at == At(errs, lut0, seeds[k], L[k])
<1>1. UNCHANGED <<errs, lut0, seeds, L>>
  BY EachMoves
<1>2. StepsDone(k) <= NumSteps /\ Standing(k) = at[StepsDone(k)]
      /\ cur[k] = errs[Standing(k)]
  BY DEF IInv, InLockstep, ScoresOfStanding
<1>3. at' = at
  BY <1>1
<1>4. CASE Unmoved(k)
  <2>1. StepsDone(k)' = StepsDone(k) /\ Standing(k)' = Standing(k)
    BY <1>4 DEF Unmoved
  <2> QED
    BY <1>1, <1>2, <2>1
<1>5. CASE Moved(k)
  <2> DEFINE tried == Mutated(Standing(k), seeds[k][StepsDone(k) + 1], L[k])
  <2>1. StepsDone(k) < NumSteps /\ StepsDone(k)' = StepsDone(k) + 1
    BY <1>5 DEF Moved
  <2>2. StepsDone(k) + 1 \in 1..NumSteps /\ StepsDone(k) \in Nat
    BY <2>1, TablesOfCandidate DEF IInv
  <2>3. errs \in Landscapes /\ lut0 \in LUT /\ seeds[k] \in SeedTable /\ L[k] \in 1..MaxL
    BY DEF IInv, TypeOK
  <2>4. at[StepsDone(k) + 1] = NextTable(errs, at[StepsDone(k)], seeds[k][StepsDone(k) + 1], L[k])
    <3>1. (StepsDone(k) + 1) - 1 = StepsDone(k)
      BY <2>2
    <3>2. \A j \in 1..NumSteps : at[j] = NextTable(errs, at[j - 1], seeds[k][j], L[k])
      BY <2>3, SearchSteps
    <3> HIDE DEF at
    <3> QED
      BY <2>2, <3>1, <3>2
  <2>5. Standing(k)' = NextTable(errs, Standing(k), seeds[k][StepsDone(k) + 1], L[k])
    BY <1>2, <1>5 DEF Moved, NextTable
  <2>6. StepsDone(k) + 1 <= NumSteps
    BY <2>2, SearchAssumption
  <2> HIDE DEF at
  <2>7. Standing(k)' = at[StepsDone(k)']
    BY <1>2, <2>1, <2>4, <2>5
  <2> QED
    BY <1>1, <2>1, <2>6, <2>7 DEF at
<1> QED
  BY <1>4, <1>5, EachMoves

LEMMA NextReported == IInv /\ [Next]_vars => Reported'
BY DEF IInv, Reported, Next, vars, cand, Interrupt, BeginStep, MutateOne, CopyLut, Dispatch,
   DispatchFails, AcceptOrRollback, Return

LEMMA NextIInv == IInv /\ [Next]_vars => IInv'
BY NextTypeOK, NextBuffers, NextScores, NextLockstep, NextReported DEF IInv

THEOREM SpecIInv == Spec => []IInv
BY InitIInv, NextIInv, PTL DEF Spec

LEMMA ReportSound == IInv => ReportIsSound
<1> SUFFICES ASSUME IInv, pc = "returned", NEW k \in Cands
             PROVE  /\ bestOut[k] >= FullClimb(errs, lut0, seeds[k], L[k])
                    /\ s = NumSteps => bestOut[k] = FullClimb(errs, lut0, seeds[k], L[k])
  BY DEF ReportIsSound
<1> DEFINE at == At(errs, lut0, seeds[k], L[k])
<1>1. errs \in Landscapes /\ lut0 \in LUT /\ seeds[k] \in SeedTable /\ L[k] \in 1..MaxL
      /\ s \in 0..NumSteps
  BY DEF IInv, TypeOK
<1>2. StepsDone(k) = s
  BY DEF StepsDone
<1>3. bestOut[k] = errs[at[s]]
  BY <1>2 DEF IInv, Reported, ScoresOfStanding, InLockstep
<1>4. FullClimb(errs, lut0, seeds[k], L[k]) <= errs[at[s]]
  BY <1>1, FullClimbLowest
<1>5. FullClimb(errs, lut0, seeds[k], L[k]) = errs[at[NumSteps]]
  BY FullClimbIs
<1>6. errs[at[s]] \in Nat /\ errs[at[NumSteps]] \in Nat
  <2>1. at[s] \in LUT /\ at[NumSteps] \in LUT
    BY <1>1, SearchSteps, SearchAssumption
  <2> QED
    BY <1>1, <2>1, ScoreType
<1> HIDE DEF at
<1> QED
  BY <1>3, <1>4, <1>5, <1>6

\* What a cohort reports is never better than the full search of the nonce, so that no
\* share it leads to is refused; and it is that search's score if nothing cut it short.
THEOREM SpecReportIsSound == Spec => []ReportIsSound
BY SpecIInv, ReportSound, PTL

-----------------------------------------------------------------------------
(* The refinement: what moves a candidate is a step of its abstract search.   *)

LEMMA InitOfSearch == ASSUME Init, NEW k \in Cands PROVE Search(k)!Init
BY DEF Init, Search!Init, ClampL, Search!ClampL, LUT, Search!LUT, Trit, Search!Trit,
   InStep, StepsDone

LEMMA StepOfSearch ==
  ASSUME IInv, [Next]_vars, NEW k \in Cands
  PROVE  Search(k)!Step \/ UNCHANGED Search(k)!vars
<1>1. UNCHANGED <<errs, lut0, seeds[k], L[k]>>
  BY EachMoves
<1>2. CASE Unmoved(k)
  BY <1>1, <1>2 DEF Unmoved, Standing, Search!vars
<1>3. CASE Moved(k)
  <2> DEFINE tried == Mutated(Standing(k), seeds[k][StepsDone(k) + 1], L[k])
  <2>1. Search(k)!Mutated(Standing(k), seeds[k][StepsDone(k) + 1], L[k]) = tried
    BY DEF Search!Mutated, Mutated, Search!Mutate, Mutate
  <2>2. Search(k)!Accepts(errs[tried], cur[k]) <=> Accepts(errs[tried], cur[k])
    BY DEF Search!Accepts, Accepts
  <2>3. best'[k] = Search(k)!Lower(cur'[k], best[k])
    BY <1>3 DEF Moved, Lower, Search!Lower
  <2>4. StepsDone(k) < NumSteps /\ StepsDone(k)' = StepsDone(k) + 1
    BY <1>3 DEF Moved
  <2>5. IF Accepts(errs[tried], cur[k])
        THEN Standing(k)' = tried /\ cur'[k] = errs[tried]
        ELSE UNCHANGED <<Standing(k), cur[k]>>
    BY <1>3 DEF Moved
  <2> HIDE DEF tried
  <2> QED
    BY <1>1, <2>1, <2>2, <2>3, <2>4, <2>5 DEF Search!Step, Standing
<1> QED
  BY <1>2, <1>3, EachMoves

\* Every candidate of a cohort performs the abstract search of its own nonce, step by
\* step, for every size of the cohort: batching, shared buffers, interruptions and failed
\* dispatches never show in it.
THEOREM SpecImplementsClimb == Spec => ImplementsClimb
<1>1. Init => \A k \in Cands : Search(k)!Init
  BY InitOfSearch
<1>2. IInv /\ [Next]_vars
        => [\A k \in Cands : Search(k)!Step \/ UNCHANGED Search(k)!vars]_vars
  BY StepOfSearch
<1> QED
  BY <1>1, <1>2, SpecIInv, PTL DEF Spec, ImplementsClimb
=============================================================================
