--------------------------- MODULE ScoreAgreement ---------------------------
(***************************************************************************)
(* Miner and node score one nonce's table: the miner neuron by neuron with *)
(* its table by neuron, the node in lanes with its table by position.      *)
(* Both draw the root table from the same random bytes and mutate it by    *)
(* the same seed before they score it.  A share is worth something only if *)
(* the node finds the score the miner found.                               *)
(***************************************************************************)
EXTENDS NodeScore

CONSTANTS
  Draws,      \* the random draws considered: a byte per neuron and line
  MutationSeeds,
  NumLanes2   \* SIMD_LANES of the AVX2 build (32)

ASSUME AgreementAssumption ==
  /\ NumLanes2 \in Nat \ {0}
  /\ Draws \subseteq [Neurons -> [0..26 -> Nat]]
  /\ MutationSeeds \subseteq Nat

VARIABLES
  lut,        \* the miner's currentANN.lut, by neuron
  phase,      \* whose turn it is
  minerPc, window, minerTick, feedCounter, value, next, todo, minerFailures, minerResult,
  pc2, first2, tick2, lane, cur2, nxt2, counter2, predicted2, done2, remaining,
  failures2, result2

minerVars == <<minerPc, window, minerTick, feedCounter, value, next, todo, minerFailures,
               minerResult>>
avx2Vars == <<pc2, first2, tick2, lane, cur2, nxt2, counter2, predicted2, done2, remaining,
              failures2, result2>>
vars == <<lut, phase, minerVars, nodeVars, avx2Vars>>

Miner == INSTANCE WindowScore WITH
  pc <- minerPc, tick <- minerTick, failures <- minerFailures, result <- minerResult

Avx2 == INSTANCE NodeScoreAvx2 WITH
  table <- Table, pc <- pc2, first <- first2, tick <- tick2, cur <- cur2, nxt <- nxt2,
  counter <- counter2, predicted <- predicted2, done <- done2, failures <- failures2,
  result <- result2

-----------------------------------------------------------------------------
(* initializeANN and mutate, on either side.                               *)

MinerRoot(draw) == [n \in Updated |-> [x \in 0..26 |-> draw[n][x] % 3]]

\* Mutant: the draws are taken in the order of the rows.
NodeRootByRow(draw) == [k \in DOMAIN UpdatedAt |-> [x \in 0..26 |-> draw[k][x] % 3]]

NodeRoot(draw) == [k \in DOMAIN UpdatedAt |-> [x \in 0..26 |-> draw[UpdatedAt[k]][x] % 3]]

\* The row position and the line that a seed picks, and the trit it turns.
Flat(seed) == (seed \div 2) % (27 * Cardinality(Updated))
Turned(trit, seed) == (trit + 1 + (seed % 2)) % 3

MinerMutate(table, seed) ==
  [table EXCEPT ![UpdatedAt[Flat(seed) \div 27]][Flat(seed) % 27] = Turned(@, seed)]

NodeMutate(rows, seed) ==
  [rows EXCEPT ![Flat(seed) \div 27][Flat(seed) % 27] = Turned(@, seed)]

\* The tables considered are those that can come out of it.
ASSUME LutsAssumption ==
  \A draw \in Draws : \A seed \in MutationSeeds : MinerMutate(MinerRoot(draw), seed) \in Luts

\* computeBpp9000Score: a timeout becomes the worst score the node's cache can hold.
EngineScore(score) == IF score = INF THEN NumWindows ELSE score

-----------------------------------------------------------------------------
Init ==
  /\ phase = "mutate"
  /\ \E draw \in Draws : lut = MinerRoot(draw) /\ dense = NodeRoot(draw)
  /\ Miner!Init /\ NodeInit /\ Avx2!Init

Mutate ==
  /\ phase = "mutate" /\ phase' = "miner"
  /\ \E seed \in MutationSeeds :
       lut' = MinerMutate(lut, seed) /\ dense' = NodeMutate(dense, seed)
  /\ UNCHANGED <<minerVars, pc, first, tick, cur, nxt, predicted, failures, result, feedVars, avx2Vars>>

MinerScores ==
  /\ phase = "miner"
  /\ Miner!Next
  /\ phase' = IF minerPc' = "done" THEN "node" ELSE phase
  /\ UNCHANGED <<nodeVars, avx2Vars>>

NodeScores ==
  /\ phase = "node"
  /\ NodeNext
  /\ phase' = IF pc' = "done" THEN "avx2" ELSE phase
  /\ UNCHANGED <<lut, minerVars, avx2Vars>>

Avx2Scores ==
  /\ phase = "avx2"
  /\ UNCHANGED <<lut, minerVars, nodeVars>>
  /\ Avx2!Next
  /\ phase' = IF pc2' = "done" THEN "done" ELSE phase

Next == Mutate \/ MinerScores \/ NodeScores \/ Avx2Scores

Spec == Init /\ [][Next]_vars
FairSpec == Spec /\ WF_vars(Next)

-----------------------------------------------------------------------------
\* The miner's array of neurons is, between ticks, the synchronous network of its
\* window, whatever the order in which a tick visits the neurons.
MinerTickIsSynchronous == phase = "miner" => Miner!TickIsSynchronous

\* Miner and both builds of the node find the score of the same table: the number of
\* windows that settle on a wrong output, or INFINITE_ERROR if one never settles.  What
\* the node makes of it meets a difficulty below NumWindows when the miner's score does.
ScoresAgree ==
  phase = "done" =>
    /\ minerResult = ScoreOf(lut) /\ result = minerResult /\ result2 = minerResult
    /\ \A difficulty \in 0..(NumWindows - 1) :
         minerResult <= difficulty <=> EngineScore(result) <= difficulty

\* Every table is scored by all three in finitely many steps, also one that never settles.
Terminates == <>(phase = "done")
=============================================================================
