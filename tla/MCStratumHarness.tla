-------------------------- MODULE MCStratumHarness --------------------------
(* Two seeds, two pubkeys, five job lines: a pubkey rotation, a seed change *)
(* with it, a job whose initial table times out under a difficulty that     *)
(* would let INF pass, and a line without difficulty.                       *)
EXTENDS StratumHarness

MCINF == 9

Line(seed, pubkey, d, e) ==
  [seed |-> seed, pubkey |-> pubkey, difficulty |-> d, epoch |-> e]

MCLines == { Line("s1", "pA", 1, 7), Line("s1", "pB", 3, 7),
             Line("s2", "pB", 2, 8), Line("s2", "pA", MCINF, 8),
             Line("s2", "pB", -1, 8) }

\* pA starts at 2 and is improved by most nonces, pB starts at 3; odd nonces time
\* out in their first step, and nonce 3 never improves; (s2, pA) times out initially.
MCScore0 ==
  [seed \in {"s1", "s2"} |-> [pubkey \in {"pA", "pB"} |->
     IF seed = "s2" /\ pubkey = "pA" THEN MCINF ELSE IF pubkey = "pA" THEN 2 ELSE 3]]

MCStepScore ==
  [seed \in {"s1", "s2"} |-> [pubkey \in {"pA", "pB"} |-> [nonce \in Nonces |->
     [k \in 1..NumSteps |->
        IF nonce % 2 = 1 THEN (IF k = 1 THEN MCINF ELSE nonce)
        ELSE IF pubkey = "pA" THEN 3 - k ELSE IF seed = "s1" THEN k + 2 ELSE 2 * k - 1]]]]
=============================================================================
