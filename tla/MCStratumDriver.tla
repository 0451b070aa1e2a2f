--------------------------- MODULE MCStratumDriver ---------------------------
(* Four jobs: a pubkey rotation, another difficulty for the same pubkey, and *)
(* the same job under another task; shares for either pubkey.                *)
EXTENDS StratumDriver

Job(seed, pubkey, d, e, task) ==
  [seed |-> seed, pubkey |-> pubkey, difficulty |-> d, epoch |-> e, task |-> task]

MCJobSeq == << Job("s1", "pA", 1, 7, "t1"), Job("s1", "pB", 1, 7, "t1"),
               Job("s1", "pB", 2, 7, "t1"), Job("s1", "pB", 2, 8, "t2") >>

MCShares == { [pubkey |-> p, nonce |-> 0] : p \in {"pA", "pB"} }
=============================================================================
