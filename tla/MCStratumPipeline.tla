-------------------------- MODULE MCStratumPipeline --------------------------
(* Two or three jobs, three nonces per pubkey, one share printed at a time. *)
EXTENDS StratumPipeline

MCINF == 9

Job(seed, pubkey, d, e, task) ==
  [seed |-> seed, pubkey |-> pubkey, difficulty |-> d, epoch |-> e, task |-> task]

\* A pubkey rotation and a new epoch with another seed.
Rotation == << Job("s1", "pA", 2, 7, "t1"), Job("s1", "pB", 1, 7, "t1"),
               Job("s2", "pC", 2, 8, "t1") >>

\* The same pubkey is asked for fewer errors.
Harder == << Job("s1", "pA", 2, 7, "t1"), Job("s1", "pA", 1, 7, "t1") >>

\* Initial scores 3; even nonces find 2, nonce 1 finds 1.
MCScore0 == [seed \in Seeds |-> [pubkey \in PubKeys |-> 3]]
MCStepScore ==
  [seed \in Seeds |-> [pubkey \in PubKeys |-> [nonce \in 0..(NonceSpace - 1) |->
     [k \in 1..NumSteps |-> IF pubkey = "pB" /\ nonce = 0 THEN MCINF
                            ELSE IF nonce % 2 = 0 THEN 2 ELSE 1]]]]
=============================================================================
