-------------------------- MODULE MCScoreAgreement --------------------------
(* Six neurons: 1 and 3 inputs (listed as 3, 1), 2 the output, 4 the signal, *)
(* 5 read by the signal, 0 by nobody, input 1 only by 0; five windows of     *)
(* four samples, scored by the node four at a time in two lanes of two.      *)
EXTENDS ScoreAgreement

Trio(a, b, c) == [j \in 0..2 |-> IF j = 0 THEN a ELSE IF j = 1 THEN b ELSE c]

MCNeighbours ==
  [n \in Neurons |->
     CASE n = 2 -> Trio(3, 2, 5) [] n = 4 -> Trio(3, 5, 4) [] n = 5 -> Trio(4, 3, 2)
       [] OTHER -> Trio(1, 4, 0)]

MCInputPosition == [n \in InputNeurons |-> IF n = 3 THEN 0 ELSE 1]

\* Samples and outputs with which the lanes get out of step, by one sample or by
\* more than the byte range, and every score from 0 to 5 and INFINITE_ERROR occurs.
MCInputs ==
  [t \in Samples |-> [i \in InputNeurons |->
     IF i = 3 THEN (IF t \in {0, 4} THEN 2 ELSE IF t = 7 THEN 1 ELSE 0)
              ELSE (IF t \in {0, 4, 5} THEN 2 ELSE IF t \in {1, 7} THEN 1 ELSE 0)]]
MCOutputs == [t \in Samples |-> IF t \in {0, 5} THEN 0 ELSE 1]

\* A row that adds up its three neighbours, weighted, as bytes to be cut to trits.
Row(a, b, c, d) == [x \in 0..26 |-> a * (x % 3) + b * ((x \div 3) % 3) + c * (x \div 9) + d + 252]

Rows2 == {Row(1, 1, 0, 0), Row(0, 1, 2, 1)}
Rows4 == {Row(0, 0, 0, 2), Row(1, 1, 1, 0), Row(1, 2, 0, 1)}
Rows5 == {Row(1, 0, 0, 0), Row(2, 0, 1, 1)}

MCDraws ==
  {[n \in Neurons |-> CASE n = 2 -> r2 [] n = 4 -> r4 [] n = 5 -> r5 [] OTHER -> Row(n, 1, 1, 1)] :
     r2 \in Rows2, r4 \in Rows4, r5 \in Rows5}

\* Lines of the dead neuron, the output and the signal.
MCSeeds == {2 * 3, 2 * (27 + 8) + 1, 2 * (54 + 26) + 1}

MCLuts == UNION {{MinerMutate(MinerRoot(d), s) : s \in MCSeeds} \cup {MinerRoot(d)} : d \in MCDraws}
=============================================================================
