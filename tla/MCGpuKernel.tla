----------------------------- MODULE MCGpuKernel -----------------------------
(* Three neurons: input, output and signal, so two rows to stage; three      *)
(* windows in threadgroups of two threads, the last one half used.           *)
EXTENDS GpuKernel

CONSTANTS in, out1, sig

MCTgSizes == <<4, 2, 1>>
MCNeighbours ==
  [n \in Neurons |-> [k \in 0..2 |-> IF k = 0 THEN in ELSE IF k = 1 THEN out1 ELSE sig]]
MCInputs  == [t \in Samples |-> [i \in InputNeurons |-> (t + (t \div 3)) % 2]]
MCOutputs == [t \in Samples |-> IF t = 3 THEN 1 ELSE 0]

Row(a, b, c, d) == [x \in 0..26 |-> (a * (x % 3) + b * ((x \div 3) % 3) + c * (x \div 9) + d) % 3]
Table(output, signal) == [n \in Updated |-> IF n = sig THEN signal ELSE output]

\* Two windows wrong and one right; one that does not settle, one wrong, one right.
MCLuts ==
  { Table(Row(0, 0, 1, 0), Row(1, 0, 0, 0)),
    Table(Row(0, 0, 1, 1), Row(2, 1, 1, 1)) }
=============================================================================
