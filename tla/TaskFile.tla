------------------------------- MODULE TaskFile -------------------------------
(***************************************************************************)
(* The task file of task_file.h: a header with dimensions and the hashes   *)
(* of two blocks, the topology block (indices, flat) and the data block    *)
(* (trits, TritsPerByte to a byte), with what the miner checks and derives *)
(* when it takes one.  A hash is the block itself: collisions are left out.*)
(***************************************************************************)
EXTENDS Numerals, Sequences, FiniteSets

CONSTANTS
  NumInputTrits, NumOutputTrits, NumPairs,   \* N, M, T
  Population, NumNeighbors,                  \* P, K
  TritsPerByte, MaxByte                      \* 5 and 255 in the code

Trit == 0..2
TritBase == 3
ByteLimit == Weight(TritBase, TritsPerByte)
Neurons == 0..(Population - 1)
Pairs == 1..NumPairs

\* The miner's static_asserts; a byte has room for TritsPerByte trits.
ASSUME FormatAssumption ==
  /\ NumInputTrits \in Nat \ {0} /\ NumOutputTrits = 1 /\ NumPairs \in Nat
  /\ Population \in Nat /\ Population > NumInputTrits + NumOutputTrits + 1
  /\ NumNeighbors \in Nat /\ TritsPerByte \in Nat \ {0} /\ MaxByte \in Nat
  /\ ByteLimit <= MaxByte + 1

PackedBytes(tritCount) == (tritCount + (TritsPerByte - 1)) \div TritsPerByte

\* Five trits to a byte, least significant first; the last byte is filled up with zeros.
PackTrits(trits) ==
  LET TritOr0(i) == IF i <= Len(trits) THEN trits[i] ELSE 0
  IN  [b \in 1..PackedBytes(Len(trits)) |->
         Value(TritBase, [k \in 0..(TritsPerByte - 1) |-> TritOr0((b - 1) * TritsPerByte + k + 1)],
               TritsPerByte)]

Malformed(bytes) == \E b \in DOMAIN bytes : bytes[b] >= ByteLimit

\* Of well-formed bytes; whatever fills up the last one is skipped.
UnpackTrits(bytes, count) ==
  [i \in 1..count |->
     (bytes[(i - 1) \div TritsPerByte + 1] \div Weight(TritBase, (i - 1) % TritsPerByte))
       % TritBase]

-----------------------------------------------------------------------------
(* Data block: a row of input bytes and output bytes per pair, row p from   *)
(* byte (p - 1) * RowBytes on.                                              *)

InBytes  == PackedBytes(NumInputTrits)
OutBytes == PackedBytes(NumOutputTrits)
RowBytes == InBytes + OutBytes

PackDataBlock(inputs, outputs) ==
  [b \in 1..(NumPairs * RowBytes) |->
     LET p == ((b - 1) \div RowBytes) + 1
         k == ((b - 1) % RowBytes) + 1
     IN  IF k <= InBytes THEN PackTrits(inputs[p])[k] ELSE PackTrits(outputs[p])[k - InBytes]]

RowIn(block, p)  == SubSeq(block, (p - 1) * RowBytes + 1, (p - 1) * RowBytes + InBytes)
RowOut(block, p) == SubSeq(block, (p - 1) * RowBytes + InBytes + 1, p * RowBytes)

UnpackInputs(block)  == [p \in Pairs |-> UnpackTrits(RowIn(block, p), NumInputTrits)]
UnpackOutputs(block) == [p \in Pairs |-> UnpackTrits(RowOut(block, p), NumOutputTrits)]

-----------------------------------------------------------------------------
(* Topology block: indices of input, output and signal neurons, then the   *)
(* neighbours of neuron 0, of neuron 1, ...                                *)

SerializeTopologyBlock(t) == t.input \o t.output \o <<t.signal>> \o t.neighbors

ParseTopologyBlock(block) ==
  [ input     |-> SubSeq(block, 1, NumInputTrits),
    output    |-> SubSeq(block, NumInputTrits + 1, NumInputTrits + NumOutputTrits),
    signal    |-> block[NumInputTrits + NumOutputTrits + 1],
    neighbors |-> SubSeq(block, NumInputTrits + NumOutputTrits + 2, Len(block)) ]

\* validateTopology: all indices in range, no neuron placed twice.
ValidTopology(t) ==
  LET placed == t.input \o t.output \o <<t.signal>>
  IN  /\ \A i \in DOMAIN placed : placed[i] \in Neurons
      /\ \A i, j \in DOMAIN placed : i # j => placed[i] # placed[j]
      /\ \A i \in DOMAIN t.neighbors : t.neighbors[i] \in Neurons

-----------------------------------------------------------------------------
(* What deriveNeuronRoles makes of a topology.                             *)

NeuronTypes(t) ==
  [n \in Neurons |-> CASE \E i \in DOMAIN t.output : t.output[i] = n -> "output"
                       [] \E i \in DOMAIN t.input : t.input[i] = n -> "input"
                       [] OTHER -> "evolution"]

Ascending(S) ==
  [k \in 1..Cardinality(S) |-> CHOOSE n \in S : Cardinality({m \in S : m < n}) = k - 1]

UpdatedNeurons(types) == Ascending({n \in Neurons : types[n] # "input"})

-----------------------------------------------------------------------------
\* A task as its author has it, and the file made of it (writeTaskFile).
Dimensions == <<NumInputTrits, NumOutputTrits, NumPairs, Population, NumNeighbors>>

FileOfBlocks(topoBlock, dataBlock) ==
  [ header |-> [ dims |-> Dimensions, topologyHash |-> topoBlock, dataHash |-> dataBlock ],
    topoBlock |-> topoBlock, dataBlock |-> dataBlock ]

FileOf(task) == FileOfBlocks(SerializeTopologyBlock(task.topology),
                             PackDataBlock(task.inputs, task.outputs))
=============================================================================
