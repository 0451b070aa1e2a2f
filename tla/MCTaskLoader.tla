----------------------------- MODULE MCTaskLoader -----------------------------
(* Eight neurons, three of them inputs, three samples, two trits to a byte,  *)
(* so that the inputs of a sample fill a byte and a half.                    *)
EXTENDS TaskLoader

Ring(step) == [i \in 1..(Population * NumNeighbors) |->
                 (((i - 1) \div NumNeighbors) + (((i - 1) % NumNeighbors) + 1) * step) % Population]

TopologyA == [input |-> <<5, 0, 2>>, output |-> <<1>>, signal |-> 7, neighbors |-> Ring(1)]
TopologyB == [input |-> <<1, 3, 4>>, output |-> <<6>>, signal |-> 0, neighbors |-> Ring(3)]

InputsA == <<<<0, 1, 2>>, <<2, 2, 1>>, <<1, 0, 0>>>>
InputsB == <<<<1, 1, 0>>, <<0, 2, 2>>, <<2, 0, 1>>>>
OutputsA == <<<<1>>, <<0>>, <<2>>>>
OutputsB == <<<<0>>, <<2>>, <<1>>>>

\* The second differs from the first in its data only.
MCTasks ==
  { [topology |-> TopologyA, inputs |-> InputsA, outputs |-> OutputsA],
    [topology |-> TopologyA, inputs |-> InputsB, outputs |-> OutputsA],
    [topology |-> TopologyB, inputs |-> InputsB, outputs |-> OutputsB] }

DataA == PackDataBlock(InputsA, OutputsA)
TopoA == SerializeTopologyBlock(TopologyA)

\* A signal neuron that is also an input; a byte beyond the limit; other dimensions.
MCOtherFiles ==
  { FileOfBlocks(SerializeTopologyBlock([TopologyA EXCEPT !.signal = 0]), DataA),
    FileOfBlocks(TopoA, [DataA EXCEPT ![2] = ByteLimit]),
    [FileOfBlocks(TopoA, DataA) EXCEPT !.header.dims = <<NumInputTrits + 1>>] }
=============================================================================
