------------------------------ MODULE TaskLoader ------------------------------
(***************************************************************************)
(* Who reads the task file, and when: the harness loads it at start, makes *)
(* kernel and buffers for the GPU from it, and loads it again whenever a   *)
(* job brings another seed.  A load opens the file three times, for the    *)
(* header and for each block, while somebody may be writing a new one in   *)
(* its place.  (The hash the driver takes of it is left out.)              *)
(*                                                                         *)
(* Only a load that succeeds goes on; after one that fails the process     *)
(* ends, so what it left behind matters to nobody.                         *)
(***************************************************************************)
EXTENDS TaskFile

CONSTANTS
  Tasks,          \* [topology, inputs, outputs] records
  OtherFiles,     \* files that are of no task, with consistent hashes but to be refused
  WindowWidth,
  MaxOverwrites   \* bound: times the file is replaced

Files == {FileOf(t) : t \in Tasks} \cup OtherFiles

ASSUME LoaderAssumption ==
  /\ Tasks # {} /\ WindowWidth \in Nat /\ WindowWidth < NumPairs
  /\ MaxOverwrites \in Nat

\* A task has the dimensions of the miner; what is wrong with another file shows in its
\* header, its topology or its bytes.
ASSUME FilesAssumption ==
  /\ \A t \in Tasks :
       /\ t.topology \in [input : [1..NumInputTrits -> Neurons],
                           output : [1..NumOutputTrits -> Neurons], signal : Neurons,
                           neighbors : [1..(Population * NumNeighbors) -> Neurons]]
       /\ t.inputs \in [Pairs -> [1..NumInputTrits -> Trit]]
       /\ t.outputs \in [Pairs -> [1..NumOutputTrits -> Trit]]
  /\ \A f \in OtherFiles :
       /\ f.header.topologyHash = f.topoBlock /\ f.header.dataHash = f.dataBlock
       /\ \/ f.header.dims # Dimensions
          \/ ~ValidTopology(ParseTopologyBlock(f.topoBlock))
          \/ Malformed(f.dataBlock)

VARIABLES
  disk,         \* the file being there, and how many of its three parts are written
  overwrites,   \* times it was replaced
  pc,           \* the main thread of the harness
  header,
  topology, inputs, outputs, neuronTypes, updatedNeuronIndices,   \* the Miner object
  gpu           \* what the kernel and the static buffers were made from

minerVars == <<topology, inputs, outputs, neuronTypes, updatedNeuronIndices>>
loaderVars == <<disk, overwrites, pc, header, minerVars, gpu>>

None == [none |-> TRUE]
Zeros(n) == [i \in 1..n |-> 0]

LoaderInit ==
  /\ \E t \in Tasks : disk = [file |-> FileOf(t), written |-> 3]
  /\ overwrites = 0
  /\ pc = "header" /\ header = None
  /\ topology = [input |-> Zeros(NumInputTrits), output |-> Zeros(NumOutputTrits),
                 signal |-> 0, neighbors |-> Zeros(Population * NumNeighbors)]
  /\ inputs = [p \in Pairs |-> Zeros(NumInputTrits)]
  /\ outputs = [p \in Pairs |-> Zeros(NumOutputTrits)]
  /\ neuronTypes = [n \in Neurons |-> "input"]   \* make_unique: all zero
  /\ updatedNeuronIndices = <<>>
  /\ gpu = None

-----------------------------------------------------------------------------
(* Writing a file in place: truncate, then header, topology, data.         *)

Truncate ==
  /\ overwrites < MaxOverwrites
  /\ \E f \in Files : disk' = [file |-> f, written |-> 0]
  /\ overwrites' = overwrites + 1
  /\ UNCHANGED <<pc, header, minerVars, gpu>>

WritePart ==
  /\ disk.written < 3
  /\ disk' = [disk EXCEPT !.written = @ + 1]
  /\ UNCHANGED <<overwrites, pc, header, minerVars, gpu>>

-----------------------------------------------------------------------------
ReadHeader ==
  /\ pc = "header"
  /\ disk.written >= 1 /\ disk.file.header.dims = Dimensions
  /\ header' = disk.file.header
  /\ pc' = "topology"
  /\ UNCHANGED <<disk, overwrites, minerVars, gpu>>

TopologyAsHashed == disk.written >= 2 /\ disk.file.topoBlock = header.topologyHash

\* Parsed first, checked then.
ReadTopology ==
  /\ pc = "topology" /\ TopologyAsHashed
  /\ topology' = ParseTopologyBlock(disk.file.topoBlock)
  /\ pc' = IF ValidTopology(topology') THEN "data" ELSE "failed"
  /\ UNCHANGED <<disk, overwrites, header, inputs, outputs,
                 neuronTypes, updatedNeuronIndices, gpu>>

\* Mutant: the hash of the data block is not compared.
DataAsHashedUnchecked == disk.written >= 3

DataAsHashed == disk.written >= 3 /\ disk.file.dataBlock = header.dataHash

\* Mutant: the types are not reset before they are assigned.
DeriveNeuronRolesInPlace ==
  /\ neuronTypes' = [n \in Neurons |-> IF NeuronTypes(topology)[n] = "evolution"
                                       THEN neuronTypes[n] ELSE NeuronTypes(topology)[n]]
  /\ updatedNeuronIndices' = UpdatedNeurons(neuronTypes')

DeriveNeuronRoles ==
  /\ neuronTypes' = NeuronTypes(topology)
  /\ updatedNeuronIndices' = UpdatedNeurons(neuronTypes')

\* The last read; the GPU part is made after the first load only.
ReadData ==
  /\ pc = "data" /\ DataAsHashed /\ ~Malformed(disk.file.dataBlock)
  /\ inputs' = UnpackInputs(disk.file.dataBlock)
  /\ outputs' = UnpackOutputs(disk.file.dataBlock)
  /\ DeriveNeuronRoles
  /\ pc' = IF gpu = None THEN "gpu" ELSE "mining"
  /\ UNCHANGED <<disk, overwrites, header, topology, gpu>>

LoadFails ==
  /\ \/ pc = "header" /\ ~(disk.written >= 1 /\ disk.file.header.dims = Dimensions)
     \/ pc = "topology" /\ ~TopologyAsHashed
     \/ pc = "data" /\ ~(DataAsHashed /\ ~Malformed(disk.file.dataBlock))
  /\ pc' = "failed"
  /\ UNCHANGED <<disk, overwrites, header, minerVars, gpu>>

\* generateMSL and the static buffers: one kernel row per updated neuron with the
\* neurons it reads, the samples by neuron, the expected output of every window.
GpuInit ==
  /\ pc = "gpu"
  /\ gpu' =
       [ wires  |-> [k \in DOMAIN updatedNeuronIndices |->
                       LET n == updatedNeuronIndices[k]
                       IN  SubSeq(topology.neighbors, n * NumNeighbors + 1, (n + 1) * NumNeighbors)],
         rows   |-> updatedNeuronIndices,
         signal |-> topology.signal, output |-> topology.output[1],
         feed   |-> [p \in Pairs |->
                       {<<topology.input[i], inputs[p][i]>> : i \in 1..NumInputTrits}],
         expect |-> [w \in 1..(NumPairs - WindowWidth) |-> outputs[w + WindowWidth][1]] ]
  /\ pc' = "mining"
  /\ UNCHANGED <<disk, overwrites, header, minerVars>>

\* A job with another seed: the pool is made anew, and the task loaded again.
Rekey ==
  /\ pc = "mining"
  /\ pc' = "header"
  /\ UNCHANGED <<disk, overwrites, header, minerVars, gpu>>

LoaderNext ==
  \/ Truncate \/ WritePart
  \/ ReadHeader \/ ReadTopology \/ ReadData \/ LoadFails \/ GpuInit \/ Rekey

LoaderSpec == LoaderInit /\ [][LoaderNext]_loaderVars

-----------------------------------------------------------------------------
MinerHas(task) ==
  topology = task.topology /\ inputs = task.inputs /\ outputs = task.outputs

\* Neuron n of the kernel reads, is fed and is graded as in the task.
GpuHas(g, task) ==
  LET t == task.topology
  IN  /\ {g.rows[k] : k \in DOMAIN g.rows} = Neurons \ {t.input[i] : i \in DOMAIN t.input}
      /\ \A k \in DOMAIN g.rows, i \in 1..NumNeighbors :
           g.wires[k][i] = t.neighbors[g.rows[k] * NumNeighbors + i]
      /\ g.signal = t.signal /\ g.output = t.output[1]
      /\ \A p \in Pairs, i \in DOMAIN t.input : <<t.input[i], task.inputs[p][i]>> \in g.feed[p]
      /\ \A p \in (WindowWidth + 1)..NumPairs : g.expect[p - WindowWidth] = task.outputs[p][1]

\* However the file is replaced during a load or between two, the miner works with
\* what the author of one task meant, parts of two never mix; and so does the GPU.
LoadedIsOneTask ==
  /\ pc \in {"gpu", "mining"} => \E task \in Tasks : MinerHas(task)
  /\ gpu # None => \E task \in Tasks : GpuHas(gpu, task)

\* After any number of loads every neuron has the role of the last topology: the
\* inputs are not updated, all others are, the output and the signal among them,
\* each once and in ascending order, the order the kernel's rows and the mutations
\* both count in.
RolesFitTopology ==
  pc \in {"gpu", "mining"} =>
    /\ Len(updatedNeuronIndices) = Population - NumInputTrits
    /\ \A j, k \in DOMAIN updatedNeuronIndices :
         j < k => updatedNeuronIndices[j] < updatedNeuronIndices[k]
    /\ \A i \in DOMAIN topology.input : neuronTypes[topology.input[i]] = "input"
    /\ {topology.output[1], topology.signal} \subseteq
         {updatedNeuronIndices[k] : k \in DOMAIN updatedNeuronIndices}

=============================================================================
