# Verification of the qubic Apple-silicon miner

TLA+ models of the miner's concurrent and algorithmic parts, TLC runs on small
instances, and proofs checked by TLAPS. Paths are relative to the repository
root; `harness.mm` is `qiner-metal/harness.mm`, `stratum_miner.mjs` is
`scripts/stratum_miner.mjs`, `score_bpp9000.h` is `qiner-macos/src/score_bpp9000.h`;
`node/` stands for `docs/reference/qubic-core-mining/`, the mining headers of the node
that the repository keeps as its reference.

## 1. The system

| Component | State it keeps | Operations | Talks to |
|---|---|---|---|
| Stratum driver (`stratum_miner.mjs`) | WebSocket, current job, `taskMatches`, dedupe key, time of last job, unparsed miner output | socket open, message, close; push job, idle job; share: check and submit; watchdog; redial timer; SIGINT; miner exit | pool (WebSocket), harness (stdin, stdout) |
| Metal harness, stratum mode (`harness.mm` 310-375, 722-813) | `g_job`, `g_gen`, `g_stop` shared by two threads; current seed, pubkey, difficulty, initial table and score, nonce counter | reader: parse a line, end of input; main loop: take the job, re-key, rebuild and score the initial table, grind a cohort, print shares, stop | driver, cohort search |
| Cohort search (`harness.mm` 377-481) | per candidate: table, snapshot, current and best score; dispatch buffers | mutate, dispatch, accept or roll back, abandon | GPU scorer, `g_gen`, `g_stop` |
| GPU scorer and kernel (`harness.mm` 81-287, `kernel.metal`) | table buffer, result slots, threadgroup memory, threads | compile with fallback, dispatch, stage, barrier, windows, reduce, read back | GPU |
| CPU search (`score_bpp9000.h` 386-502) | current, previous, best network; scores | initialise, mutate, score, accept or roll back | CPU scorer |
| CPU scorer (`score_bpp9000.h` 295-383) | neuron values, feed counter, tick, failures | window, feed, tick, grade | task data |
| Qiner solo miner (`qiner-macos/src/Qiner.cpp`) | `state`, `foundNonce` queue and its lock | threads: load, draw, evaluate, push; main: peek, connect, send, pop, sleep, join; Ctrl-C | node (TCP) |
| Task loading (`task_file.h`, `qiner-metal/src/score_bpp9000_ref.h` 92-247, `harness.mm` 81-230) | header read, topology, inputs, outputs, roles; kernel and buffers made of them | pack, unpack, validate, derive roles, load, load again on another seed | task file, CPU and GPU scorers |
| Node's scorer (`node/score_bpp9000.h`, `node/score_engine.h`) | per batch: two planes of lanes, bases, bytes and words of positions, flags; failures | draw, mutate, derive the cone, batch, tick, feed, rebase, grade | miner (same nonce, same score) |
| Node's mining storage (`node/custom_qubic_mining_storage.h`) | ring of tasks with their solution sets; array of oracle queries | add task, add and count a solution, add, start, fail, answer, move, remove and list queries | miners' solutions, oracle machine |
| Node's share counting (`node/mining.h`) | this node's counts, everyone's totals; counters of phase and epoch | pack, validate, unpack and add a report; save, load; count, close a phase | other computors (transactions) |
| Random generator (`score_common.h`), keys and hashing (`keyUtils.cpp`, `K12AndKeyUtil.h`) | none | pure functions | all |
| Probes, scripts, benchmarks, tests, vendored code | none of their own | one-shot | |

What is hard here:

- **A share is computed under one job and submitted under another.** Between the
  pool's job message and a share's submission lie two processes, two pipes, two
  threads and a search of minutes; every place in between has a copy of the job.
- **Two threads, one lock, one unlocked read.** The main loop copies job and
  generation under the lock; the cohort reads the generation again without it.
- **Failure in the middle.** A GPU dispatch may be killed by the system, a send may
  fail half-way, a socket may close or stay silent, either process may go away.
- **Batching must be invisible.** The GPU searches several nonces in lockstep over
  shared buffers; the pool repeats each search alone, on a CPU.
- **Rollback.** Table and score are changed and restored in separate statements.
- **A file read in pieces, and again later.** The task file is opened three times for a
  load, loaded again on another seed, hashed once by the driver, and downloaded in place.
- **One score, three programs.** The miner scores neuron by neuron, the node in lanes
  over renumbered neurons with positions squeezed into bytes; one difference in the
  order of draws, in a neuron left out or in a saturated byte makes shares worthless.
- **Reused places.** The node's ring overwrites its oldest task, its query array takes
  any free place, ids are looked up after the query they named was tried again.
- **Synchronous ticks, tick limits.** The value of every neuron, and the tick at
  which a window settles, decide the score bit by bit.

What makes each part correct: the driver submits only what the current task and job
allow, never loses its connection for good, and tells the miner every job that
matters; the harness computes each share with one job's parts only; both searches
are the same abstract search; both scorers compute the same reference score; a load
takes one whole task or none, and the roles of its neurons; the solo miner hands over each solution once and keeps trying; the
node finds the miner's score, keeps one account per active task, counts an answer of the
oracle machine once, overlooks no query that is due, and adds up what others reported.

## 2. Modules

| Module | Models | Kind |
|---|---|---|
| `AnnSearch` | tables, mutation, clamp, accept rule; the whole search as a function | data and reference |
| `Climb` | one step of the search: table, score, best | abstract specification |
| `HillClimb` | `computeScore`, statement by statement | implements `Climb` |
| `CohortClimb` | `runCohortGPU`: candidates in lockstep, interruption, failed dispatch | each candidate implements `Climb` |
| `CohortClimbProofs` | `CohortClimb` | proofs |
| `TernaryNet` | the network, the score of a table as a function | data and reference |
| `WindowScore` | the miner's `score` and `processTick`, neuron by neuron | part of `ScoreAgreement` |
| `NodeFeed` | the node's tracking of which sample each lane is due: bytes, base, words | |
| `NodeScore` | the node's AVX-512 scorer: cone, rows, planes, batches, grading | extends `NodeFeed` |
| `NodeScoreAvx2` | the node's AVX2 scorer | |
| `ScoreAgreement` | draw and mutate on either side, then all three scorers | checked against `TernaryNet` |
| `ScoreAgreementProofs` | `WindowScore`, `NodeFeed`, `NodeScore`, `NodeScoreAvx2`, `ScoreAgreement` | proofs |
| `GpuKernel` | `GpuScorer` and the kernel: host, threads, barrier, reduction | checked against `TernaryNet` |
| `GpuKernelProofs` | `GpuKernel` | proofs |
| `Numerals` | sums, numbers by digits, or of bytes | pure functions |
| `TaskFile` | the file format, its checks, the roles of the neurons | data and pure functions |
| `TaskLoader` | loads, GPU set-up, replacement of the file | |
| `StratumHarness` | reader thread and main loop | |
| `StratumHarnessProofs` | `StratumHarness` | proofs |
| `StratumDriver` | the driver's callbacks; the pool as it sees it (external) | |
| `StratumDriverProofs` | `StratumDriver` | proofs |
| `ShareContract` | what the miner owes the pool | abstract specification |
| `StratumPipeline` | driver and harness joined by their pipes | implements `ShareContract` |
| `StratumPipelineProofs` | `StratumPipeline`, from the proofs of its two parts | proofs |
| `SolutionOutbox` | what Qiner owes its threads' solutions | abstract specification |
| `QinerQueue` | mining threads, queue, sender, Ctrl-C | implements `SolutionOutbox` |
| `QinerProofs` | `HillClimb`, `QinerQueue` | proofs |
| `TaskLedger` | the node's accounts of its newest tasks | abstract specification |
| `MiningStorage` | the node's ring of tasks, solution sets, oracle queries | implements `TaskLedger` |
| `MiningShares` | ten-bit reports: packing, acceptance, totals, restart | |
| `MiningStats` | counters of phase and epoch | |
| `StorageProofs` | `MiningStorage`, `TaskFile`, `TaskLoader`, `MiningStats`, `MiningShares` | proofs |
| `MC*` | values of the constants for TLC | instances |

How state and actions correspond to the code: `PROJECT.json` names the source lines
of every definition. Variables keep the names of the source (`currentANN`, `g_gen` as
`gGen`, `lastJobKey`, `foundNonce`); `pc` is the position in the function modelled.
An action is one statement group that no other actor can see half done: what is done
under a lock, one callback of the event loop, one thread's step between two accesses
to shared state. Definitions marked `Mutant:` are not part of any specification:
each is a plausible mistake in the definition after it, and substituting it breaks
the property `PROJECT.json` names.

### Choices of abstraction

- **Scores in a search.** The search models take a *landscape*, any function from
  tables to scores; what a score is belongs to the scorer models. The harness model
  goes one step further: a seed, a pubkey and a nonce fix the scores a search sees.
- **Tables, seeds, pubkeys, nonces, tasks** are values of small sets. The `uint32`
  difficulty of a job line is taken modulo `DiffMod`; the nonce counter modulo
  `NonceSpace`.
- **The watchdog's clock** counts its looks since the last job: it closes at the
  fourth, as 30 s looks and a 90 s limit give.
- **Neurons within a tick** are visited in any order in `WindowScore` (ascending in
  the code), so the result is shown not to depend on it. The memory a score starts
  from is stood for by zeros; `StartWindow` overwrites it.
- **A GPU thread** runs its window in one step, as its tick loop touches only its own
  state and the staged rows; a row nobody staged gives any outcome. The lanes of a
  SIMD group that reduce together are any subset of those ready: reconvergence after
  the loop is not assumed. The command
  buffer may fail at any point. The debug buffer and the packing of trits
  in words are left out.
- **The network and the node** may fail at any time; a pool sends what it likes of
  its current job, idle messages included, once it accepted a login. The composition
  leaves the watchdog out: there it is one more way a socket closes.
- **Hashes of a task file** are the block hashed: collisions are left out. A file being
  written is the first parts of the new one (`curl -o` and `writeTaskFile` truncate and
  append); a part half written reads like a missing one. What a failed load leaves in
  memory is not modelled in full, as the process or thread ends with it. The driver's
  hash of the file, taken once at its start, is left out.
- **The node's scorers** run their lanes in one step per tick: a lane touches only its
  own bits of each plane. Which bits carry a trit is left out. The search on the node's
  side is that of `Climb`; one mutation stands for it in `ScoreAgreement`.
- **The node's storage** may be called with anything at any time, each call under its
  lock; ids come from the oracle machine in ascending order. A query asks about the job it was
  added for. Job ids start at 1. One oracle
  interface and one mining type. In the instance solutions, answers and the walk of a tick
  are explored one at a time (`focus`): they meet only in the active tasks and in the
  array, and each is explored with the calls that write what it reads.
- **Share reports** are packed and unpacked bit by bit, at the five-byte period of the
  code. When a report is sent, and which transactions a tick has, is code outside the
  repository: one per tick, from anyone, with or without an amount and the data lock.
- **The five statistics counters** take the same steps and never meet: one stands for
  all.
- **Statistics, log lines, encryption, packet layout** are left out.

## 3. Runs

| Run | Checks | Instance |
|---|---|---|
| `hill_climb` | scores and tables stay together through accept, rollback, best-keeping; the search implements `Climb` | 2 table lines (9 tables), 2 steps, up to 2 mutations, 4 landscapes, every seed table and root, nonce bytes below and above the clamp |
| `cohort_climb` | every candidate implements `Climb`; a reported score is never better than the full search's, and equal if the cohort was finished | 2 candidates, 2 steps, 4 seed tables each, interrupt and failure anywhere |
| `harness` | a cohort runs on one job's set-up; shares are valid and name one job; a published job is taken up; a stop request ends the loop | 2 seeds, 2 pubkeys, 5 kinds of line (one malformed, one whose initial table times out under a difficulty that INF would meet), 3 lines fed, cohort of 2, pipe of 2 |
| `driver` | one socket or one timer; submissions only for the loaded task; a silent connection replaced | 4 jobs: pubkey rotation, difficulty change, task change; one message in flight |
| `pipeline` | the contract, every submission valid for what was asked; the miner follows the pool; no nonce submitted twice; both processes end together | 3 jobs with a pubkey rotation and a seed change, cohort of 1, 3 nonces |
| `pipeline_harder` | violation, see section 6 | 2 jobs that differ in difficulty only |
| `score_agreement` | between ticks planes and arrays are the synchronous network; every lane is shown the sample it is due; miner, AVX-512 and AVX2 build find the reference's score; all of them end | 6 neurons (2 inputs, one of them read only by a dead neuron), 5 windows of 4 samples in two batches, 10 ticks, lanes that saturate and a rebase, 36 tables with every score from 0 to 5 and a timeout |
| `gpu_kernel` | rows staged before use; scores read back are the reference's; a dispatch ends | 2 candidates, 3 windows in groups of 2 threads (the last half used), 2 dispatches, 2 tables: two windows wrong of three, one window timed out |
| `task_loader` | what is loaded, and what the GPU was set up with, is one whole task; the roles fit the topology after any number of loads | 8 neurons, 3 inputs, 3 samples, 2 trits to a byte (the inputs fill a byte and a half); 3 tasks, two of one topology; 3 files to be refused (a neuron placed twice, a byte beyond the limit, other dimensions); 2 replacements |
| `qiner_queue` | the outbox; every solution handed over; Ctrl-C ends the process | 2 threads, 2 solutions each, packets of 2 parts |
| `mining_storage` | targets and data of active tasks as they were sent; the ring is a queue of tasks with an account each; an answer counts once; a walk misses no due query | 3 jobs for 2 places, 6 messages (targets cut at either end, one for a job twice, two refused), 2 solutions for sets of 1; 3 transactions over 2 ticks, 3 ids, 3 tries; bytes of 4 values, targets of 4 bytes |
| `mining_shares` | totals are what the others reported; counters lose only what came while a phase was closed | 5 computors (fields in two groups of five bytes), counts at and beyond ten bits, 6 ticks over the end of a cycle, save and load at any point; 6 events |

Why these bounds are enough for what the runs ask: each hazard of `PROJECT.json`
needs two of something (two jobs, two candidates, two threads of a group, two
dispatches, two solutions, two task files, two batches, a ring that wraps) and an event between two of its steps; the instances have
two or three of each and allow the event between any two steps. Bounds on counters
(`MaxLines`, `MaxDispatches`, `MaxFound`, `MaxOverwrites`, `MaxIds`, `MaxEvents`, `LastTick`, `NonceSpace`, `InboxCap`, `StdinCap`,
`PipeCap`) stand in guards and are named where they are declared. In `pipeline` the
main loop stops starting cohorts when the model's nonces are used up, so that
`FreshSubmissions` is not about the wrap of a 64-bit counter.

`CHECK_DEADLOCK FALSE` is used where the system really stops: a search returns, a
process exits, the bounded environment has nothing left to do.

### Fairness

- `ScoreAgreement`: weak fairness of the sequential programs.
- `StratumHarness`: both threads are scheduled, a dispatch comes back one way or the
  other (`waitUntilCompleted`), and the driver reads the shares.
- `StratumDriver`: timers fire, a socket being opened or closed gets there, queued
  callbacks run. Nothing is assumed of the pool.
- `StratumPipeline`: the threads of the harness, the driver's reading of shares, its
  exit once due.
- `GpuKernel`: the threads progress and the host wakes; not that a buffer succeeds.
- `QinerQueue`: threads and main are scheduled; and, only for `EverySolutionHanded`,
  strong fairness of a connection and of a packet getting through: a node that is
  tried for ever is reached some time. A process that is killed or told to stop is
  exempt, as the code keeps nothing.

## 4. Proofs

Every invariant, every refinement and every action property the runs check is also proved,
for every value of the constants that the named assumptions of the modules allow; what is
left to TLC are the liveness properties. The proofs that need more than those assumptions
say so in their statement: `PubkeyFixesJob`, `EachPubkeyOnce /\ Cohort < NonceSpace`,
`RowsFit`. The assumptions on constants that carry content are these:

| Assumption | Says | Because |
|---|---|---|
| `FeedAssumption` | lanes fit in the reach of the gather, and that below the byte for "further ahead" | 64 lanes, gathered up to 127, saturated at 255 (`node/score_bpp9000.h`) |
| `NodeAssumption` | neurons are numbered from 0, the input list holds each input once | `validTopology` refuses a task otherwise |
| `LutsAssumption` | the tables considered include all that drawing and mutating yield | definition of `Luts` |
| `MessageAssumption` | a compact target is an exponent and a mantissa of three bytes | its record type (`node/custom_qubic_mining_storage.h`) |
| `FilesAssumption` | a file that is no task's has bad dimensions, topology or bytes | what the loader is to refuse; block and hash agree (collisions left out) |
| `KeyAssumption` | no job has the key that stands for no job | `''` (`stratum_miner.mjs`) |
| `PipelineAssumption` | those of the driver and of the harness | they run side by side |
| `SharesAssumption` | a packet has room for ten bits per computor | 848 bytes, 676 computors |

### The stratum path

`StratumDriverProofs`: `SpecOneConnection`, `SpecSubmitsLoadedTaskOnly`. `DInv` adds where
the jobs in the driver's hands come from: every message in flight and the current job were
issued by the pool (`JobsIssued`), and `taskMatches` is the verdict on the current job and
no other (`VerdictOnCurrent`), which is why the check at submission, made long after the
job came, still is about it. The lemmas are stated for `DStep`: a step of the driver, of
the pool, or of anything that leaves the driver's variables alone.

`StratumHarnessProofs`: `SpecTypeOK`, `SpecCohortSetUp`, `SpecSharesValid`,
`SpecSharesNameOneJob`. `SetUp` says what is already true at each place of the taking of a
job: after re-keying the pool is the seed's, after the rebuild the table is the pubkey's, in
a cohort all of it holds and the initial score is not INF; `CohortSetUp` alone is not
inductive, as the steps that establish it come one after the other. `BestFromSearch` says
that a lane's best score is the initial one or one its nonce's search really saw: this
makes a share of an abandoned cohort valid. `SharesOK` outlives a change of job because a
share carries the job it was made for. These lemmas too are about a step of the harness or
of its neighbour (`HStep`).

`StratumPipelineProofs` joins the two by INSTANCE of their proof modules: a step of the
composition is a `DStep` and an `HStep`, so that `SpecPartsInv` costs no action-by-action
proof. On top of it
- `SpecMinerFollowsPool`: pipe and reader together hold the driver's current job last;
- `SpecImplementsContract`, `SpecSubmissionsValid` under `PubkeyFixesJob`: the driver knows
  a stale share by its pubkey alone, so that seed and difficulty must follow from it. The
  run `pipeline_harder` shows that without it the statement is false;
- `SpecFreshSubmissions` under `EachPubkeyOnce` and `Cohort < NonceSpace`. `OrderInv` gives
  each pubkey the turn it had in the pool's sequence, and says that messages, lines, job
  slots and shares in flight carry turns in order, and that a share of the current turn has
  a nonce below the counter: an older turn never comes back into the loop, and the counter
  starts again only with a new one.

### The search

`QinerProofs`, first part: `SpecTypeOK`, `SpecCurMatchesTable`, `SpecBestMatchesBestANN`,
`SpecNeverLeavesBest`, `SpecImplementsClimb` for `HillClimb`. The invariant adds that
inside a step the snapshot has the current score.

`CohortClimbProofs`: `SpecReportIsSound`, `SpecImplementsClimb`. A candidate of the
lockstep cohort has a *standing* table, the one it would be left with if the step were
rolled back now; `ScoresOfStanding` ties scores to it, `InLockstep` ties it to the number
of steps done by this candidate (`StepsDone`, which differs between candidates within one
accept loop). The abstract search is that of one candidate `k`, so that the refinement
holds for each: every step of the cohort moves the candidate by one abstract step or not at
all (`Moved`, `Unmoved`). `ReportIsSound` compares with the whole search as a function:
the scores of its first steps are a recursive function, and the best of fewer steps is
never lower than the best of all.

### The scorers

`ScoreAgreementProofs`: `SpecScoresAgree` is the result the pool's acceptance rests on:
miner, AVX-512 node and AVX2 node give every table the score of the reference, for every
topology, task, number of lanes and order of the miner's visits; with it
`SpecMinerTickIsSynchronous`, `SpecPlanesSynchronous`, `FeedSpecExact`, `SpecFeedExact`.
- *The reference* is the run of one window by itself, a recursive function of the tick.
  Lemmas about it: a neuron outside the cone never reaches the output (`ConeClosed`: the
  cone is found in as many rounds as there are neurons, as a chain that grew in each would
  have more neurons than there are), and a window's prediction is the state at the tick it
  settles.
- *`MinerInv`* says where in that run the current window is, and that the windows behind are
  graded as the reference grades them. Within a tick some neurons are new and some old; the
  ones read are the old ones, whichever order is taken.
- *`NodeInv`, `Avx2Inv`* say the same of every lane of a batch. The renumbered rows are the
  neurons of the cone one to one (`RowsOfPlanes`, `RowsOfTables`), so that a plane is the
  state of the reference under a renaming. A lane that is done keeps its verdict.
- *`FeedInv`*: base, byte and word together place every lane (`PositionsExact`), the flag of
  a lane fed to its end is exact; `ThresholdExact` and `NarrowKeeps` are the two facts about
  bytes it rests on: a rebase keeps positions, a saturated lane reads its word, no lane in
  reach of the gather is saturated. `SpecDrivesFeed` shows that the scorer is one of the
  users the feed is specified for.
- *`AgreeInv`* chains the three by phase: the two mutated tables are one up to renumbering,
  and each scorer starts fresh where the one before ended.

`GpuKernelProofs`: `SpecRowsStagedBeforeUse`, `SpecReadsBackScores`, under `RowsFit`
(`NumUpdated <= TgSize`): a thread stages the row of its own index, see section 6. Windows
correspond one to one to the threads in use; `InOrder` says how far the threads of a group
can be apart over the barrier, and `SlotsExact` that a slot has the failures and timeouts
of exactly those windows whose thread's SIMD group has added them, whatever subset of a
group reduced together.

### Task file, solo miner, node

`StorageProofs`:
- `SpecTypeOK`, `SpecAnswersCountOnce`: the id of a started query was handed out and not
  answered, and no two started queries share one: the second is what makes the search by
  id, which takes the first place that fits, find the right query.
- `SpecWalkIsComplete`: behind the walk everything due was seen (`WalkInv`); a query that
  is moved, failed or overwritten is no longer due.
- `SpecImplementsLedger`: the ring as a queue. `RingInv`: a task is in one place at most,
  and the free places are those from the next one on. The queue's order is that of the
  places counted from the next one, wrapped.
- `SpecTasksAsAdded`: the target, built byte by byte from a compact form, is the number the
  form stands for. `Digits` and `DigitOf` say that a number has one string of digits.
- `SpecLoadedIsOneTask`, `SpecRolesFitTopology`: a load reads the file thrice, and it may be
  replaced in between. The header, read first, fixes by its hashes the file all the rest
  must come from (`LoaderInv`). Packing and unpacking of trits and topology are shown
  inverse from `Digits`; the roles are found by counting the neurons below.
- `SpecEventsAccounted`: at each of the three places of the closing of a phase the
  invariant says where the events are that are not late.
- `SpecTotalsAreWhatOthersReported`: a field of ten bits lies in two bytes, in one of four
  ways; a value that fits is read back (`UpdateFits`) and left alone by every later one,
  unless the next in the same five bytes is beyond ten bits (`UpdateKeeps`). `OrApart`: or
  is a sum where the bits do not overlap. `SharesInv` says of the saved totals what is said
  of the running ones, and that no report is of a tick to come, so that after a restart none
  is counted twice.

`QinerProofs`, second part: `SpecImplementsOutbox`. While main connects or sends, the
nonce it took is the front of the queue, although threads append meanwhile and main reads
the front and pops in two lockings (`FrontIsSent`).

### How recursive definitions are handled

The modules proved about declare no RECURSIVE operator. A recursive function in a LET is a
CHOOSE, so the proofs first show that such a function exists (`StepsExist`), then that any
two of them agree (`SameSteps`), and use from there what it yields from one step to the
next. Induction is over sets (`NatSetInduction`: a set with 0 and with each successor
contains the naturals), itself proved by minimal counterexample.

### What is only model-checked

`NewJobTakenUp`, `StopRequestEnds`, `SilentConnectionReplaced`, `JobReachesMiner`,
`EndTogether`, `Terminates`, `DispatchEnds`, `EverySolutionHanded`, `ShutsDown`: liveness
under fairness, for which the provers have neither ENABLED nor the fairness rules. That a
packed table of the GPU, a hash or a packet of the network is what it should be is not in
the models, and so not proved.

## 5. Not modelled, and why

- The random generator: a stateless function of the pool whose values the models take as
  arbitrary constants; what consumer and node must agree on, the order of its draws, is in
  `ScoreAgreement`. `loadTaskFromMemory` has no caller.
- Keys, identities, hashing (2,700 lines): arithmetic without state, beyond a model checker.
- The `unit`, `perf` and `mine` modes, device set-up, probes, install and rig
  scripts, benchmarks, tests: sequential tools around what is modelled.
- `qiner-metal/src/score_bpp9000_ref.h` repeats search and scorer of `score_bpp9000.h`:
  its loading is what `TaskLoader` models, its score of a table is `ScoreOf`.
- `node/score_common.h` and `node/task_file.h` repeat the miner's. Of `node/mining.h` the
  form of a solution transaction and the log line are left out, of the storage the plain
  getters; neither changes state.
- Two miners on one token: nonces are made from a counter, so they would grind the
  same ones; there is one miner per pool here.

## 6. Where code and documents differ

- **`pipeline_harder`.** README.md 100-101 says invalid shares are never sent. The
  stale check compares pubkeys; when a pubkey is asked for fewer errors, shares of
  the old difficulty still in the pipe, or in the running cohort, are submitted.
  `pipeline` shows the statement holds while a pubkey stands for one seed and one
  difficulty (`PubkeyFixesJob`).
- Met while modelling, without a run of their own. In the miner: README.md 76 and
  `harness.mm` 773 say a failed dispatch is survived; that of the initial table (756) ends
  the miner. `stratum_miner.mjs` 3 and STRATUM.md 47 say shares are submitted only if the
  loaded task is the live job's; the driver hashes the file once (39), the harness loads
  it afterwards and again whenever the seed changes (748), so that a file replaced
  meanwhile is mined under the old hash, with the kernel and buffers of the first load.
  `harness.mm` 444 says a cohort is abandoned the instant a new job arrives; the
  generation compared with is read when the cohort starts, so a job published since the
  copy at 741 is ignored until the cohort is over (`NewJobTakenUp` shows that it is taken
  up then). `kernel.metal` 22-23 says the rows are staged once per threadgroup; the host
  falls back to 32 threads (`harness.mm` 172), each of which stages the row of its own
  index, and the live task has 46 rows: `RowsStagedBeforeUse` needs `TgSize` no smaller
  than `NumUpdated`.
- In the node's headers: the storage's comment on `addTask` (89) has `cleanJobQueue` clear
  all tasks, the code does not look at it; a task that comes back after its eviction
  starts a new account, so a solution counted for it before is counted again, though 98
  says not; `updateOracleQueryScheduledTick` (631-643) returns true for an empty place,
  which it then schedules, though 134 says false; job 0 is found in unused slots (241). In
  `node/mining.h` a count beyond ten bits runs into the field before it (118), and if that
  is the sender's own, the report is dropped; `appendLog` adds the counters of phase and
  epoch, so a phase closed between its reads is shown twice.
- In the documents: `qiner-macos/README.md` 164 and 172 describe an explore phase of
  `nonce[2]` steps; the code has `K = 0` (`score_bpp9000.h` 452-453), as its comment
  says. STRATUM.md 19 has fresh nonces for each job: the nonce counter restarts with every
  job (`harness.mm` 757), so a pubkey that comes round again, or is asked for with another
  difficulty, is ground from the same nonces: `FreshSubmissions` is proved under the
  hypothesis that neither happens (`EachPubkeyOnce`), and TLC finds it violated for job
  sequences A, B, A and A, A with fewer errors.

## 7. Plan

Order: what a wrong share depends on first, then what computes a score, then the
solo miner.

1. Done: the search (`HillClimb`, `CohortClimb` against `Climb`), the stratum path
   (`StratumHarness`, `StratumDriver`, `StratumPipeline` against `ShareContract`), the
   scorers of miner, GPU and node (`ScoreAgreement`, `GpuKernel` against `TernaryNet`), the
   task file and its loading (`TaskFile`, `TaskLoader`), the solo miner (`QinerQueue`
   against `SolutionOutbox`), the node's storage (`MiningStorage` against `TaskLedger`),
   share counts and statistics.
2. Done: the proofs of section 4, every safety property and every refinement the runs
   check among them.
3. Proofs left: the step bounds behind the liveness properties (a measure that falls with
   every step of a cohort, of a dispatch, of a score), which would leave only the fairness
   to TLC.
4. Models left: `Random2`, the generator (`score_common.h`): unaligned words of the pool
   at positions of eight linear congruential sequences; the file replaced under a running
   `StratumPipeline`; the identity conversion of `keyUtils.cpp`.
