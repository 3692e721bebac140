# CRSCE in TLA+

CRSCE compresses a file block by block. A block is a `kS x kS` bit matrix
(`kS = 127`); its compressed form is the sums of its rows, columns, diagonals,
anti-diagonals and of the lines of two partition tables (LTP1, LTP2), a CRC-32
of every row, a SHA-256 of the block and a one-byte disambiguation index (DI).
`compress` searches for matrices with those sums and row hashes, depth first and
in lexicographic order, until the original comes up; its position is the DI.
`decompress` runs the same search and takes the matrix at that position, or, for
DI = 0, another search that completes rows from their CRCs. Beside the two
commands the repository has two experimental solvers with programs of their own
(`combinatorSolver`, `overlapSolver`, `rowSolver`), programs that test the
commands from outside, and the threads every program starts for its telemetry.

This directory models all of these, checks the models with TLC on small
instances, and proves central facts with TLAPS for every value of the constants.

Contents: [inventory](#inventory), [modules](#modules), [runs](#runs),
[bounds](#bounds), [fairness](#fairness), [findings](#findings),
[proofs](#proofs), [only model-checked](#only-model-checked),
[not modelled](#not-modelled), [plan](#plan).

## Inventory

Paths are below `src/`; `Solvers/` is `src/Decompress/Solvers/`.

| Component | State | Operations | What makes it correct | Modelled in |
|---|---|---|---|---|
| `ConstraintStore` | `cells_`, row bits, per line `unknown`, `assigned`, `target` | `assign`, `unassign`, getters | counters and row bits always say what the cells say | `ConstraintStore` |
| `PropagationEngine` | `work_`, `queued_` with `dirtyWords_`/`dirtyCount_`, `forced_` | `propagate`, `tryPropagateCell`, `reset` | forces only what every completion has; at success nothing violated or left to force; `queued_` agrees with the queue | `PropagationEngine` |
| `BranchingController` | `undoStack_`, `minUnassignedRow_` | `nextCell`, `saveUndoPoint`, `recordAssignment`, `undoToSavePoint` | undo restores exactly what was done; the hint skips no free cell | `BranchingController` |
| `EnumerationController` | explicit DFS frames | `enumerate` (callback), `enumerateSolutionsLex` (generator) | every solution once, in lexicographic order; ends | `EnumerationController` |
| `AsyncHashPipeline` | `pending_`, `verified_`, `done_`, `verifierDone_`, 2 mutexes, 3 condition variables | `submit`, `tryNextVerified`, `nextVerified`, `shutdown`, destructor; `verifierLoop` on its own thread | passing candidates come out once, in order; `nullopt` means all of them; nobody sleeps through work | `AsyncHashPipeline`, `HashFilter` |
| `RowDecomposedController` | DFS frames, row heap, sidecar counters, beliefs | `enumerateSolutionsLex` (DI = 0) | gives out only matrices with the sums and row hashes, loses none | `RowDecomposedController`, `RowSolving`, `Sidecars` |
| `FailedLiteralProber` | none of its own | `probeCell`, `probeAlternate`, `probeToFixpoint`, `probeAlternateDeep` | leaves the store as it found it, forces only what must be | `RowDecomposedController`, `FailedLiteralProber` |
| `Crc32RowCompleter` | generator matrix | `tryCompleteRow` | a completed row has the row's CRC and sum | `RowSolving` |
| `StallDetector` | window depth, stall count, probe depth | `update` | escalates on stall, recovers on progress, bounded | `StallDetector` |
| `RowSerialSolver`, `rowSolver` | snapshots, one per recursive call | `solve` | a matrix with the sums; ends | `RowSerialSolver`, `RowSolving` |
| `CombinatorSolver`, `combinatorSolver` | GF(2) equations, integer lines, cells, restarts | `solve`, `solveCascade`, `solveHybrid`, `preAssign`, `analyzeLines` | learns only right cells, fixpoints are complete, restarts take back what they tried | `CombinatorSystem`, `CombinatorSolver`, `HybridSolver`, `CombinatorConfigs`, `CombinatorCommands`, `Deduction` |
| `overlapSolver` | the previous block's solution | blocks left to right | donated cells are the next block's | `CombinatorCommands` |
| Row hash verifiers | expected digests | `setExpected`, `verifyRow` | accepts exactly rows with the digest | in each solver |
| `LtpTable` | two tables, built once | `ltpMembership` | every cell on one line of each table, the same on both sides | `LtpTable` |
| `Compressor` | none | `compress`, `discoverDI`, `computeCrossSums`, ... | DI fits a byte and names the block | `FileCodec` |
| `Decompressor` | none | `decompress`, `reconstructBlock` | gives back the file, or fails | `FileCodec` |
| `common/Format` | payload, header | pack and unpack | unpack after pack is the identity | `PayloadFormat` |
| Commands, arguments, exit values | files | run, refuse, fail, be killed | an unfinished file is never taken for a whole one | `FileCodec` |
| `common/O11y`, heartbeats, watchdog | event worker, job queue, event queue, threads | `event`, `metric`, `flush_events`, start, stop | every event the worker takes written once and in order; the process ends | `O11y` |
| Test runners, `uselessTest`, `testCollisions` | files, results | generate, run children, compare | ends with 0 only if the source is back | `TestRunners` |
| `BeliefPropagator`, `ProbabilityEstimator` | messages, scores | heuristics | none that others rely on | as a choice, in `RowDecomposedController` |
| `ReasonGraph`, `ConflictAnalyzer` | antecedent per cell | `record`, `analyze` | - | not modelled |
| `MetalPropagationEngine`, `MetalContext` | GPU buffers | as `PropagationEngine` | as `PropagationEngine` | not modelled |
| `common/Csm`, `LateralHash`, `BlockHash`, CRC, SHA | data | accessors, digests | pure functions | abstract |
| `common/FileBitSerializer`, `common/Generator` | chunk buffer; coroutine handle | `pop`; iteration | every bit once; frame destroyed once | not modelled; in part |
| viewer, `hasher`, `binDumper`, scripts | - | single passes over files | - | not modelled |

How they interact. `Compressor::discoverDI` and `Decompressor::reconstructBlock`
build a store, an engine, a brancher and a verifier and hand them to a
controller. The controller calls the engine and the brancher, both of which write
the store; the engine's `forced_` vector is read by the controller after each
call. Leaves go to the pipeline's bounded queue; the verifier thread pops, hashes,
and queues the survivors; the controller polls them between steps and drains them
at the end. Solutions reach the caller through a coroutine or a callback, either
of which may stop early. The packed file is the only thing that passes from
`compress` to `decompress`, apart from the environment both read.

What is hard to test: the wakeups of condition variables over several mutexes;
the order in which solutions come out of polls and blocking waits; incremental
counters that only diverge after thousands of steps; a failed propagation that
has already changed the store; cached hints, bitsets and vectors that survive
from one call into the next; deductions that share state and keep it up to date
each in its own way; files left behind by commands that were killed; the end of
each search. `PROJECT.json` lists these hazards line by line with the property
that watches each, or why none does.

## Modules

| Module | Models | Extends |
|---|---|---|
| `AsyncHashPipeline` | both threads of the pipeline at the granularity of lock, test, block, push, unlock, notify | |
| `HashFilter` | what the pipeline promises: a filter that keeps order and says when it is done | |
| `ConstraintStore` | `ConstraintStore` | |
| `PropagationEngine` | `PropagationEngine` | `ConstraintStore` |
| `BranchingController` | `BranchingController` | `PropagationEngine` |
| `EnumerationController` | `EnumerationController`, both public functions | `BranchingController` |
| `RowSolving` | what the two row solvers share: the payload, the completions of a row from its CRC | `BranchingController` |
| `Sidecars` | the sidecar files of `RowDecomposedController` | `RowSolving` |
| `StallDetector` | `StallDetector` | |
| `RowDecomposedController` | the search for DI = 0 | `Sidecars`, `StallDetector` |
| `FailedLiteralProber` | `probeToFixpoint`, `probeAlternateDeep` by themselves | `RowDecomposedController` |
| `RowSerialSolver` | `RowSerialSolver` | `RowSolving` |
| `RowSolvers` | the row solvers on the same blocks | `FailedLiteralProber`, `RowSerialSolver` |
| `CombinatorSystem` | the equations and lines `CombinatorSolver` builds from a block | |
| `CombinatorSolver` | `solve`, `solveCascade` | `CombinatorSystem` |
| `HybridSolver` | `solveHybrid` | `CombinatorSolver` |
| `CombinatorConfigs` | the named configurations | `CombinatorSolver` |
| `CombinatorCommands` | `combinatorSolver` and `overlapSolver` | `HybridSolver` |
| `Deduction` | what a purely algebraic solver promises | |
| `LtpTable` | the partition tables, from seeds or from a file | |
| `PayloadFormat` | a block's description and its bits | `LtpTable` |
| `FileCodec` | `compress` and `decompress` over files | `PayloadFormat` |
| `TestRunners` | the runners around the two commands | `FileCodec` |
| `O11y` | event worker, heartbeat, watchdog, the program around them | |
| `MC...` | constants for TLC: matrices, digests, tables, files | the module they run |
| `..._proofs` | proofs about the module they name; `Propagation_proofs` is about the store and the engine under every search, `RowSolvers_proofs` about both row solvers and the prober, `FileCodec_proofs` about both commands and the runners, `Combinator_proofs` about `CombinatorSystem` to `CombinatorCommands` | that module |
| `Induction_proofs` | induction over the naturals and recursive functions, for the other proofs | |

A definition introduced as "a variant" is a plausible mistake in the definition
that follows it. No specification uses it; `PROJECT.json` pairs it with the
property that tells it from the code.

**AsyncHashPipeline.** `dfs` and `ver` are the program counters of the search
thread and of the verifier. `pendingMtx` and `verifiedMtx` hold their owner.
A thread at a `...Block` label has found its predicate false and still holds the
mutex: the step into `...Wait` is the atomic unlock-and-sleep of
`condition_variable::wait`. A thread at a `...Wait` label sleeps until
`notify_one`, or `SpuriousWakeup`, sends it to reacquire the mutex. `done_` is an
atomic that `shutdown` stores without the mutex, so `ShutdownStore` needs none.
The search's use of the pipeline (`Found`, `Resume`, `Stop`, `Exhausted`,
`Undisputed`) follows `EnumerationController_dfs.cpp` and
`EnumerationController_enumerateSolutionsLex.cpp`: submit and poll, hand over
what the poll gave, and at the end shut down and drain.
`ShutdownStore`/`ShutdownNotify` also stand for the destructor's second shutdown;
`Join` waits for the verifier to exit. The history variables `delivered` and
`drained` record what the consumer saw. `passing` is the set of candidates whose
rows match, chosen at the start: which rows match is the data the pipeline
filters by and no step changes it.

**ConstraintStore.** `cells`, `rowBits`, `unknown` and `ones` are the fields of
the same meaning; a line is a pair of a type and an index. `Assign` and
`Unassign` translate the two functions with all six lines of a cell. `StoreSpec`
is the store under its users' discipline, free cells assigned and assigned ones
undone, in any order.

**PropagationEngine.** `Propagate` starts a call (clear, reset the bitset, mark
the given lines); `PopLine`, `PopViolated`, `ForceCell` and `Quiesce` are the
iterations of its loops; `prop` says whether a call runs or how it ended.
`queued` and `dirtyWords` are `queued_` and the first `dirtyCount_` entries of
`dirtyWords_`. The constant `WordBits` is the word width (64 in the code) and
`DirtyRoom` how many entries `dirtyWords_` has room for. The code's value is
`kQueuedWords`, and the list can need more: one entry past the end is, in every
layout of the class, the byte of `dirtyCount_`, and the write makes the word's
number the new count (`NoteDirty`; GCC at `-O0` to `-O3` does so). `DirtyAfter`
is that list after each of the lines that `markQueued` is called for. The passing
runs give the list ample room, so that they say what the search guarantees apart
from that defect; `Enum_SumsHold` gives it the code's room and shows what it does.
`TryPropagateCell` translates `tryPropagateCell`: a look at the six lines of the
cell, and a full call only if one of them forces something.

**EnumerationController** and **BranchingController.** `frames` is the explicit
DFS stack, `undoStack` and `minUnassignedRow` the brancher's. One turn of the
loop is `Undo`* (back to the top frame's token), then `Pop` or `Try`; `Try`,
`TryPropagate`, the engine's steps, and one of `Contradiction`, `HashMismatch`,
`Descend`, `Submit` make up a value tried. `api` selects between the two public
functions: they differ in the lines propagated first (the callback form leaves
LTP1 and LTP2 out) and in what an early stop undoes (`Cleanup`). `Contradiction`
records nothing, as in the code: the cells that the failed call forced stay
assigned and leak (`Leaked`). The pipeline is here the list of submitted
candidates; what becomes of them is `AsyncHashPipeline`'s.

**RowDecomposedController** with **RowSolving**, **Sidecars**, **StallDetector**.
A turn of the loop is `Undo`*, then `Pop`, or both probes and `TryPreferred` or
`TryForced`, or `TryAlternate`. A value tried goes through the propagator, the
cascade of cells the sidecars force (`Cascade` to `CascadeDone`), and the
completion of rows from their CRC (`SkipRow` to `RowsCompleted`), each completed
cell propagated in turn; then rows are hashed and the next cell is taken from the
heap of nearly full rows or from `cellOrder`. `call` holds the locals of the part
that runs. `call.memory` is what the loop over the forced cells finds behind the
reference it holds. The loop takes its end when the cell's own row is done
(`NextRow`), from a vector the completion of that row may have refilled; from then
on its length stays, and each propagation inside the loop overwrites it. A digest
is a GF(2)-linear map here, as CRC-32 is up to a constant: `CompletionResults`
are the solutions of the row's system with the limits of `Crc32RowCompleter`, the
shift by the word's width included. A sidecar's counters are not separate
variables: `locals.counted` is the log by which they are taken back, and a
counter is read from it. Belief propagation leaves any element of `Beliefs`
after an escalation of the detector.

**FailedLiteralProber** uses the probes of the search above and adds the passes
of `probeToFixpoint` and the recursion of `probeAlternateDeep`, as its unit tests
call them, each on a store just made.

**RowSerialSolver.** Each frame is a recursive call: its row, the candidates for
it still to be tried, the snapshot to restore. The order that the code sorts rows
and candidates into is a guard (`IsBestRow`, `CandidateBefore`): the next one taken
is the one before all others. `Candidates` are the solutions of a line's
system that its parity, its sum and the other lines of its cells allow.
`LineCompleted` to `NextPass` are the cascade that completes every row and column
with one candidate. The snapshot holds the store and not the propagator's queue.

**RowSolvers** starts one of the three on a block. Its `Next` names the solver
before each one's steps because they share actions (`Undo`, the probes, the
engine's).

**CombinatorSystem** builds the system of one block under a configuration:
parities and CRC equations of rows, columns, diagonals, anti-diagonals,
toroidal diagonals, shuffled partitions (yLTP) and spirals (rLTP), and the
integer lines. A CRC is an affine function of fewer bits: `crcZero` and
`genMatrix` are computed from it as the code computes its tables, from the zero
message and the unit messages. **CombinatorSolver** takes one deduction as a
step (`GaussElim`, a line popped by `IntBound`, `CrossDeduce`), with the phases
of the cascade around the fixpoint. **HybridSolver** adds the rounds of line
searches (a node limit as in `dfsLine`) and the restarts: `stack` holds each
decision with the snapshot taken before it, and `Checkpoint` the elimination
every `GEInterval` decisions. **CombinatorCommands** chooses the method, reports
the lines (`analyzeLines`), and for `overlapSolver` goes on to the next block
with the columns handed on.

**LtpTable**, **PayloadFormat**, **FileCodec.** The tables are built by the
Fisher-Yates passes of the code (`Shuffling`), with a smaller generator; the second
pass goes on from the pool the first left; a file's lines are filled cell by cell
(`Filling`). Tables from a file, seeds from the environment
and everything that makes a file unfit are there, the case of a file with only
one table as well. The payload is packed entry by entry (`Packing`) into bits of
the widths the code uses, and read back bit by bit (`Reading`).
`FileCodec` is the two commands as processes: `CompressRefused` to
`CompressClose`, `DecompressRefused` to `WriteOutput`, a `...Killed` for each, a
stream that fails from some write on (`bad`), a user who removes outputs and
tries again. The search of `EnumerationController` is known by the matrices of a
description in order, some of them lost (`Lost`). Of the row search nothing is
promised: besides the matrices of the description it may give out any of
`Mistaken`, and `FirstRowSolution` takes what comes first, as the code does.

**TestRunners.** A runner is `stage`, with `ChildStep` for the steps of the child
process it waits for; the hand-run commands are `program = "shell"`. The runners
compute sizes for blocks of side 511 (`RunnerS`), the commands have blocks of 127;
the model keeps the two apart.

**O11y.** Threads: main (`main`), the worker (`worker`), the heartbeat, and the
watchdog, which may end the process at any step. An emission creates a coroutine
that queues itself (`jobs`), the worker swaps the queue out (`local`), resumes
each (`Resume` computes the counter's difference, or sets the baseline the first
time and records 0, and appends to `events_queue`), and writes batches. `signalled` is a notification that has reached the sleeping
worker. The read of the awaiter after the push (`NotifyJob`) may find a destroyed
frame: it then does as intended, notifies nobody or ends the process. The
destructor's part is `RequestStop`, `PassMutex`, `NotifyStop`, `Join`,
`FinalFlush`, `FinalWrite`, `Returned`.

## Runs

`tlc -config <cfg> <module>`; the properties are defined, with comments, at the
end of the modules.

| Run (`.cfg`) | Module | Result | What it shows |
|---|---|---|---|
| `AsyncHashPipeline` | `AsyncHashPipeline` | holds | capacity, lock protocol, FIFO order, completeness of `nullopt`, no sleep through work, room or verdict; it implements `HashFilter`; every candidate is checked; a heard shutdown ends with the thread joined |
| `AsyncHashPipelineShutdown` | `AsyncHashPipeline` | violated | a shutdown that the verifier does not hear never ends |
| `Enum5` | `MCEnumerationController` | holds | the whole search: sound propagation with an exact queue, exact counters, exact backtracking, nothing lost unless a cell leaked, candidates with the right sums and hashes, in strictly increasing order, and an end |
| `Enum_OriginalEnumerated` | `MCEnumerationController` | violated | the original lost |
| `Enum_SumsHold` | `MCEnumerationController` | violated | a candidate that misses a sum |
| `RowSolvers7` | `MCRowSolvers` | holds | both row solvers and the prober: backtracking exact but for what failing propagations leave, answers with the sums and without repetition, nothing lost without a known reason, an end |
| `RowSolvers_MismatchAbandoned` | `MCRowSolvers` | violated | a matrix with wrong row hashes given out |
| `Combinator7` | `MCCombinatorCommands` | holds | equations stay true, fixpoints are complete, restarts refute rightly and restore exactly, reports agree, wrong donations show; what the algebraic solvers do implements `Deduction`; an end |
| `Combinator_EliminationRight` | `MCCombinatorCommands` | violated | elimination after a line search concludes wrong cells |
| `FileCodec` | `MCFileCodec` | holds | both commands and the seven runners over failures, kills and retries: tables agree, packing loses nothing, DI names its block, unfinished files are rejected, blocks with DI > 0 come back, runners that end well have their source back |
| `FileCodec_RestoredExact` | `MCFileCodec` | violated | a file of several blocks comes back changed |
| `O11y` | `O11y` | holds | every event the worker takes written once, in order and against the right baseline, no lost notification, and an end |

*Conditions in the properties.* `FoundUnlessLeaked` and the part of
`PropagationSound` about settled lines are about states in which nothing has
leaked; the instances have payloads of both kinds. Soundness of forcing needs no
such condition. `LexOrder` and the row hashes of candidates hold in spite of
leaks: a leaked cell only shrinks what is searched. `CandidatesRight` and
`AnswersRight` claim every sum only when the payload's sums are a matrix's
(`GenuineSums`), and for other payloads the lines without a leaked cell: with one
sum changed a leak can cost a candidate that sum, as told under the findings. `NothingLost` excuses
`RowDecomposedController` when a cell leaked, when a row had several completions
and one was taken (`guessed`), or when the sidecars belong to another block; and
`RowSerialSolver` when it met the original's path with no row it could enumerate.
`SystemSound`, `RefutationsRight` and the refinement of `Deduction` are about
right donations and, in `solveHybrid`, a right baseline: the line searches can
fill a line wrongly, since several fillings may have its CRC.

*What the instances do not reach.* In `Combinator7`: an inconsistency found by
`CrossPass` (crossing lines never add anything, `CrossAddsNothing`, as
`docs/experiments/B.60.md:10` and `:77` report of the real blocks), and a
checkpoint that gains nothing before a decision. A wrong cell concluded from the
partitions' late equations (below) takes more equations than a matrix of 7 x 7
has. In `FileCodec`: a failing
preflight of `testRunnerAlternating01`, which no size the runner generates can
cause.

## Bounds

- **Pipeline.** `maxPending = 2`, `MaxCandidates = 3`, every subset passing: the
  queue fills, drains and fills again with a candidate in the verifier's hands.
  The proofs remove the bounds for the safety properties.
- **Enumeration.** `kS = 5`, `WordBits = 8`, `DirtyRoom = 1000` (ample). The
  search is deterministic once payload and API are chosen (except for an early
  stop), so its state space is long rather than wide and the interest is in the
  payloads: `MCEnumerationController` names each and says why it is there. One is
  solved by propagation alone; others have two and five solutions of the sums
  with four nested frames, contradictions after forced cells at first and deeper
  levels, a damaged sum, a damaged row hash; `BlocksRing` are the smallest
  matrices with equal sums. Two extreme digests are used: no collisions, nothing
  but collisions. LTP tables that repeat rows and columns leave as much to branch
  on as any table can. `Enum_SumsHold` uses `kS = 7` with words of 9 bits, so that
  54 lines take six words, in the place of 1014 lines in sixteen.
- **Row solvers.** `kS = 7`, nine matrices chosen by search for what they make
  happen (named in `MCRowSolvers`), digests of one, two and seven bits. The
  thresholds are scaled: rows with up to 3 unknowns are completed
  (`kThreshold` and `kRowCompletionThreshold`, 32 and 64 in the code), one free
  variable is enumerated (`kEnumerated`, 8), parts of rows have 4 columns
  (`kBlockSize`, 64), windows of one update (`kCheckpointInterval`, 2^20) stall
  after 2 and recover after 1 (`kStallThreshold`, `kRecoveryThreshold`, 3 and 6),
  probe depth at most 2 (`kMaxK`, `kMaxDepth`, 4), the heap is refilled every 8
  iterations (`kReseed`, 4096); for `RowSerialSolver` 4 free bits (`kMaxFreeBits`,
  22), 2 equations (`kEquations`, 33), 2 rows tried (`kRowsTried`, 5), 8
  candidates too many and 1 good enough (`kTooMany`, `kGoodEnough`, 10000 and 10),
  3 unknowns in the cascade (`kCascadeThreshold`, 40).
- **Combinator.** `kS = 7` with a unit of 1 for the code's 8, CRCs of 1 or 2 bits,
  every configuration name of the program, twelve matrices for `solveHybrid`
  under four choices of sums. `MaxRounds = 100` and `MaxIter = 200` are the
  code's; `MaxDfsNodes = 2`, `NumRestarts = 3`, `MaxDecisions = 20`,
  `GEInterval = 3` make every limit bite (the violated run has `MaxDfsNodes = 6`).
  Cascades with partitions are run with no, two and five columns known beforehand.
  `MaxFree = 10` bounds the fixpoints whose completeness is checked by
  enumerating all fillings. `BlockCount = 3` with overlaps 0, 1, 5: a block hands
  on cells it was handed.
- **Files.** `kS = 5`: 25 bits, one more than whole bytes, as 16129 is. Files of
  zero to three blocks, twelve environments, `DILimit = 3` for 256,
  `MaxAttempts = 3` commands: a failure, a retry and the way back. `Mistaken` is one
  matrix with wrong sums, which any block with DI = 0 may come back as. Runners go
  through two sizes (`BlockSizes`), `RunnerS = 7`, two cycles (`Cycles`).
- **O11y.** `MaxEvents = 3` emissions, so that one is being written, one is queued
  and one arrives; counters of `Width = 4` values wrap. The proofs remove both.

*Deadlock.* `CHECK_DEADLOCK FALSE` is set where the system really stops; that it
does not stop too early is what the liveness properties say. `RowSolvers7` and
the `Combinator` runs check deadlock: their programs end in a final step.

## Fairness

`AsyncHashPipeline.FairSpec` has strong fairness for each thread's next step
(`SF_vars(DfsNext)`, `SF_vars(VerifierNext)`). A thread is disabled only while it
sleeps or waits for a mutex; the code counts on `std::mutex` not to starve a
waiter for ever, with two threads and short critical sections, and weak fairness
would let one thread reacquire a mutex for ever between two attempts of the
other. Nothing is assumed about spurious wakeups: they may happen or not, so no
liveness property leans on them. `Found` may be taken or not, which leaves the
length of the search open up to `MaxCandidates`.

The sequential programs keep running: `WF_vars(Next)` in
`EnumerationController`, and in `RowSolvers` and `CombinatorCommands` the
equivalent `[]<>Ended \/ []<><<TRUE>>_vars`, for specifications whose `Next` is
enabled and changes the state until they end.

`O11y.Fairness` is weak fairness of the worker, of the heartbeat, of the passing
of time (`Tick`), and of main where it is in the destructor, notifying or
joining. Nothing is asked of main while it works, and the watchdog may never
fire. The worker's mutex is free again after each of main's steps, so weak
fairness suffices.

`FileCodec` and `TestRunners` have no liveness property: a user may stop at any
point.

## Findings

With a run that shows them:

1. **Lost shutdown** (`AsyncHashPipelineShutdown`). `shutdown()` stores `done_`
   and notifies without `pendingMtx_`. If the verifier has evaluated its
   predicate and not yet gone to sleep, the notification reaches nobody; the
   search thread then waits in `nextVerified()` for ever, or in `join()` when it
   has stopped early. `AsyncHashPipeline.h:89-90` promises that after shutdown
   `nextVerified()` drains and returns `nullopt`. Storing the flag under the
   mutex closes the window; `O11y`'s destructor, which passes through its mutex,
   shows the other way to close it.
2. **Forced cells leak on contradiction** (`Enum_OriginalEnumerated`).
   `EnumerationController_dfs.cpp:112` continues before lines 116-122 record the
   forced cells. A leaked cell constrains everything searched later, and the
   original can be lost, so that compression fails with `CompressDINotFound`
   although the search should find it (`docs/final_paper.md:97`). The undo stack
   does not record all assignments, which `BranchingController.h:24-26` says it
   does.
3. **`dirtyWords_` overruns** (`Enum_SumsHold`). `PropagationEngine.h:124`
   appends a word each time it goes from zero to non-zero, and `clearQueued` makes
   words zero during a call. The sixteen entries do not suffice at `kS = 127`: the
   first propagation of a block already needs more. After the overrun
   `resetQueued` misses words, lines are taken for queued when they are not, and
   propagation skips them: the search then submits candidates that miss a sum
   (`AsyncHashPipeline.h:26`). The row hashes still reject most of these.
4. **Elimination after line searches** (`Combinator_EliminationRight`). The cells
   of a line found by `dfsLine` (`CombinatorSolver.cpp:2135`) are not substituted
   into the equations, and elimination reads assigned cells left in a row as 0.
5. **Padding between blocks** (`FileCodec_RestoredExact`). `decompress` appends
   whole bytes for each block of 16129 bits; from the second block on everything
   is 7 bits late.
6. **Row hashes skipped** (`RowSolvers_MismatchAbandoned`). The loop that hashes
   completed rows walks a vector that row completion has overwritten
   (`RowDecomposedController_enumerateSolutionsLex.cpp:1151`).

Met while modelling, without a run of their own:

- *Sums after a leak.* When a payload's sums are no matrix's, both searches can
  give out a matrix that misses one of them: a line is looked at when a cell of it
  is assigned, and once a branch of the search has filled the rest of a line with
  cells that leak, nothing looks at it again
  (`EnumerationController_dfs.cpp:112`,
  `RowDecomposedController_enumerateSolutionsLex.cpp:934`;
  `AsyncHashPipeline.h:26` speaks of cross-sum-valid candidates only). The checked
  instances do not show it. A direct simulation of both searches does, on 7 x 7
  and 8 x 8 matrices with one of the sums changed by one and no row hashes: every
  matrix given out after a leak missed a sum, always on a line with leaked cells,
  and none did for the sums of a matrix.
- *Search.* `probeCell` leaves behind what a failing propagation forced
  (`FailedLiteralProber_tryProbeValue.cpp:43`; the header says that everything is
  undone): `ProbesUndone` states what is true instead. `probeToFixpoint` then
  reports a contradiction on most genuine blocks, eight of the nine matrices
  here; nothing but unit tests calls it.
- *RowSerialSolver.h:56* says of `Result::solved` that the full CSM was
  reconstructed; the search stops at the first matrix with the sums and CRCs and
  does not look at the block hash.
- *LtpTable.cpp:331*: a file with one table leaves the second as it was
  allocated, every cell on no line; the comment at 271-273 says that it is built by
  its own shuffle. Without a file, the second shuffle goes on from the pool the
  first left, so neither table depends on its seed alone.
- *Acceptance*: `docs/format.md:43-50` has a block accepted only if the
  reconstructed matrix reproduces the sums and every row's hash, and rejected on any
  mismatch. For DI = 0 `reconstructBlock` looks at neither and returns the row
  search's first matrix, whose row hashes may be wrong (finding 6) and which need
  not be the block where the search has lost it; a block hash that does not match is
  logged and the block returned all the same
  (`Decompressor_reconstructBlock.cpp:110-119`). `BlocksReconstructed` therefore
  speaks of blocks with DI > 0 only.
- *Left behind*: a compress that fails leaves its partial output behind
  (`docs/appendix-a-command-line-usage.md:14`).
- *CombinatorSolver.cpp*: `orderIdx` does not move back when a decision is taken
  back (2463), so that cells which became free again are not decided any more and
  a restart ends long before it has tried everything
  (`docs/experiments/B.63.md:857` sees restarts stop early); `Result.free` counts
  donated cells as free (1999).
- *Partitions of a cascade* (`CombinatorSolver.cpp:1362-1381`): yLTP's and rLTP's
  lines and equations are made after `preAssign`, from the whole matrix and without
  regard to the cells known beforehand. Such a line counts them as left (`rho` and
  `u` are documented otherwise, `CombinatorSolver.h:479`, `:485`) and may be slow to
  force, never wrong (`Overlooked`). Such an equation still mentions them, and
  `gaussElim` reads a known cell as 0: with more equations than matrices of 7 x 7
  give, wrong cells follow from right ones. The program itself shows it at 127 x 127:
  configuration `b62h` with 85 columns preassigned is declared inconsistent.
- *overlapSolver* (`cmd/overlapSolver/main.cpp:127`, against its comment at 6):
  two blocks share the last rows of one and the first rows of the other, and
  what is handed on are columns, so most of the cells handed on are wrong. That is
  never hidden: a block given wrong cells does not pass for solved
  (`WrongDonationShows`).
- *The build for 191 x 191 matrices* (`cmake/projects/combinator_solver_191.cmake:13`):
  buffers of 16 bytes are too small for lines of 128 and more cells
  (`CombinatorSolver.cpp:130`, `:1568`), and columns are hashed over 24 bytes on
  one side and 16 on the other.
- *O11y*: jobs still queued when stop is seen are dropped though the destructor's
  comment says that pending events are flushed (`O11y_impl.inc:88`, `:212`), which
  `EventsKept` states as it is: `file` and `jobs` together hold what was emitted;
  `await_suspend` reads the awaiter after the worker may have destroyed it
  (`:188`); a counter that goes down wraps its difference (`:315`).
- *Test tools*: sizes are computed for blocks of side 511
  (`min_bytes_for_n_blocks.cpp:12`); `testRunnerAlternating01` returns after its
  first size; `run_process` takes a timeout and does not look at it; the
  watchdog's comments say 10 and 30 minutes where it waits 1800 and 3600 s. The
  B.44d sidecar writer truncates its file for each block
  (`Compressor_compress.cpp:142`), so that it describes the last one only.

## Proofs

`tlapm <module>` for each of the modules below. The assumptions are the named
ones of the modules (`maxPendingAssumption`, `MaxCandidatesAssumption`,
`kSAssumption`, `ltpAssumption`, `MaxEventsAssumption`, `WidthAssumption`,
`ValuesAssumption`, and those named below); TLC evaluates each of them.
Induction is stated over sets instead of predicates (`Induction`: a set of
naturals with 0 and each successor is all of them), and `Iteration` shows that
what a recursive function is defined to be exists, so that its equation can be
used; `Runs` and `IterationUpTo` are the same for functions up to a bound.

**The pipeline** (`AsyncHashPipeline_proofs`), for every `maxPending > 0` and
every `MaxCandidates`. `TypeOK` is strengthened by `Submitting` (between the test
and the push of `submit` a candidate is still to be numbered, and room once seen
under the mutex stays) to `Typing`, which is inductive. `Protocol` is inductive
given `TypeOK`: it ties each mutex to the labels at which its holder stands, and
the flags to how far shutdown has come; mutual exclusion is what makes a test and
the push or pop that follows it one step. `NoLostWakeup` says for each of the
three condition variables that a sleeper with something to do has a notification
coming, and follows by looking at each label at which the notifier can be.
`FifoFiltering` says that `delivered`, `verified`, the candidate held and
`pending`, in this order, are increasing and are exactly the passing ones among
those already hashed, then all those not yet hashed; it needs one lemma about
appending to and taking from an increasing sequence. `NulloptComplete` follows
from it and from `Protocol`: `verifierDone_` is set only after `pending_` was seen
empty with `done_` set, and nothing is submitted after `done_`. `Refinement` puts
these together: each step of the two threads is a step of `HashFilter` or leaves
its variables alone.

**The store and the engine** (`Propagation_proofs`), for every `kS > 0` and any two
partition tables. `StatsStayExact`: `StoreTypeOK /\ StatsExact` is inductive under
`StoreAssign` and `StoreUnassign`. `AssignExact` and `UnassignExact` say what one
call does to the set of unknown and of 1 cells of each line and count the
difference of one element. `LinesOfCell` places each of a cell's six lines among
the lines there are, and `AgreeingCounts` says what the counters of a line are
when every assigned cell on it agrees with a given matrix. `LinesForCellTyped`,
`DirtyTyped` and `MarkTyped` give the types of what the engine marks, notes and queues,
whichever search uses it.

**The search** (`EnumerationController_proofs`), for every `kS > 0`, any two
partition tables, any digest and any set of blocks whose originals are matrices and
whose line sums and hashes have the ranges the payload gives them
(`BlocksAssumption`). `Invariant` is the conjunction that is inductive:

- `Typing`, `Stages` and `PropagationPlaces` are the types and which part of the
  search may stand where.
- `Recorded` is about `Trail`, the undo stack followed by the cells forced by the
  running call and not recorded yet: its cells are assigned and distinct. Every
  step that touches the store is a `Grow` of the trail by one cell, a `Shrink` by
  the last, or a `Keep` (`Moves`), so that a step of the search is a step of
  `StoreSpec` or leaves the store alone; `CountsExact` and `SearchUsesStore`
  follow.
- `FramesHold` and `FramesNest` say that each frame below the top still has its
  branch cell at its token's place on the trail with the value tried, and that
  the tokens and cells increase with depth; `PathClosed` that no cell before the
  cell of a frame is free as long as that frame stands, and that nothing the
  frame's undo takes back lies before its cell. With `HintSound` they give
  `BacktrackingExact`. Leaked cells are assigned and on no trail, and a leak only
  ever closes cells, which is why no conjunct excludes them.
- `Outrun` says that the search has left every candidate behind at some frame: it
  agrees with the store on all cells before the frame's cell, and has there a
  value the frame is done with (`Behind`). It gives `Lexicographic` at the moment
  of the next submission.
- `LinesTyped` and `ForcingRight` (while a line's cells are forced, its residual
  still says so) carry `PropagationNeverLies`: as long as the assigned cells agree with the compressed matrix, `AgreeingCounts` turns a
  residual of 0 or of all unknowns into the value of that matrix on each cell left
  of the line (`ResidualSays`).

A first free cell is taken by a guard, `IsFirst`, rather than by `CHOOSE`, so that
no step of the argument needs that a non-empty set of cells has a first one.

**What the search finds and gives out** (the second part of the same module), under the
same assumptions and that the tables name every cell a line (`ltpCoversAssumption`)
and `dirtyWords_` has at least the code's room (`RoomAssumption`).

- `SearchComplete`: the invariant is `Complete`, that the compressed matrix is
  either given out or still ahead. Ahead means: it agrees with the store before
  the cell of some frame and the frame is not done with the value it has there.
  `PropagationNeverLies` keeps it ahead when cells are forced, and a row's hash
  never rejects it.
- `QueueExact` from `QueueRight`: every queued line has its word noted, so that
  `resetQueued` empties the queue, and while a call runs the bits and the queue
  hold the same lines, each once. Both need that no note is written past the end:
  `HasRoom` says that there is room at each cell about to be forced. The code's
  sixteen entries do not always give that (finding 3), so it stands in the
  theorem as a hypothesis about the behaviour; the theorems that need it say so.
- `AmpleRoomSuffices` says how much room always is enough: one note for every line
  and six for every cell. A line is noted when its bit is new, and a call's first
  lines are distinct (`MarksCounted`), each cell forced adds its six lines and is
  not unknown any more (`WithinRoom`), so the notes never pass that sum. With that room the
  hypothesis is gone from soundness of the queue and of the candidates.
- `SearchTyped` is the full type invariant: beyond the types the other proofs carry,
  the words noted are words there are (`DirtyTyped`), an overrun count included, and
  the lines the queue yields are lines of the matrix (`QueueTyped`).
- `SumsRight`, `RowsRight` and `PropagationRight` from `LinesFine` and
  `FramesFine`: a line is fine when it is neither violated nor forces a cell, or
  waits in the queue, or holds a leaked cell; the lines that were fine when a frame
  was opened are fine again, up to leaked cells, when the search has undone to it.
  A quiet propagation with no free cell left then has every sum. For the hashes,
  a row is hashed when a branch completes it, and one without leaked cells is
  completed by a branch or by what it forces. `CandidatesRightUnlessLeaked` puts
  the two together: `CandidatesRight` while nothing has leaked, and for sums that
  are no matrix's in any case. What leaked cells do to the sums of other candidates
  is left to the run.

**The files** (`FileCodec_proofs`), for every `kS > 0`, generator, set of files and
environments (`SourcesAssumption`: files are whole bytes;
`EnvironmentsAssumption`: seeds are numbers, absent or unparseable, an LTPB file
gives each cell a number; `KnownAssumption`: what searches run over or give out
are matrices, and nothing more is asked of `Mistaken`; `BoundsAssumption`;
`NoFileAssumption`: an absent or foreign file is none of the
format) and every size the runners go through (`RunnersAssumption`;
`SideAssumption`: the side is odd, as 127 is, which only the preflight needs).

- Tables. A shuffle keeps the pool a permutation (`ShuffledRight`), and chunks of
  a permutation are disjoint lines of `kS` cells (`TableOfRight`); filling line by
  line from a valid assignment appends each cell to its line once
  (`TableFromRight`). `LtpSound` goes through what `getLtpData` may choose.
- Packing. `WidthRight` and `Unpacked`: a value that as many shifts as its width
  make 0 is read back. No line has more ones than cells (`RowColumnBound`,
  `DiagonalBound`, `PartitionBound`, the last from the tables), so every sum fits
  the width of its entry (`SumsFit`); `EntryStays` and `EntryFound` place an
  entry's bits, however many follow. `RoundTrip` is the result.
- The commands. `FileInv`: every block in the packed file describes its block of
  the source and its DI names it (`PackedRight`); what is being written or read
  describes the block it is at; while decompressing the file is whole, and what
  the buffer holds for each block with DI > 0 is that block (`DecompressRight`); a command that ended well left a whole file (`ShellRight`).
  That a size tells whether a file is whole is `SizeTells`: one more byte, for
  anything torn, is never a multiple of the block's size.
- The runners. `RunnerRight` says what a runner may rely on at each stage: a child
  that has ended well left a whole file, or a restored one; the exit code of a
  runner is 0 only when it has the source back, and `extract_exit_code` of a
  failed child is never 0.
- `PreflightPasses` counts the ones on both kinds of diagonals of the alternating
  pattern: the rows of a diagonal with ones are one stretch of rows (`LineCount`).

**The event worker** (`O11y_proofs`), for every `MaxEvents`, `Width` and
`Values`. `Typing` is the inductive form of the types. `Protocol` ties the mutex,
`started`, `stop` and the labels of main and worker together: who holds the mutex,
whether the thread exists, and what the destructor has done at each of its labels.
`NoLostNotification` follows from it and from `Drowsy`, which says that a worker
at its sleep has seen neither a job nor stop, unless main stands before a
notification; the destructor's pass through the mutex is the step that needs it.
`NothingLost` rests on two more invariants. `Places` says at which labels `local`,
the batch and the event queue may be non-empty. `Numbered` says that the file, the
batch and the event queue together hold `recorded` records, that `local` and then
`jobs` continue their numbers without gap, and that the coroutines' frames are
exactly those of the emissions not yet recorded. `Accurate` says that every
record has the difference of its counter
to the metric before it, 0 if there is none, wherever the record is by now, and that
`window` holds the value of the last metric recorded, or no baseline; it needs that a non-empty set of emissions
has a last one (`HasLast`), which is carried as an invariant: each step adds at most one emission.

**The combinator** (`Combinator_proofs`), for every `kS`, `Unit` and width of CRC
(`DimensionAssumption`, `WidthAssumption`), every affine CRC (`CrcAssumption`: what
setting one bit changes does not depend on the others), partitions into lines of
`kS` cells (`YltpAssumption`), every set of problems, files and overlaps
(`ProblemsAssumption`, `OverlapAssumption`, `FilesAssumption`;
`OverlapConfigAssumption`: `overlapSolver` runs a cascade without partitions), any
limits above 0 and any shuffle that permutes (`IterAssumption`,
`SearchAssumption`, `ShuffleAssumption`).

- The system. What the code does to sequences (joining, flattening, sorting,
  inserting) is said once, by induction over their length. Rows, columns,
  diagonals, partitions and spirals are lines of distinct cells; a line's parity,
  its sum and, because the CRC is affine (`CrcIsLinear`), each bit of its CRC make
  an equation or an integer line that holds of the matrix (`BuiltOf`).
- Elimination. `SubstituteRight`: putting right cells into true equations leaves
  them true. `GaussOf`: the working rows stay sums of the equations, pivots
  distinct (`Pivoted`). `GaussRight` needs more than truth: `gaussElim` drops known
  cells from a row without counting them, so every equation must be free of known
  cells, or consist of them (`CleanOf`); columns known as a whole give that, and
  each deduction keeps it.
- Bounds. `RightSeen`: with right cells the `rho` of a line is the ones and its `u`
  the cells left on it, so that what it forces is right. `propagateIB` is a
  sequence of such steps (`Reach`).
- `SolverSound` is the inductive invariant: `InputRight` and `FilesRight` (what the
  programs were given), `SystemTyped`, `ControlRight` (what each label knows of the
  counters), `BoundRight` (the cells a bound pass has found are assigned and not yet
  substituted), `SearchRight` and `StackNested` (the snapshots of a restart extend
  the baseline and each other, with the decision's cell free), `DonatedKept`,
  `EquationsRight`, `CountRight`, `VerdictRight` (a block that passes for solved is
  the original) and `BaselineOrBlock`. From it follow `SolverTyped`,
  `RestartsTakeBack` and, with an analysis of the report (`ReportOf`),
  `AnswersAreHonest`, whatever the donations were.
- `AllExact` adds that each line, in the system, in the baseline and in each
  snapshot, counts the cells of now or overlooks those given beforehand
  (`LinesSeen`); with it, `SystemStaysSound`.
- `PathsRight`: as long as the decisions below are right, the cells of a snapshot
  are, and a decision reversed to 1 was rightly reversed. Bounds, CRCs and row
  hashes allow the right value (`RightAllowed`), so a refused one is wrong.
  `RefutationsStayRight` follows.
- `AlgebraRight`, for the methods without a search: cells are right, the system is
  feasible and the equations are clean of `Settled`, the cells they have been told
  of. `ReductionIsMonotone` is the refinement of `Deduction`. Its hypothesis
  `NothingOverlooked` is that no columns are given beforehand to a cascade with
  partitions; without it the conclusion does not hold of large matrices (see the
  findings).

**The row solvers** (`RowSolvers_proofs`), for every `kS > 0`, any two partition
tables, any digest, any thresholds (`RowSolvingAssumption`, `StallAssumption`,
`SerialAssumption`, `ProberAssumption` and the like), any blocks whose sums are
numbers (`BlocksAssumption`), any sidecar files (`SidecarFilesAssumption`: what is
read are sequences, and a line has finitely many sums) and any beliefs about cells
(`BeliefsAssumption`). Nothing is asked of the payload: sums may be
unreachable, rows and sidecars may belong to another block. `RowInv` has one part
for each of the three solvers, and `RowSolversTyped` and `BacktrackingStaysSound`
follow from it.

- What the two that keep an undo stack share: `Recorded`, that what they can take back (`Trail`,
  the undo stack and the forced cells that still wait to be recorded) is assigned
  and named once. As in the enumeration every step is a `Grow`, a `Shrink` or a
  `Keep`, which carries `StatsExact` through; what failed propagations forced stays
  assigned and is on no trail.
- The decomposed search (`DecomposedInv`). `FramesHold`: each frame's cell is on the
  undo stack right above its token, and tokens go up with depth; for the top frame
  that depends on whether its cell has been tried, is being undone or is yet to be
  tried. Frames' cells are therefore distinct cells, which bounds the depth
  (`DepthBounded`): the search never turns round. `SidecarsHold`: a sidecar's log
  has no cell twice, its entries say what the cells say, each frame that has tried a
  value has its mark (`MarksCount`), and what is entered after a frame's mark lies
  above its token on the stack (`MarksHold`), so that undoing the frame and unwinding
  the log to its mark agree. `NotCounted`, `WaveRecorded` and `ForcedUncounted` say
  how far the three kinds of counters have come at each label between a propagation
  and the end of the cascade; without them a cell could be counted twice.
- The probes (`ProbesHold`): since a probe began only free cells have been
  assigned, and each is above the probe's token on the stack or was forced by a
  propagation that failed. When the token is reached the rest is what was leaked.
- The prober (`ProberInv`). `DeepHold`: a call of `probeAlternateDeep` has a lower
  depth than the call it was made from, so the recursion has at most `kMaxDepth`
  frames, and it began on an empty stack.
- The serial search (`SerialInv`). `NodesHold`: each snapshot is exact
  (`SnapshotExact`), which `Restore` hands on to the store; it holds every cell that
  the snapshots above it hold, and all of the rows branched on above it
  (`Settled`), and the store holds the cells of each. `AssignLine` writes only free
  cells, a candidate being a set of cells free in the snapshot.

## Only model-checked

All liveness properties: the prover does not reason about fairness. Of `Enum5`:
that once cells have leaked a candidate for the sums of a matrix still has the
sums and hashes of the lines with leaked cells, the part of `CandidatesRight` that
`SumsRight` and `RowsRight` leave. Of `Combinator7`: `FixpointComplete`,
that what a fixpoint leaves free no deduction can find, and `MonotoneReduction` for
cascades with partitions and columns known beforehand. Of `RowSolvers7`:
`AnswersRight` and `NothingLost`.

## Not modelled

- A row hash is a constant operator on the row's set of 1 columns; the packing of
  a row into bytes and the CRC's polynomial are not modelled. In `FileCodec` and
  `TestRunners` hashes have no collisions unless the digest of rows is `NoRowDigest`.
- The cells of an LTP line are forced in row-major order, in the code in the
  order of the table. The fixpoint does not depend on it; which cells leak at a
  contradiction may.
- In the solvers LTP tables are any assignment of cells to lines. LTP3 to LTP6 are
  unused in the code and left out.
- The overrun of `dirtyWords_` has the outcome the class layout gives it; further
  entries past `dirtyCount_` cannot be reached in the model, because the count
  falls back at the first one. The growth of `forced_` past its reserved 256 cells
  while a reference to it is held is not modelled: the reference stays valid, the
  iterators of a loop over it would not.
- `RowDecomposedController`: the bottom-up direction waits for a stack of 85000
  frames, and the stack has at most one frame for each of 16129 cells
  (`DepthBounded`). Its B.40 profiling and B.42 diagnostics count and print.
  Beliefs are floating-point numbers; after an escalation they are any element of
  `Beliefs`. `probeProp`'s own queue is the engine's here: every call starts by
  clearing it.
- Sidecars: the files are consistent in the lengths of their arrays.
- `O11y`: one thread emits, the heartbeat is started at most once at a time, the
  events file can be opened, and `get_event`, the counts and the tags are left
  out.
- Runners: one child at a time, the shell wrappers are skipped, and a time limit
  is looked at when the child has ended.
- `ReasonGraph` and `ConflictAnalyzer` have no caller outside their unit tests.
  `MetalPropagationEngine` needs a GPU; its CPU fallback repeats the engine.
  `FileBitSerializer`, the viewer, `hasher`, `binDumper` and the scripts are
  single passes over files. `common/Generator` appears as the consumer's choice to
  go on or to stop at each yield; the ownership of its frame is not modelled.
- The build of the combinator solver for 191 x 191 matrices is a different
  instance of the same code; what it gets wrong is in the findings.

## Plan

What would add most from here:

1. `AnswersRight` of the row solvers for every `kS`: that every line without leaked
   cells of a matrix given out was looked at after its last cell, which takes the settling of lines
   (`LinesFine`) from the enumeration over to the two searches.
2. The elimination part of `FixpointComplete` for every system: that a cell
   `gaussElim` leaves undetermined takes both values among the solutions.
3. `common/Generator`'s ownership of coroutine frames together with the
   pipeline's early stop.
