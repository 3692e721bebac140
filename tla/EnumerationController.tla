------------------------- MODULE EnumerationController -------------------------
(***************************************************************************)
(* decompress/Solvers/EnumerationController with its BranchingController:  *)
(* depth-first enumeration, in lexicographic order, of the matrices that   *)
(* have a block's cross-sums and row hashes.  enumerate() (api "callback") *)
(* and enumerateSolutionsLex() (api "generator") differ in the lines first *)
(* propagated and in what an early stop cleans up.                         *)
(*                                                                         *)
(* The hash pipeline is AsyncHashPipeline's business: here a candidate is  *)
(* submitted, and a consumer that got a solution may stop.                 *)
(***************************************************************************)
EXTENDS BranchingController

CONSTANTS
  Digest(_, _),  \* the row hash (CRC-32) under a hash assumption, on a row given
                 \* as its set of 1 columns
  Blocks         \* the payloads to solve: [original, target, hash, lh]

VARIABLES
  api,               \* "callback" or "generator"
  original,          \* the matrix that was compressed
  hash,              \* the hash assumption the run is made under
  lh,                \* lh[r]: the expected digest of row r
  frames,            \* the explicit DFS stack
  pc,
  submitted,         \* matrices given to the pipeline, in order
  yielded            \* matrices yielded without going through the pipeline

input    == <<target, api, original, hash, lh>>
output   == <<submitted, yielded>>
vars     == <<store, engine, input, brancher, frames, pc, output>>

Matrices == [Cells -> {0, 1}]

ASSUME BlocksAssumption ==
  \A b \in Blocks : b.original \in Matrices /\ b.target \in [Lines -> Int] /\ DOMAIN b.lh = Index

RowOfMatrix(m, r) == {c \in Index : m[<<r, c>>] = 1}

\* What the compressor writes for a matrix.
BlockOf(m, h) ==
  [original |-> m,
   target   |-> [l \in Lines |-> Cardinality({x \in CellsOn[l] : m[x] = 1})],
   hash     |-> h,
   lh       |-> [r \in Index |-> Digest(h, RowOfMatrix(m, r))]]

Init ==
  /\ StoreInit
  /\ EngineInit
  /\ BranchingInit
  /\ \E b \in Blocks :
       original = b.original /\ target = b.target /\ hash = b.hash /\ lh = b.lh
  /\ api \in {"callback", "generator"}
  /\ frames = <<>>
  /\ pc = "start"
  /\ submitted = <<>>
  /\ yielded = <<>>

-------------------------------------------------------------------------------
(* The initial propagation.                                                *)

BasicLines == LinesOfType("row") \o LinesOfType("column")
                \o LinesOfType("diagonal") \o LinesOfType("antiDiagonal")

Start ==
  /\ pc = "start"
  /\ Propagate(IF api = "callback" THEN BasicLines
               ELSE BasicLines \o LinesOfType("ltp1") \o LinesOfType("ltp2"))
  /\ pc' = "initial"
  /\ UNCHANGED <<store, input, brancher, frames, output>>

InitialInfeasible ==
  /\ pc = "initial" /\ prop = "infeasible"
  /\ pc' = "ended"
  /\ UNCHANGED <<store, engine, input, brancher, frames, output>>

\* Propagation alone decided every cell: yielded as it is, without hashing.
InitialSolved ==
  /\ pc = "initial" /\ prop = "feasible"
  /\ RecordForced
  /\ Open = {}
  /\ yielded' = Append(yielded, rowBits)
  /\ pc' = "ended"
  /\ UNCHANGED <<store, engine, input, minUnassignedRow, frames, submitted>>

Push(x) == frames' = Append(frames, [cell |-> x, nextValue |-> 0, token |-> 0])

InitialBranch ==
  /\ pc = "initial" /\ prop = "feasible"
  /\ RecordForced
  /\ Open # {}
  /\ \E x \in Open : NextCell(x) /\ Push(x)
  /\ pc' = "loop"
  /\ UNCHANGED <<store, engine, input, output>>

-------------------------------------------------------------------------------
(* The DFS loop.  Each turn first undoes what the top frame's last value   *)
(* did, then tries its next value or pops the frame.                       *)

Top == frames[Len(frames)]

ToUndo == frames # <<>> /\ Top.nextValue > 0 /\ Len(undoStack) > Top.token

Undo ==
  /\ pc = "loop" /\ ToUndo
  /\ UndoLast
  /\ UNCHANGED <<engine, input, frames, pc, output>>

\* A variant that gives up a frame after its first value.
PopAfterFirst ==
  /\ pc = "loop" /\ frames # <<>> /\ ~ToUndo
  /\ Top.nextValue >= 1
  /\ frames' = SubSeq(frames, 1, Len(frames) - 1)
  /\ UNCHANGED <<store, engine, input, brancher, pc, output>>

Pop ==
  /\ pc = "loop" /\ frames # <<>> /\ ~ToUndo
  /\ Top.nextValue >= 2
  /\ frames' = SubSeq(frames, 1, Len(frames) - 1)
  /\ UNCHANGED <<store, engine, input, brancher, pc, output>>

\* Variants: the save point is taken after the cell is recorded; 1 comes before 0.
TryTokenLate ==
  /\ pc = "loop" /\ frames # <<>> /\ ~ToUndo
  /\ Top.nextValue < 2
  /\ frames' = [frames EXCEPT ![Len(frames)] =
                  [cell |-> @.cell, nextValue |-> @.nextValue + 1, token |-> Len(undoStack) + 1]]
  /\ Assign(Top.cell, Top.nextValue)
  /\ undoStack' = Append(undoStack, Top.cell)
  /\ pc' = "try"
  /\ UNCHANGED <<engine, input, minUnassignedRow, output>>

TryOneFirst ==
  /\ pc = "loop" /\ frames # <<>> /\ ~ToUndo
  /\ Top.nextValue < 2
  /\ frames' = [frames EXCEPT ![Len(frames)] =
                  [cell |-> @.cell, nextValue |-> @.nextValue + 1, token |-> Len(undoStack)]]
  /\ Assign(Top.cell, 1 - Top.nextValue)
  /\ undoStack' = Append(undoStack, Top.cell)
  /\ pc' = "try"
  /\ UNCHANGED <<engine, input, minUnassignedRow, output>>

\* branchOrder() is {0, 1}: the value tried is nextValue itself.
Try ==
  /\ pc = "loop" /\ frames # <<>> /\ ~ToUndo
  /\ Top.nextValue < 2
  /\ frames' = [frames EXCEPT ![Len(frames)] =
                  [cell |-> @.cell, nextValue |-> @.nextValue + 1, token |-> Len(undoStack)]]
  /\ Assign(Top.cell, Top.nextValue)
  /\ undoStack' = Append(undoStack, Top.cell)
  /\ pc' = "try"
  /\ UNCHANGED <<engine, input, minUnassignedRow, output>>

TryPropagate ==
  /\ pc = "try"
  /\ TryPropagateCell(Top.cell)
  /\ pc' = "result"
  /\ UNCHANGED <<store, input, brancher, frames, output>>

\* propagate found a contradiction: the loop goes on at once, and the cells
\* this call had forced are not recorded on the undo stack.
Contradiction ==
  /\ pc = "result" /\ prop = "infeasible"
  /\ pc' = "loop"
  /\ UNCHANGED <<store, engine, input, brancher, frames, output>>

RowBits(r) == {c \in Index : <<r, c>> \in rowBits}

verifyRow(r) == Digest(hash, RowBits(r)) = lh[r]

\* A variant that hashes a row when one of its cells is still missing, and not
\* when it is complete.
RowsAlmostComplete ==
  {r \in {x[1] : x \in {Top.cell} \cup Range(forced)} : unknown[RowOf(r)] = 1}

\* The rows this assignment and its forced cells completed.
CompletedRows ==
  {r \in {x[1] : x \in {Top.cell} \cup Range(forced)} : unknown[RowOf(r)] = 0}

HashMismatch ==
  /\ pc = "result" /\ prop = "feasible"
  /\ RecordForced
  /\ \E r \in CompletedRows : ~verifyRow(r)
  /\ pc' = "loop"
  /\ UNCHANGED <<store, engine, input, minUnassignedRow, frames, output>>

Descend ==
  /\ pc = "result" /\ prop = "feasible"
  /\ RecordForced
  /\ \A r \in CompletedRows : verifyRow(r)
  /\ \E x \in Open : NextCell(x) /\ Push(x)
  /\ pc' = "loop"
  /\ UNCHANGED <<store, engine, input, output>>

\* The row bits of the store are what the pipeline hashes again.
Verified(m) == \A r \in Index : Digest(hash, {c \in Index : <<r, c>> \in m}) = lh[r]

\* A leaf.  The loop goes on, or a callback that was handed a solution returns
\* false.
Submit ==
  /\ pc = "result" /\ prop = "feasible"
  /\ RecordForced
  /\ \A r \in CompletedRows : verifyRow(r)
  /\ Open = {}
  /\ submitted' = Append(submitted, rowBits)
  /\ \/ pc' = "loop"
     \/ /\ api = "callback"
        /\ \E m \in Range(submitted') : Verified(m)
        /\ pc' = "cleanup"
  /\ UNCHANGED <<store, engine, input, minUnassignedRow, frames, yielded>>

\* Early stop: undo down to the first frame's token.
Cleanup ==
  /\ pc = "cleanup"
  /\ IF Len(undoStack) > Head(frames).token
     THEN UndoLast /\ pc' = pc
     ELSE pc' = "ended" /\ UNCHANGED <<store, brancher>>
  /\ UNCHANGED <<engine, input, frames, output>>

Exhausted ==
  /\ pc = "loop" /\ frames = <<>>
  /\ pc' = "ended"
  /\ UNCHANGED <<store, engine, input, brancher, frames, output>>

Propagating ==
  /\ EngineStep
  /\ UNCHANGED <<input, brancher, frames, pc, output>>

Next ==
  \/ Start \/ InitialInfeasible \/ InitialSolved \/ InitialBranch
  \/ Undo \/ Pop \/ Try \/ TryPropagate
  \/ Contradiction \/ HashMismatch \/ Descend \/ Submit
  \/ Cleanup \/ Exhausted \/ Propagating

Spec == Init /\ [][Next]_vars /\ WF_vars(Next)

-------------------------------------------------------------------------------
(* Properties.                                                             *)

TypeOK ==
  /\ StoreTypeOK /\ EngineTypeOK /\ BranchingTypeOK
  /\ api \in {"callback", "generator"}
  /\ original \in Matrices
  /\ DOMAIN lh = Index
  /\ frames \in Seq([cell : Cells, nextValue : 0..2, token : Nat])
  /\ pc \in {"start", "initial", "loop", "try", "result", "cleanup", "ended"}
  /\ submitted \in Seq(SUBSET Cells)
  /\ yielded \in Seq(SUBSET Cells)

Bits(m) == {x \in Cells : m[x] = 1}

\* The payload was written by the compressor for the original, undamaged.
Genuine == BlockOf(original, hash).target = target /\ BlockOf(original, hash).lh = lh

GenuineSums == BlockOf(original, hash).target = target

\* Cells assigned by the search that no undo will ever take back.
Leaked ==
  {x \in Cells : cells[x] # Unassigned}
    \ (Range(undoStack) \cup (IF pc \in {"initial", "result"} THEN Range(forced) ELSE {}))

\* Propagation from a partial assignment that the compressed matrix extends
\* forces its values and never prunes it.
SoundForcing ==
  GenuineSums /\ pc \in {"initial", "result"} => SoundFor(original)

\* Propagation that succeeds leaves nothing violated or still to force, as long
\* as every line was propagated at the start and nothing has leaked.
SettledWhenFeasible ==
  /\ api = "generator"
  /\ pc \in {"initial", "result"} /\ prop = "feasible"
  /\ Leaked = {}
  => Settled

\* Propagation is sound, complete and keeps its queue, call after call, though a
\* call that fails leaves its lines queued for the next to clear.
PropagationSound == SoundForcing /\ SettledWhenFeasible /\ QueuedExact

\* The candidates come in strictly increasing lexicographic order, so a DI
\* names the same matrix for the compressor and the decompressor and no
\* candidate comes twice, whatever has leaked.
LexOrder ==
  \A i, j \in DOMAIN submitted : i < j => LexLess(submitted[i], submitted[j])

\* AsyncHashPipeline.h: "The DFS thread submits cross-sum-valid candidates."
SumsHold ==
  \A m \in Range(submitted) \cup Range(yielded) :
    \A l \in Lines : Cardinality(CellsOn[l] \cap m) = target[l]

\* EnumerationController_dfs.cpp, where a candidate is submitted: "All cells
\* assigned and all row hashes verified inline".  Rows completed by the initial
\* propagation or by a leak are not hashed inline, and still match.
AllRowsVerifiedInline ==
  Genuine => \A m \in Range(submitted) : Verified(m)

\* What is given out has the payload's sum on every line none of whose cells has
\* leaked, though a line is looked at only when a cell of it is assigned.
SumsUnlessLeaked ==
  \A m \in Range(submitted) \cup Range(yielded) : \A l \in Lines :
    CellsOn[l] \cap Leaked = {} => Cardinality(CellsOn[l] \cap m) = target[l]

\* What a candidate is worth: every sum, when the payload's sums are a matrix's,
\* and otherwise the sum of every line without a leaked cell; the hash of every
\* row, when the payload is the compressor's.
CandidatesRight == SumsUnlessLeaked /\ (GenuineSums => SumsHold) /\ AllRowsVerifiedInline

Found == Bits(original) \in Range(submitted) \cup Range(yielded)

\* While nothing leaks, a search that is not stopped early reaches the
\* compressed matrix: the inline row hashes, the pruning and the backtracking
\* lose no solution.
FoundUnlessLeaked ==
  Genuine /\ pc = "ended" /\ frames = <<>> /\ Leaked = {} => Found

\* The DFS stack, the undo stack and the store tell the same story: every open
\* frame but the top one holds, in the store, the value it tried last, recorded
\* on the undo stack exactly at its token; the frames' cells come in row-major
\* order; and the top frame's cell is free again when its next value is tried.
FramesMatchStore ==
  /\ \A i \in IF pc \in {"loop", "try", "result"} THEN 1..(Len(frames) - 1) ELSE {} :
       /\ cells[frames[i].cell] = frames[i].nextValue - 1
       /\ undoStack[frames[i].token + 1] = frames[i].cell
       /\ Before(frames[i].cell, frames[i + 1].cell)
  /\ pc = "loop" /\ frames # <<>> /\ ~ToUndo => cells[Top.cell] = Unassigned

\* Backtracking restores exactly the state it left: the hint of the next cell
\* skips none, undoing touches no cell twice, and frames, undo stack and store
\* agree, at every depth.
BacktrackingSound == HintSound /\ UndoStackSound /\ FramesMatchStore

\* The search always comes to an end.
Terminates == <>(pc = "ended")

\* BranchingController.h, of the undo stack: it "records all assignments (both
\* explicit branches and forced propagations)".
UndoStackRecordsAll == pc = "loop" => Leaked = {}

\* The compressed matrix is among the solutions an undisturbed enumeration of
\* its own payload reaches.
OriginalEnumerated == Genuine /\ pc = "ended" /\ frames = <<>> => Found
===============================================================================
