------------------------ MODULE RowDecomposedController ------------------------
(***************************************************************************)
(* decompress/Solvers/RowDecomposedController::enumerateSolutionsLex, with *)
(* FailedLiteralProber, Crc32RowCompleter and StallDetector: the depth-    *)
(* first search that reconstructs a block with DI = 0.  It prefers cells   *)
(* of rows near completion, probes both values of a cell before it takes   *)
(* one, and completes rows from their CRC-32.                              *)
(*                                                                         *)
(* The bottom-up direction is left out: it waits for a depth               *)
(* (kMinDepthForBuSwitch) above the number of cells, see DepthBounded.     *)
(***************************************************************************)
EXTENDS Sidecars, StallDetector

CONSTANTS
  kReseed,   \* iterations between two refills of rowHeap (4096 in the code)
  Beliefs    \* what belief propagation may leave as the values to prefer

ASSUME kReseedAssumption == kReseed \in Nat \ {0}
ASSUME BeliefsAssumption == Beliefs \subseteq [Cells -> CellState]

\* BeliefPropagator: before its first run it has no say.
NoBelief == [x \in Cells |-> Unassigned]

AllRows == [i \in 1..kS |-> i - 1]

HeapBefore(a, b) == a[1] < b[1] \/ (a[1] = b[1] /\ a[2] <= b[2])

\* rowHeap.emplace(unknown, row), for every row of a sequence that is near
\* completion; the heap is kept as the sequence in which it would be emptied.
NearCompletion(r) == unknown[RowOf(r)] \in 1..kRowCompletionThreshold

Inserted(heap, e) ==
  LET ahead == Cardinality({i \in DOMAIN heap : HeapBefore(heap[i], e)})
  IN  SubSeq(heap, 1, ahead) \o <<e>> \o SubSeq(heap, ahead + 1, Len(heap))

Pushed(heap, rows) ==
  LET upTo[i \in 0..Len(rows)] ==
        IF i = 0 THEN heap
        ELSE IF NearCompletion(rows[i]) THEN Inserted(upTo[i - 1], <<unknown[RowOf(rows[i])], rows[i]>>)
        ELSE upTo[i - 1]
  IN  upTo[Len(rows)]

Top == frames[Len(frames)]

\* order: the cell of cellOrder at the frame's orderIdx.
Frame(x, order, value) ==
  [cell |-> x, order |-> order, preferred |-> value, nextValue |-> 0, token |-> 0]

DecomposedInit ==
  /\ solver = "decomposed"
  /\ pc = "start"
  /\ call = <<>>
  /\ locals = [rowHeap |-> <<>>, iterations |-> 0, detector |-> NewDetector,
               belief |-> NoBelief, guessed |-> FALSE,
               counted |-> [kind \in Kinds |-> <<>>], marks |-> <<>>]

-------------------------------------------------------------------------------
(* The initial propagation.                                                *)

Start ==
  /\ pc = "start"
  /\ Propagate(AllLines)
  /\ pc' = "initial"
  /\ UNCHANGED <<store, input, brancher, frames, call, locals, answers>>

InitialInfeasible ==
  /\ pc = "initial" /\ prop = "infeasible"
  /\ pc' = "ended"
  /\ UNCHANGED <<store, engine, input, brancher, frames, call, locals, answers>>

\* Everything is determined: given out if every row has its digest.
InitialSolved ==
  /\ pc = "initial" /\ prop = "feasible" /\ AllComplete
  /\ RecordForced
  /\ answers' = IF \A r \in Index : verifyRow(r) THEN <<rowBits>> ELSE <<>>
  /\ pc' = "ended"
  /\ UNCHANGED <<store, engine, input, minUnassignedRow, frames, call, locals>>

\* cellOrder lists the unassigned cells row by row, each with 0 preferred.
InitialBranch ==
  /\ pc = "initial" /\ prop = "feasible" /\ ~AllComplete
  /\ RecordForced
  /\ LET first == FirstOf(Open) IN frames' = <<Frame(first, first, 0)>>
  /\ locals' = [locals EXCEPT !.rowHeap = Pushed(@, AllRows), !.counted = CountedAtLoad]
  /\ pc' = "loop"
  /\ UNCHANGED <<store, engine, input, minUnassignedRow, call, answers>>

-------------------------------------------------------------------------------
(* A turn of the loop: undo what the frame did, then pop it or take its    *)
(* next value, on the first turn after probing both.                       *)

Undone == Len(undoStack) <= Top.token

AssignAndRecord(x, v) ==
  /\ Assign(x, v)
  /\ undoStack' = Append(undoStack, x)
  /\ UNCHANGED minUnassignedRow

Undo ==
  /\ pc \in {"loop", "unprobe"} /\ frames # <<>>
  /\ pc = "loop" => Top.nextValue > 0
  /\ ~Undone
  /\ UndoLast
  /\ UNCHANGED <<engine, input, control>>

Pop ==
  /\ pc = "loop" /\ frames # <<>> /\ Undone
  /\ Top.nextValue = 2
  /\ frames' = SubSeq(frames, 1, Len(frames) - 1)
  /\ locals' = Unwound(locals)
  /\ UNCHANGED <<store, engine, input, brancher, pc, call, answers>>

\* probeCell: tryProbeValue with 0, then with 1.
Probe(v, zeroOk) ==
  /\ AssignAndRecord(Top.cell, v)
  /\ call' = [value |-> v, zeroOk |-> zeroOk, ok |-> FALSE, before |-> cells]
  /\ pc' = "probe"
  /\ UNCHANGED <<engine, input, answers>>

ProbeZero ==
  /\ pc = "loop" /\ frames # <<>>
  /\ Top.nextValue = 0
  /\ Probe(0, FALSE)
  /\ frames' = [frames EXCEPT ![Len(frames)].nextValue = 1,
                              ![Len(frames)].token = Len(undoStack)]
  /\ locals' = Marked(locals)

ProbeOne ==
  /\ pc = "unprobe" /\ Undone /\ call.value = 0
  /\ Probe(1, call.ok)
  /\ UNCHANGED <<frames, locals>>

ProbePropagate ==
  /\ pc = "probe"
  /\ TryPropagateCell(Top.cell)
  /\ pc' = "probed"
  /\ UNCHANGED <<store, input, brancher, frames, call, locals, answers>>

\* The cells the failing propagation forced are on no undo stack.
ProbeContradiction ==
  /\ pc = "probed" /\ prop = "infeasible"
  /\ pc' = "unprobe"
  /\ UNCHANGED <<store, engine, input, brancher, frames, call, locals, answers>>

\* The rows completed by a cell and by those the propagation before forced.
TouchedRows   == {x[1] : x \in {Top.cell} \cup Range(forced)}
CompletedRows == {r \in TouchedRows : Complete(RowOf(r))}

\* A variant that hashes rows that are not complete yet, too.
ProbeJudgeIncomplete ==
  /\ pc = "probed" /\ prop = "feasible"
  /\ RecordForced
  /\ call' = [call EXCEPT !.ok = \A r \in TouchedRows : verifyRow(r)]
  /\ pc' = "unprobe"
  /\ UNCHANGED <<store, engine, input, minUnassignedRow, frames, locals, answers>>

ProbeJudge ==
  /\ pc = "probed" /\ prop = "feasible"
  /\ RecordForced
  /\ call' = [call EXCEPT !.ok = \A r \in CompletedRows : verifyRow(r)]
  /\ pc' = "unprobe"
  /\ UNCHANGED <<store, engine, input, minUnassignedRow, frames, locals, answers>>

BothInfeasible ==
  /\ pc = "unprobe" /\ Undone /\ call.value = 1
  /\ ~call.zeroOk /\ ~call.ok
  /\ frames' = [frames EXCEPT ![Len(frames)].nextValue = 2]
  /\ pc' = "loop"
  /\ UNCHANGED <<store, engine, input, brancher, call, locals, answers>>

\* Both values feasible: the preferred one first.  One feasible: only that one.
TryPreferred ==
  /\ pc = "unprobe" /\ Undone /\ call.value = 1
  /\ call.zeroOk /\ call.ok
  /\ AssignAndRecord(Top.cell, Top.preferred)
  /\ pc' = "try"
  /\ UNCHANGED <<engine, input, frames, call, locals, answers>>

TryForced ==
  /\ pc = "unprobe" /\ Undone /\ call.value = 1
  /\ call.zeroOk # call.ok
  /\ AssignAndRecord(Top.cell, IF call.zeroOk THEN 0 ELSE 1)
  /\ frames' = [frames EXCEPT ![Len(frames)].nextValue = 2]
  /\ pc' = "try"
  /\ UNCHANGED <<engine, input, call, locals, answers>>

\* A variant that stays at the second value.
TryAlternateAgain ==
  /\ pc = "loop" /\ frames # <<>> /\ Undone
  /\ Top.nextValue = 1
  /\ AssignAndRecord(Top.cell, 1 - Top.preferred)
  /\ frames' = [frames EXCEPT ![Len(frames)].token = Len(undoStack)]
  /\ pc' = "try"
  /\ locals' = Marked(Unwound(locals))
  /\ UNCHANGED <<engine, input, call, answers>>

TryAlternate ==
  /\ pc = "loop" /\ frames # <<>> /\ Undone
  /\ Top.nextValue = 1
  /\ AssignAndRecord(Top.cell, 1 - Top.preferred)
  /\ frames' = [frames EXCEPT ![Len(frames)].nextValue = 2,
                              ![Len(frames)].token = Len(undoStack)]
  /\ pc' = "try"
  /\ locals' = Marked(Unwound(locals))
  /\ UNCHANGED <<engine, input, call, answers>>

TryPropagate ==
  /\ pc = "try"
  /\ TryPropagateCell(Top.cell)
  /\ pc' = "result"
  /\ UNCHANGED <<store, input, brancher, frames, call, locals, answers>>

Contradiction ==
  /\ pc \in {"result", "sidecarPropagated", "filled"} /\ prop = "infeasible"
  /\ pc' = "loop"
  /\ UNCHANGED <<store, engine, input, brancher, frames, call, locals, answers>>

\* The branched cell and the cells the last propagation forced.
Wave == <<Top.cell>> \o [i \in DOMAIN forced |-> <<forced[i][1], forced[i][2]>>]

Propagated ==
  /\ pc = "result" /\ prop = "feasible"
  /\ RecordForced
  /\ locals' = Counting(locals, "parity", Entries(Wave))
  /\ call' = [kind |-> "parity", todo |-> <<>>]
  /\ pc' = "sidecar"
  /\ UNCHANGED <<store, engine, input, minUnassignedRow, frames, answers>>

-------------------------------------------------------------------------------
(* The cells the sidecars force, each propagated, until they force no      *)
(* more: first by parities, then by sums.  The sums count the forced cells *)
(* that the last propagation left, not those of the waves before.          *)

Cascade ==
  /\ pc = "sidecar" /\ call.todo = <<>>
  /\ CheckForcing(call.kind) # <<>>
  /\ call' = [call EXCEPT !.todo = CheckForcing(call.kind)]
  /\ UNCHANGED <<store, engine, input, brancher, pc, frames, locals, answers>>

CascadeKnown ==
  /\ pc = "sidecar" /\ call.todo # <<>> /\ cells[Head(call.todo).cell] # Unassigned
  /\ call' = [call EXCEPT !.todo = Tail(@)]
  /\ UNCHANGED <<store, engine, input, brancher, pc, frames, locals, answers>>

CascadeCell ==
  /\ pc = "sidecar" /\ call.todo # <<>> /\ cells[Head(call.todo).cell] = Unassigned
  /\ LET due == Head(call.todo)
     IN  /\ AssignAndRecord(due.cell, due.value)
         /\ locals' = Counting(locals, call.kind, <<<<due.cell, due.value>>>>)
  /\ pc' = "sidecarPropagate"
  /\ UNCHANGED <<engine, input, frames, call, answers>>

CascadePropagate ==
  /\ pc = "sidecarPropagate"
  /\ TryPropagateCell(Head(call.todo).cell)
  /\ pc' = "sidecarPropagated"
  /\ UNCHANGED <<store, input, brancher, frames, call, locals, answers>>

Cascaded ==
  /\ pc = "sidecarPropagated" /\ prop = "feasible"
  /\ RecordForced
  /\ locals' = Counting(locals, call.kind, Tail(Entries(Wave)))
  /\ call' = [call EXCEPT !.todo = Tail(@)]
  /\ pc' = "sidecar"
  /\ UNCHANGED <<store, engine, input, minUnassignedRow, frames, answers>>

ParityDone ==
  /\ pc = "sidecar" /\ call.kind = "parity" /\ call.todo = <<>>
  /\ b44cCheckForcing = <<>>
  /\ locals' = Counting(locals, "sums", Entries(Wave))
  /\ call' = [call EXCEPT !.kind = "sums"]
  /\ UNCHANGED <<store, engine, input, brancher, pc, frames, answers>>

\* The rows that came near completion join the heap.
CascadeDone ==
  /\ pc = "sidecar" /\ call.kind = "sums" /\ call.todo = <<>>
  /\ b45CheckForcing = <<>>
  /\ locals' = [locals EXCEPT !.rowHeap = Pushed(@, [i \in DOMAIN Wave |-> Wave[i][1]])]
  /\ call' = [at |-> 0, memory |-> <<>>, todo |-> <<>>]
  /\ pc' = "complete"
  /\ UNCHANGED <<store, engine, input, brancher, frames, answers>>

-------------------------------------------------------------------------------
(* Completion from the CRC-32, of the cell's row and of the rows of the    *)
(* forced cells.  The loop over the forced cells reads the propagator's    *)
(* own vector: it begins when the cell's row is done, goes on for as many  *)
(* cells as the vector has then, and each propagation of a completed cell  *)
(* overwrites the vector from the front.  call.memory is what the loop     *)
(* finds there.                                                            *)

AtRow == IF call.at = 0 THEN Top.cell[1] ELSE call.memory[call.at][1]

Completable(r) ==
  /\ call.at # 0 => r # Top.cell[1]
  /\ unknown[RowOf(r)] \in 1..kThreshold

NextRow ==
  call' = [call EXCEPT !.at = @ + 1, !.memory = IF call.at = 0 THEN forced ELSE @]

SkipRow ==
  /\ pc = "complete" /\ call.at <= Len(call.memory) /\ ~Completable(AtRow)
  /\ NextRow
  /\ UNCHANGED <<store, engine, input, brancher, pc, frames, locals, answers>>

CompletionInfeasible ==
  /\ pc = "complete" /\ call.at <= Len(call.memory) /\ Completable(AtRow)
  /\ \E result \in CompletionResults(AtRow) : ~result.feasible
  /\ pc' = "loop"
  /\ UNCHANGED <<store, engine, input, brancher, frames, call, locals, answers>>

\* The completion found, cell by cell from the left; guessed remembers that the
\* row had others.
CompleteRow ==
  /\ pc = "complete" /\ call.at <= Len(call.memory) /\ Completable(AtRow)
  /\ \E result \in CompletionResults(AtRow) :
       /\ result.feasible
       /\ call' = [call EXCEPT !.todo =
            LET columns == Kept(AllRows, result.columns)
            IN  [i \in DOMAIN columns |->
                   [cell |-> <<AtRow, columns[i]>>,
                    value |-> IF columns[i] \in result.ones THEN 1 ELSE 0]]]
       /\ locals' = [locals EXCEPT !.guessed = @ \/ /\ result.columns # {}
                                                    /\ Cardinality(Completions(AtRow)) > 1]
  /\ pc' = "fill"
  /\ UNCHANGED <<store, engine, input, brancher, frames, answers>>

FillKnown ==
  /\ pc = "fill" /\ call.todo # <<>> /\ cells[Head(call.todo).cell] # Unassigned
  /\ call' = [call EXCEPT !.todo = Tail(@)]
  /\ UNCHANGED <<store, engine, input, brancher, pc, frames, locals, answers>>

FillCell ==
  /\ pc = "fill" /\ call.todo # <<>> /\ cells[Head(call.todo).cell] = Unassigned
  /\ AssignAndRecord(Head(call.todo).cell, Head(call.todo).value)
  /\ pc' = "fillPropagate"
  /\ UNCHANGED <<engine, input, frames, call, locals, answers>>

FillPropagate ==
  /\ pc = "fillPropagate"
  /\ TryPropagateCell(Head(call.todo).cell)
  /\ pc' = "filled"
  /\ UNCHANGED <<store, input, brancher, frames, call, locals, answers>>

Overwritten(memory) ==
  [i \in DOMAIN memory |-> IF i <= Len(forced) THEN forced[i] ELSE memory[i]]

Filled ==
  /\ pc = "filled" /\ prop = "feasible"
  /\ RecordForced
  /\ call' = [call EXCEPT !.todo = Tail(@), !.memory = Overwritten(@)]
  /\ pc' = "fill"
  /\ UNCHANGED <<store, engine, input, minUnassignedRow, frames, locals, answers>>

FillDone ==
  /\ pc = "fill" /\ call.todo = <<>>
  /\ NextRow
  /\ pc' = "complete"
  /\ UNCHANGED <<store, engine, input, brancher, frames, locals, answers>>

-------------------------------------------------------------------------------
(* The rows' hashes, and the next cell.                                    *)

\* The part of a row a counted cell completes is verified, until one is wrong.
\* Cells the completions assigned are counted only if the last of them forced them.
VerifyBlocks ==
  /\ pc = "complete" /\ call.at > Len(call.memory)
  /\ locals' = Counting(locals, "blocks", Verified(Wave).entries)
  /\ pc' = IF Verified(Wave).ok THEN "hashes" ELSE "loop"
  /\ UNCHANGED <<store, engine, input, brancher, frames, call, answers>>

RowsDone == pc = "hashes"

\* The rows hashed are those of the forced vector as the completions left it.
HashMismatch ==
  /\ RowsDone
  /\ \E r \in CompletedRows : ~verifyRow(r)
  /\ pc' = "loop"
  /\ UNCHANGED <<store, engine, input, brancher, frames, call, locals, answers>>

\* Entries of rows that are complete, or no longer near completion, are dropped;
\* the first other one is taken.
Fresh(heap) == SelectInSeq(heap, LAMBDA e : NearCompletion(e[2]))

\* After the hashes: the iteration is counted, the detector told the depth and
\* belief propagation run when k went up; the heap may be refilled.
Turn ==
  LET iterations == (locals.iterations + 1) % kReseed
      detector   == update(locals.detector, Len(frames))
      heap       == IF iterations = 0 THEN Pushed(locals.rowHeap, AllRows) ELSE locals.rowHeap
  IN  \E belief \in IF detector.k > locals.detector.k THEN Beliefs ELSE {locals.belief} :
        locals' = [locals EXCEPT !.iterations = iterations, !.detector = detector,
                                 !.belief = belief,
                                 !.rowHeap = IF Fresh(heap) = 0 THEN <<>>
                                             ELSE SubSeq(heap, Fresh(heap) + 1, Len(heap))]

TurnHeap ==
  IF (locals.iterations + 1) % kReseed = 0 THEN Pushed(locals.rowHeap, AllRows)
  ELSE locals.rowHeap

PreferredOf(x, otherwise) ==
  IF locals'.belief[x] # Unassigned THEN locals'.belief[x] ELSE otherwise

SelectFromHeap ==
  /\ RowsDone
  /\ \A r \in CompletedRows : verifyRow(r)
  /\ Turn
  /\ Fresh(TurnHeap) # 0
  /\ \E x \in BestCells(TurnHeap[Fresh(TurnHeap)][2]) :
       frames' = Append(frames, Frame(x, Top.order, PreferredOf(x, preferred(x))))
  /\ pc' = "loop"
  /\ UNCHANGED <<store, engine, input, brancher, call, answers>>

\* cellOrder from the entry after the frame's on.
FreeAfter(x) == {y \in Cells : Before(x, y) /\ cells[y] = Unassigned}

SelectNext ==
  /\ RowsDone
  /\ \A r \in CompletedRows : verifyRow(r)
  /\ Turn
  /\ Fresh(TurnHeap) = 0 /\ FreeAfter(Top.order) # {}
  /\ LET next == FirstOf(FreeAfter(Top.order))
     IN  frames' = Append(frames, Frame(next, next, PreferredOf(next, 0)))
  /\ pc' = "loop"
  /\ UNCHANGED <<store, engine, input, brancher, call, answers>>

\* No cell is left: the matrix is given out as it is, and the search goes on.
Yield ==
  /\ RowsDone
  /\ \A r \in CompletedRows : verifyRow(r)
  /\ Turn
  /\ Fresh(TurnHeap) = 0 /\ FreeAfter(Top.order) = {}
  /\ answers' = Append(answers, rowBits)
  /\ pc' = "loop"
  /\ UNCHANGED <<store, engine, input, brancher, frames, call>>

Exhausted ==
  /\ pc = "loop" /\ frames = <<>>
  /\ pc' = "ended"
  /\ UNCHANGED <<store, engine, input, brancher, frames, call, locals, answers>>

DecomposedNext ==
  \/ Start \/ InitialInfeasible \/ InitialSolved \/ InitialBranch
  \/ Undo \/ Pop \/ ProbeZero \/ ProbeOne \/ ProbePropagate \/ ProbeContradiction \/ ProbeJudge
  \/ BothInfeasible \/ TryPreferred \/ TryForced \/ TryAlternate \/ TryPropagate
  \/ Contradiction \/ Propagated
  \/ Cascade \/ CascadeKnown \/ CascadeCell \/ CascadePropagate \/ Cascaded \/ ParityDone \/ CascadeDone
  \/ SkipRow \/ CompletionInfeasible \/ CompleteRow
  \/ FillKnown \/ FillCell \/ FillPropagate \/ Filled \/ FillDone
  \/ VerifyBlocks \/ HashMismatch \/ SelectFromHeap \/ SelectNext \/ Yield \/ Exhausted \/ Propagating

-------------------------------------------------------------------------------
(* Properties.                                                             *)

FrameType ==
  [cell : Cells, order : Cells, preferred : {0, 1}, nextValue : 0..2, token : Nat]

DecomposedTypeOK ==
  /\ pc \in {"start", "initial", "loop", "probe", "probed", "unprobe", "try", "result",
             "sidecar", "sidecarPropagate", "sidecarPropagated", "hashes", "complete", "fill", "fillPropagate", "filled", "ended"}
  /\ frames \in Seq(FrameType)
  /\ locals.rowHeap \in Seq((1..kRowCompletionThreshold) \X Index)
  /\ locals.iterations \in 0..(kReseed - 1)
  /\ locals.detector \in DetectorType
  /\ locals.belief \in {NoBelief} \cup Beliefs
  /\ locals.guessed \in BOOLEAN
  /\ locals.counted \in [Kinds -> Seq(Cells \X {0, 1})]
  /\ locals.marks \in Seq([Kinds -> Nat])

\* Cells no undo will ever take back.
Leaked ==
  IF pc \in {"loop", "ended"}
  THEN {x \in Cells : cells[x] # Unassigned} \ Range(undoStack)
  ELSE {}

\* Probing, completing and branching share one undo stack, and undoing it is all
\* that brings a frame back to where it was: every open frame's cell is assigned
\* and stands on the undo stack right above the frame's token, no cell is
\* branched on twice, and the cell to try next is free.
FramesSound == solver = "decomposed" =>
  /\ \A i \in 1..(Len(frames) - 1) :
       /\ cells[frames[i].cell] # Unassigned
       /\ undoStack[frames[i].token + 1] = frames[i].cell
       /\ \A j \in 1..(i - 1) : frames[j].cell # frames[i].cell
  /\ pc = "loop" /\ frames # <<>> /\ (Top.nextValue = 0 \/ Undone)
       => cells[Top.cell] = Unassigned

\* What the sidecars have counted is assigned, to the value counted, once: their
\* counts of unknowns never fall below the truth, however many forced cells they
\* missed, and a frame's mark is all that undoes its part of the log.
SidecarsSound == solver = "decomposed" =>
  /\ Len(locals.marks) = Len(frames) - (IF frames # <<>> /\ Top.nextValue = 0 THEN 1 ELSE 0)
  /\ pc # "loop" => \A kind \in Kinds :
       LET log == locals.counted[kind]
       IN  \A i \in DOMAIN log : /\ cells[log[i][1]] = log[i][2]
                                 /\ \A j \in 1..(i - 1) : log[j][1] # log[i][1]

\* The stack is never deeper than the matrix has cells (16129), so the bottom-up
\* search, which waits for a depth of 85000, never starts.
DepthBounded == Len(frames) <= Cardinality(Cells)

\* A probe leaves a cell behind only if its propagation failed after forcing it:
\* what FailedLiteralProber.h says of probeCell, "All speculative assignments are
\* undone before returning.", is true of every other cell.
ProbesUndone == pc = "unprobe" /\ Undone =>
  \A x \in Cells : cells[x] # call.before[x] =>
    call.before[x] = Unassigned /\ prop = "infeasible" /\ x \in Range(forced)
===============================================================================
