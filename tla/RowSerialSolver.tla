---------------------------- MODULE RowSerialSolver ----------------------------
(***************************************************************************)
(* decompress/Solvers/RowSerialSolver, run by the rowSolver command on a   *)
(* block it has just read: a recursive search that assigns one whole row   *)
(* at a time, and after each completes every row and column that has a     *)
(* single candidate.  It backtracks by restoring snapshots of the store.   *)
(***************************************************************************)
EXTENDS RowSolving

CONSTANTS
  kMaxFreeBits,       \* free variables of a system worth enumerating (22 in the code)
  kEquations,         \* equations of a line: its CRC-32 and its parity (33)
  kRowsTried,         \* rows whose candidates are generated at a node (5)
  kTooMany,           \* candidates that are too many (10000)
  kGoodEnough,        \* and few enough to look no further (10)
  kCascadeThreshold   \* unknowns of a line the cascade completes (40)

ASSUME SerialAssumption ==
  /\ {kMaxFreeBits, kEquations, kTooMany, kGoodEnough, kCascadeThreshold} \subseteq Nat
  /\ kRowsTried \in Nat \ {0}

Depth == Len(frames)
Node  == frames[Depth]

SerialInit ==
  /\ solver = "serial"
  /\ pc = "serialStart"
  /\ call = <<>>
  /\ locals = [solved |-> FALSE, stuckAt |-> <<>>]

-------------------------------------------------------------------------------
(* Candidates for the free cells of a line: the set of those to be 1.      *)

FreeOn(l) == UnknownOn(l)

\* The digest of a line is that of its positions: the columns of a row, the rows
\* of a column.
PositionsOf(l, S)  == {IF l[1] = "row" THEN x[2] ELSE x[1] : x \in S}
ExpectedDigest(l)  == IF l[1] = "row" THEN lh[l[2]] ELSE vh[l[2]]

\* The solutions of the system of the digest's equations and the parity's.
Solutions(l) ==
  {S \in SUBSET FreeOn(l) :
     /\ Digest(hash, PositionsOf(l, OnesOn(l) \cup S)) = ExpectedDigest(l)
     /\ Cardinality(S) % 2 = Residual(l) % 2}

canBe0(x) == \A l \in Range(LinesForCell(x)) : Residual(l) <= unknown[l] - 1
canBe1(x) == \A l \in Range(LinesForCell(x)) : Residual(l) - 1 \in 0..(unknown[l] - 1)

\* generateCandidates, generateColCandidates: none when there are too many free
\* variables, as when there is no solution.
Candidates(l) ==
  {S \in Solutions(l) :
     /\ Cardinality(Solutions(l)) <= 2 ^ kMaxFreeBits
     /\ Cardinality(S) = Residual(l)
     /\ \A x \in FreeOn(l) : IF x \in S THEN canBe1(x) ELSE canBe0(x)}

CandidateBefore(l, S, T) == CountsBefore(PositionsOf(l, S), PositionsOf(l, T))

\* takeSnapshot: all that changes in the store.
Snapshot == [cells |-> cells, rowBits |-> rowBits, unknown |-> unknown, ones |-> ones]

\* Write the cells of a free line, and queue the lines of each.
AssignLine(l, S) ==
  /\ cells' = [x \in Cells |-> IF x \notin FreeOn(l) THEN cells[x] ELSE IF x \in S THEN 1 ELSE 0]
  /\ rowBits' = rowBits \cup S
  /\ unknown' = [k \in Lines |-> unknown[k] - Cardinality(FreeOn(l) \cap CellsOn[k])]
  /\ ones' = [k \in Lines |-> ones[k] + Cardinality(S \cap CellsOn[k])]

LinesOf(S) == FlattenSeq([i \in DOMAIN InRowOrder(S) |-> LinesForCell(InRowOrder(S)[i])])

-------------------------------------------------------------------------------
(* The rowSolver command: propagate, then solve.                           *)

SerialStart ==
  /\ pc = "serialStart"
  /\ Propagate(AllLines)
  /\ pc' = "serialInitial"
  /\ UNCHANGED <<store, input, brancher, frames, call, locals, answers>>

\* A store that is infeasible from the start ends the program.
SerialPropagated ==
  /\ pc = "serialInitial" /\ prop # "run"
  /\ pc' = IF prop = "feasible" THEN "solve" ELSE "serialEnded"
  /\ UNCHANGED <<store, engine, input, brancher, frames, call, locals, answers>>

-------------------------------------------------------------------------------
(* solveRecursive.                                                         *)

Solved ==
  /\ pc = "solve" /\ AllComplete
  /\ answers' = <<rowBits>>
  /\ locals' = [locals EXCEPT !.solved = TRUE]
  /\ pc' = "serialEnded"
  /\ UNCHANGED <<store, engine, input, brancher, frames, call>>

\* The estimate of a row's free variables, and the first rows in its order.
EstimatedFree(r) ==
  IF unknown[RowOf(r)] > kEquations THEN unknown[RowOf(r)] - kEquations ELSE 0

TractableRows == {r \in Index : ~Complete(RowOf(r)) /\ EstimatedFree(r) <= kMaxFreeBits}

RowBefore(r, s) ==
  EstimatedFree(r) < EstimatedFree(s) \/ (EstimatedFree(r) = EstimatedFree(s) /\ r < s)

RowsTried ==
  {r \in TractableRows : Cardinality({s \in TractableRows : RowBefore(s, r)}) < kRowsTried}

Count(r) == Cardinality(Candidates(RowOf(r)))

\* The first row with few enough candidates; if none has, the first with the fewest.
UsableRows == {r \in RowsTried : Count(r) \in 1..kTooMany}

IsBestRow(r) ==
  LET enough == {s \in UsableRows : Count(s) <= kGoodEnough}
      fewest == {s \in UsableRows : \A t \in UsableRows : Count(s) <= Count(t)}
      best   == IF enough # {} THEN enough ELSE fewest
  IN  r \in best /\ \A s \in best \ {r} : RowBefore(r, s)

\* No tractable row: this node fails.  Where, is remembered.
NoRow ==
  /\ pc = "solve" /\ ~AllComplete /\ UsableRows = {}
  /\ locals' = [locals EXCEPT !.stuckAt = Append(@, cells)]
  /\ pc' = "fail"
  /\ UNCHANGED <<store, engine, input, brancher, frames, call, answers>>

Branch ==
  /\ pc = "solve" /\ ~AllComplete
  /\ \E r \in UsableRows :
       /\ IsBestRow(r)
       /\ frames' = Append(frames, [line |-> RowOf(r), candidates |-> Candidates(RowOf(r)),
                                    snapshot |-> Snapshot])
  /\ pc' = "candidate"
  /\ UNCHANGED <<store, engine, input, brancher, call, locals, answers>>

TryCandidate ==
  /\ pc = "candidate"
  /\ \E S \in Node.candidates :
       /\ \A T \in Node.candidates \ {S} : CandidateBefore(Node.line, S, T)
       /\ AssignLine(Node.line, S)
       /\ frames' = [frames EXCEPT ![Depth].candidates = @ \ {S}, ![Depth].snapshot = Snapshot]
  /\ call' = [lines |-> LinesOf(FreeOn(Node.line)), axis |-> "none"]
  /\ pc' = "lineAssigned"
  /\ UNCHANGED <<engine, input, brancher, locals, answers>>

AllTried ==
  /\ pc = "candidate" /\ Node.candidates = {}
  /\ frames' = SubSeq(frames, 1, Depth - 1)
  /\ pc' = "fail"
  /\ UNCHANGED <<store, engine, input, brancher, call, locals, answers>>

\* restoreSnapshot, after a variant that leaves out the counters of ones.
RestoreCells ==
  /\ pc = "fail" /\ frames # <<>>
  /\ cells' = Node.snapshot.cells
  /\ rowBits' = Node.snapshot.rowBits
  /\ unknown' = Node.snapshot.unknown
  /\ pc' = "candidate"
  /\ UNCHANGED <<ones, engine, input, brancher, frames, call, locals, answers>>

Restore ==
  /\ pc = "fail" /\ frames # <<>>
  /\ cells' = Node.snapshot.cells
  /\ rowBits' = Node.snapshot.rowBits
  /\ unknown' = Node.snapshot.unknown
  /\ ones' = Node.snapshot.ones
  /\ pc' = "candidate"
  /\ UNCHANGED <<engine, input, brancher, frames, call, locals, answers>>

Unsolved ==
  /\ pc = "fail" /\ frames = <<>>
  /\ pc' = "serialEnded"
  /\ UNCHANGED <<store, engine, input, brancher, frames, call, locals, answers>>

-------------------------------------------------------------------------------
(* assignRowAndPropagate and the cascade.                                  *)

PropagateLine ==
  /\ pc = "lineAssigned"
  /\ Propagate(call.lines)
  /\ pc' = "linePropagated"
  /\ UNCHANGED <<store, input, brancher, frames, call, locals, answers>>

LineInfeasible ==
  /\ pc = "linePropagated" /\ prop = "infeasible"
  /\ pc' = "fail"
  /\ UNCHANGED <<store, engine, input, brancher, frames, call, locals, answers>>

\* rows, columns: whether this round of the cascade completed any.
CascadeFrom(rows) ==
  [lines |-> <<>>, axis |-> "row", from |-> 0, changed |-> FALSE,
   rows |-> rows, columns |-> FALSE]

CascadeStart ==
  /\ pc = "linePropagated" /\ prop = "feasible" /\ call.axis = "none"
  /\ call' = CascadeFrom(FALSE)
  /\ pc' = "cascade"
  /\ UNCHANGED <<store, engine, input, brancher, frames, locals, answers>>

LineCompleted ==
  /\ pc = "linePropagated" /\ prop = "feasible" /\ call.axis # "none"
  /\ call' = [call EXCEPT !.changed = TRUE,
                          !.rows = @ \/ call.axis = "row", !.columns = @ \/ call.axis = "column"]
  /\ pc' = "cascade"
  /\ UNCHANGED <<store, engine, input, brancher, frames, locals, answers>>

\* tryCompleteRows, tryCompleteColumns: the lines still to look at in this pass
\* that have a single candidate.
Unique ==
  {i \in Index :
     /\ i >= call.from
     /\ unknown[Line(call.axis, i)] \in 1..kCascadeThreshold
     /\ Cardinality(Candidates(Line(call.axis, i))) = 1}

CompleteLine ==
  /\ pc = "cascade" /\ Unique # {}
  /\ \E i \in Unique :
       /\ \A j \in Unique : i <= j
       /\ LET l == Line(call.axis, i)
          IN  /\ AssignLine(l, CHOOSE S \in Candidates(l) : TRUE)
              /\ call' = [call EXCEPT !.lines = LinesOf(FreeOn(l)), !.from = i + 1]
  /\ pc' = "lineAssigned"
  /\ UNCHANGED <<engine, input, brancher, frames, locals, answers>>

\* A variant that never forgets that rows were completed.
NextPassUnforgetting ==
  /\ pc = "cascade" /\ Unique = {}
  /\ \/ /\ call.changed
        /\ call' = [call EXCEPT !.from = 0, !.changed = FALSE]
     \/ /\ ~call.changed /\ call.axis = "row"
        /\ call' = [call EXCEPT !.axis = "column", !.from = 0]
     \/ /\ ~call.changed /\ call.axis = "column" /\ (call.rows \/ call.columns)
        /\ call' = CascadeFrom(call.rows)
  /\ UNCHANGED <<store, engine, input, brancher, pc, frames, locals, answers>>

\* The pass over an axis is repeated while it completes lines; the two axes
\* alternate while either does.
NextPass ==
  /\ pc = "cascade" /\ Unique = {}
  /\ \/ /\ call.changed
        /\ call' = [call EXCEPT !.from = 0, !.changed = FALSE]
     \/ /\ ~call.changed /\ call.axis = "row"
        /\ call' = [call EXCEPT !.axis = "column", !.from = 0]
     \/ /\ ~call.changed /\ call.axis = "column" /\ (call.rows \/ call.columns)
        /\ call' = CascadeFrom(FALSE)
  /\ UNCHANGED <<store, engine, input, brancher, pc, frames, locals, answers>>

\* The forward check of every line ends the assignment of the row.
ForwardCheck ==
  /\ pc = "cascade" /\ Unique = {}
  /\ ~call.changed /\ call.axis = "column" /\ ~call.rows /\ ~call.columns
  /\ pc' = IF \E l \in Lines : Violated(l) THEN "fail" ELSE "solve"
  /\ UNCHANGED <<store, engine, input, brancher, frames, call, locals, answers>>

SerialNext ==
  \/ SerialStart \/ SerialPropagated
  \/ Solved \/ NoRow \/ Branch \/ TryCandidate \/ AllTried \/ Restore \/ Unsolved
  \/ PropagateLine \/ LineInfeasible \/ CascadeStart \/ LineCompleted
  \/ CompleteLine \/ NextPass \/ ForwardCheck \/ Propagating

-------------------------------------------------------------------------------
(* Properties.                                                             *)

SerialTypeOK ==
  /\ pc \in {"serialStart", "serialInitial", "solve", "candidate", "lineAssigned",
             "linePropagated", "cascade", "fail", "serialEnded"}
  /\ \A i \in DOMAIN frames :
       /\ frames[i].line \in {RowOf(r) : r \in Index}
       /\ frames[i].candidates \subseteq SUBSET CellsOn[frames[i].line]
       /\ frames[i].snapshot.cells \in [Cells -> CellState]
  /\ locals.solved \in BOOLEAN
  /\ locals.stuckAt \in Seq([Cells -> CellState])

\* The snapshots are nested: each node starts from what the nodes above it, and
\* the row of each of those, have settled; and no row is branched on twice.
SnapshotsNested ==
  \A i \in DOMAIN frames :
    /\ \A x \in Cells : LET was == frames[i].snapshot.cells[x]
                       IN  was # Unassigned => cells[x] = was
    /\ \A x \in CellsOn[frames[i].line], j \in (i + 1)..Depth :
         frames[j].snapshot.cells[x] # Unassigned
===============================================================================
