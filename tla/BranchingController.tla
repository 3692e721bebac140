-------------------------- MODULE BranchingController --------------------------
(***************************************************************************)
(* decompress/Solvers/BranchingController: the undo stack of a search and  *)
(* its choice of the next cell, over the store it shares with propagation. *)
(* EnumerationController and RowDecomposedController both search with it.  *)
(***************************************************************************)
EXTENDS PropagationEngine

VARIABLES
  undoStack,        \* BranchingController::undoStack_
  minUnassignedRow  \* BranchingController::minUnassignedRow_

brancher == <<undoStack, minUnassignedRow>>

BranchingInit ==
  /\ undoStack = <<>>
  /\ minUnassignedRow = 0

\* getFirstUnassigned(minUnassignedRow_): rows without unknowns are skipped.
Open == {x \in Cells : /\ x[1] >= minUnassignedRow
                       /\ unknown[RowOf(x[1])] # 0
                       /\ cells[x] = Unassigned}

\* nextCell, when it finds one: the hint moves up to the cell's row.
NextCell(x) == IsFirst(x, Open) /\ minUnassignedRow' = x[1]

\* A variant that leaves the hint where it is.
UndoLastKeepingHint ==
  /\ Unassign(undoStack[Len(undoStack)])
  /\ undoStack' = SubSeq(undoStack, 1, Len(undoStack) - 1)
  /\ UNCHANGED minUnassignedRow

\* One turn of undoToSavePoint's loop.
UndoLast ==
  LET x == undoStack[Len(undoStack)]
  IN  /\ Unassign(x)
      /\ undoStack' = SubSeq(undoStack, 1, Len(undoStack) - 1)
      /\ minUnassignedRow' = IF x[1] < minUnassignedRow THEN x[1] ELSE minUnassignedRow

\* recordAssignment, for every cell the last propagation forced.
RecordForced == undoStack' = undoStack \o forced

-------------------------------------------------------------------------------
BranchingTypeOK ==
  /\ undoStack \in Seq(Cells)
  /\ minUnassignedRow \in Index

\* The hint never skips work: no row above minUnassignedRow has an unassigned
\* cell once the search looks for the next cell, so a leaf really is one and
\* the frames' cells really are the first free ones (lexicographic order).
HintSound == \A x \in Cells : x[1] < minUnassignedRow => cells[x] # Unassigned

\* The undo stack names assigned cells, each once: undoing never touches the
\* counters for a cell that is already unassigned.
UndoStackSound ==
  /\ \A x \in Range(undoStack) : cells[x] # Unassigned
  /\ \A i, j \in DOMAIN undoStack : i # j => undoStack[i] # undoStack[j]

LexLess(a, b) ==
  \E x \in b : IsFirst(x, (a \ b) \cup (b \ a))
===============================================================================
