---------------------------- MODULE ConstraintStore ----------------------------
(***************************************************************************)
(* decompress/Solvers/ConstraintStore: the partial kS x kS bit matrix of   *)
(* the solver and, for each of the lines a cell lies on (its row, column,  *)
(* diagonal, anti-diagonal and one line of each of the two LTP partition   *)
(* tables), how many cells of the line are unknown and how many are 1.     *)
(* The counters are updated incrementally and read by everything else.     *)
(***************************************************************************)
EXTENDS Integers, Sequences, FiniteSets, Functions

CONSTANTS
  kS,    \* matrix dimension (127 in the code)
  ltp1,  \* ltp1[x], ltp2[x]: the line of cell x in each partition table
  ltp2

Index == 0..(kS - 1)
Cells == Index \X Index

ASSUME kSAssumption == kS \in Nat \ {0}
ASSUME ltpAssumption == ltp1 \in [Cells -> Index] /\ ltp2 \in [Cells -> Index]

\* The tables partition the cells into kS lines, none of them empty.
ASSUME ltpCoversAssumption == \A i \in Index : \E x, y \in Cells : ltp1[x] = i /\ ltp2[y] = i

Unassigned == 2                   \* CellState::Unassigned
CellState  == {0, 1, Unassigned}

LineIndex(x) ==
  [row          |-> x[1],
   column       |-> x[2],
   diagonal     |-> x[2] - x[1] + (kS - 1),
   antiDiagonal |-> x[1] + x[2],
   ltp1         |-> ltp1[x],
   ltp2         |-> ltp2[x]]

LineTypes == {"row", "column", "diagonal", "antiDiagonal", "ltp1", "ltp2"}

Line(type, index) == <<type, index>>

\* getLinesForCell: the six lines of a cell, in the order the code lists them.
LinesForCell(x) ==
  LET on(type) == Line(type, LineIndex(x)[type])
  IN  <<on("row"), on("column"), on("diagonal"), on("antiDiagonal"), on("ltp1"), on("ltp2")>>

LineCount ==
  [row |-> kS, column |-> kS, diagonal |-> 2 * kS - 1, antiDiagonal |-> 2 * kS - 1,
   ltp1 |-> kS, ltp2 |-> kS]

LinesOfType(type) == [i \in 1..LineCount[type] |-> Line(type, i - 1)]

Lines == UNION {Range(LinesOfType(type)) : type \in LineTypes}

CellsOn == [l \in Lines |-> {x \in Cells : LineIndex(x)[l[1]] = l[2]}]

RowOf(r) == Line("row", r)

VARIABLES
  cells,    \* cells_
  rowBits,  \* rowBits_: the cells whose bit is set
  unknown,  \* stats_[line].unknown
  ones      \* stats_[line].assigned

store == <<cells, rowBits, unknown, ones>>

StoreInit ==
  /\ cells = [x \in Cells |-> Unassigned]
  /\ rowBits = {}
  /\ unknown = [l \in Lines |-> Cardinality(CellsOn[l])]
  /\ ones = [l \in Lines |-> 0]

-------------------------------------------------------------------------------
\* assign: a 0 leaves the row bit as it is.
Assign(x, v) ==
  /\ cells' = [cells EXCEPT ![x] = v]
  /\ rowBits' = IF v # 0 THEN rowBits \cup {x} ELSE rowBits
  /\ unknown' = [l \in Lines |-> IF x \in CellsOn[l] THEN unknown[l] - 1 ELSE unknown[l]]
  /\ ones' = [l \in Lines |-> IF v # 0 /\ x \in CellsOn[l] THEN ones[l] + 1 ELSE ones[l]]

\* A variant that forgets to take a 1 back from the counters.
UnassignKeepsOnes(x) ==
  /\ cells' = [cells EXCEPT ![x] = Unassigned]
  /\ rowBits' = rowBits \ {x}
  /\ unknown' = [l \in Lines |-> IF x \in CellsOn[l] THEN unknown[l] + 1 ELSE unknown[l]]
  /\ ones' = ones

Unassign(x) ==
  LET wasOne == cells[x] = 1
  IN  /\ cells' = [cells EXCEPT ![x] = Unassigned]
      /\ rowBits' = IF wasOne THEN rowBits \ {x} ELSE rowBits
      /\ unknown' = [l \in Lines |-> IF x \in CellsOn[l] THEN unknown[l] + 1 ELSE unknown[l]]
      /\ ones' = [l \in Lines |-> IF wasOne /\ x \in CellsOn[l] THEN ones[l] - 1 ELSE ones[l]]

-------------------------------------------------------------------------------
(* The store under the discipline its users follow: an unassigned cell is  *)
(* assigned, an assigned one is unassigned.                                *)
StoreAssign   == \E x \in Cells, v \in {0, 1} : cells[x] = Unassigned /\ Assign(x, v)
StoreUnassign == \E x \in Cells : cells[x] # Unassigned /\ Unassign(x)

StoreSpec == StoreInit /\ [][StoreAssign \/ StoreUnassign]_store

-------------------------------------------------------------------------------
StoreTypeOK ==
  /\ cells \in [Cells -> CellState]
  /\ rowBits \subseteq Cells
  /\ unknown \in [Lines -> Nat]
  /\ ones \in [Lines -> Nat]

UnknownOn(l) == {x \in CellsOn[l] : cells[x] = Unassigned}
OnesOn(l)    == {x \in CellsOn[l] : cells[x] = 1}

\* The incremental counters and the row bits say what the cells say, after any
\* interleaving of assignments and undos: residuals, feasibility checks, row
\* completion and the hashed rows are all read from them.
StatsExact ==
  /\ rowBits = {x \in Cells : cells[x] = 1}
  /\ \A l \in Lines : unknown[l] = Cardinality(UnknownOn(l)) /\ ones[l] = Cardinality(OnesOn(l))
===============================================================================
