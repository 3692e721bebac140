--------------------------- MODULE Propagation_proofs ---------------------------
(***************************************************************************)
(* What every search over the store shares, for every matrix dimension and *)
(* every pair of partition tables.  The store's incremental counters are   *)
(* exact as long as its users assign only unassigned cells and unassign    *)
(* only assigned ones.  Then the types of what propagation keeps, and      *)
(* facts about cells, lines and sequences.                                 *)
(***************************************************************************)
EXTENDS BranchingController, Induction_proofs, SequenceTheorems

\* There are finitely many cells, hence finitely many on a line.
LEMMA FiniteCells ==
  /\ IsFiniteSet(Cells)
  /\ \A l \in Lines : \A S \in SUBSET CellsOn[l] : IsFiniteSet(S)
<1>1. IsFiniteSet(Index)
  BY kSAssumption, FS_Interval DEF Index
<1>2. IsFiniteSet(Cells)
  BY <1>1, FS_Product DEF Cells
<1>3. \A l \in Lines : CellsOn[l] \subseteq Cells
  BY DEF CellsOn
<1>4. ASSUME NEW l \in Lines, NEW S \in SUBSET CellsOn[l] PROVE IsFiniteSet(S)
  BY <1>2, <1>3, <1>4, FS_Subset
<1>5. QED BY <1>2, <1>4

\* The lines a cell lies on are lines, and the cell is on them.
LEMMA LinesOfCell ==
  \A x \in Cells, type \in LineTypes :
    /\ Line(type, LineIndex(x)[type]) \in Lines
    /\ x \in CellsOn[Line(type, LineIndex(x)[type])]
<1> SUFFICES ASSUME NEW x \in Cells, NEW type \in LineTypes
             PROVE  /\ Line(type, LineIndex(x)[type]) \in Lines
                    /\ x \in CellsOn[Line(type, LineIndex(x)[type])]
  OBVIOUS
<1> DEFINE n == LineIndex(x)[type]
<1>1. x[1] \in 0..(kS - 1) /\ x[2] \in 0..(kS - 1) /\ ltp1[x] \in 0..(kS - 1) /\ ltp2[x] \in 0..(kS - 1)
  BY ltpAssumption DEF Cells, Index
<1>2. n \in 0..(LineCount[type] - 1) /\ LineCount[type] \in Nat
  BY <1>1, kSAssumption DEF LineIndex, LineCount, LineTypes
<1> HIDE DEF n
<1>3. n + 1 \in 1..LineCount[type] /\ (n + 1) - 1 = n
  BY <1>2
<1>4. /\ DOMAIN LinesOfType(type) = 1..LineCount[type]
      /\ LinesOfType(type)[n + 1] = Line(type, n)
  BY <1>3 DEF LinesOfType
<1>5. Line(type, n) \in Range(LinesOfType(type))
  BY <1>3, <1>4 DEF Range
<1>6. Line(type, n) \in Lines
  BY <1>5 DEF Lines
<1>7. Line(type, n)[1] = type /\ Line(type, n)[2] = n
  BY DEF Line
<1>8. QED BY <1>6, <1>7 DEF CellsOn, n

\* A full matrix that a line's assigned cells agree with: what its count on the
\* line leaves for the unknown cells.
LEMMA AgreeingCounts ==
  ASSUME StatsExact, NEW l \in Lines, NEW m \in [Cells -> {0, 1}],
         \A x \in CellsOn[l] : cells[x] \in {m[x], Unassigned},
         NEW rest, rest = Cardinality({x \in CellsOn[l] : m[x] = 1}) - ones[l]
  PROVE  /\ rest \in 0..unknown[l]
         /\ rest = 0 => \A x \in UnknownOn(l) : m[x] = 0
         /\ rest = unknown[l] => \A x \in UnknownOn(l) : m[x] = 1
<1> DEFINE Due == {x \in UnknownOn(l) : m[x] = 1}
<1>1. \A x \in CellsOn[l] : x \in Cells /\ m[x] \in {0, 1}
  BY DEF CellsOn
<1>2. {x \in CellsOn[l] : m[x] = 1} = OnesOn(l) \cup Due
  BY <1>1 DEF OnesOn, UnknownOn, Unassigned
<1>3. OnesOn(l) \cap Due = {}
  BY DEF OnesOn, UnknownOn, Unassigned
<1>4. IsFiniteSet(OnesOn(l)) /\ IsFiniteSet(UnknownOn(l)) /\ Due \in SUBSET UnknownOn(l)
  BY FiniteCells DEF OnesOn, UnknownOn
<1>5. /\ IsFiniteSet(Due) /\ Cardinality(Due) <= Cardinality(UnknownOn(l))
      /\ Cardinality(UnknownOn(l)) = Cardinality(Due) => UnknownOn(l) = Due
  BY <1>4, FS_Subset
<1>6. Cardinality(OnesOn(l)) \in Nat /\ Cardinality(UnknownOn(l)) \in Nat /\ Cardinality(Due) \in Nat
  BY <1>4, <1>5, FS_CardinalityType
<1>7. Cardinality(OnesOn(l) \cup Due) = Cardinality(OnesOn(l)) + Cardinality(Due) - Cardinality({})
  BY <1>3, <1>4, <1>5, FS_Union
<1>8. Cardinality({x \in CellsOn[l] : m[x] = 1}) = Cardinality(OnesOn(l)) + Cardinality(Due)
  BY <1>2, <1>6, <1>7, FS_EmptySet
<1>9. unknown[l] = Cardinality(UnknownOn(l)) /\ ones[l] = Cardinality(OnesOn(l))
  BY DEF StatsExact
<1>10. rest = Cardinality(Due)
  BY <1>6, <1>8, <1>9
<1>11. rest = 0 => Due = {}
  BY <1>5, <1>10, FS_EmptySet
<1>12. \A x \in UnknownOn(l) : m[x] \in {0, 1}
  BY <1>1 DEF UnknownOn
<1>13. QED BY <1>5, <1>6, <1>9, <1>10, <1>11, <1>12

\* The counters of a store in which nothing is assigned.
LEMMA InitExact ==
  ASSUME StoreInit
  PROVE  StoreTypeOK /\ StatsExact
<1>1. ASSUME NEW l \in Lines
      PROVE  /\ UnknownOn(l) = CellsOn[l] /\ OnesOn(l) = {}
             /\ Cardinality(CellsOn[l]) \in Nat
  <2>1. \A x \in CellsOn[l] : x \in Cells
    BY <1>1 DEF CellsOn
  <2>2. \A x \in Cells : cells[x] = Unassigned
    BY DEF StoreInit
  <2>3. UnknownOn(l) = CellsOn[l]
    BY <2>1, <2>2 DEF UnknownOn
  <2>4. OnesOn(l) = {}
    BY <2>1, <2>2 DEF OnesOn, Unassigned
  <2>5. Cardinality(CellsOn[l]) \in Nat
    BY <1>1, FiniteCells, FS_CardinalityType
  <2>6. QED BY <2>3, <2>4, <2>5
<1>2. StoreTypeOK
  BY <1>1 DEF StoreInit, StoreTypeOK, CellState
<1>3. {x \in Cells : cells[x] = 1} = {}
  BY DEF StoreInit, Unassigned
<1>4. \A l \in Lines : unknown[l] = Cardinality(UnknownOn(l)) /\ ones[l] = Cardinality(OnesOn(l))
  BY <1>1, FS_EmptySet DEF StoreInit
<1>5. QED BY <1>2, <1>3, <1>4 DEF StoreInit, StatsExact

\* assign of an unassigned cell keeps the counters exact.
LEMMA AssignExact ==
  ASSUME StoreTypeOK, StatsExact, NEW x \in Cells, NEW v \in {0, 1},
         cells[x] = Unassigned, Assign(x, v)
  PROVE  (StoreTypeOK /\ StatsExact)'
<1>1. /\ cells' \in [Cells -> CellState]
      /\ cells'[x] = v
      /\ \A y \in Cells \ {x} : cells'[y] = cells[y]
  BY DEF Assign, StoreTypeOK, CellState
<1>2. (rowBits = {y \in Cells : cells[y] = 1})'
  BY <1>1 DEF Assign, StatsExact, Unassigned
<1>3. ASSUME NEW l \in Lines
      PROVE  /\ unknown'[l] = Cardinality(UnknownOn(l)')
             /\ ones'[l] = Cardinality(OnesOn(l)')
             /\ unknown'[l] \in Nat /\ ones'[l] \in Nat
  <2>1. \A y \in CellsOn[l] : y \in Cells
    BY <1>3 DEF CellsOn
  <2>2. IsFiniteSet(UnknownOn(l)) /\ IsFiniteSet(OnesOn(l))
    BY <1>3, FiniteCells DEF UnknownOn, OnesOn
  <2>3. unknown[l] = Cardinality(UnknownOn(l)) /\ ones[l] = Cardinality(OnesOn(l))
    BY <1>3 DEF StatsExact
  <2>4. unknown[l] \in Nat /\ ones[l] \in Nat
    BY <1>3 DEF StoreTypeOK
  <2>5. CASE x \notin CellsOn[l]
    <3>1. UnknownOn(l)' = UnknownOn(l) /\ OnesOn(l)' = OnesOn(l)
      BY <1>1, <2>1, <2>5 DEF UnknownOn, OnesOn
    <3>2. unknown'[l] = unknown[l] /\ ones'[l] = ones[l]
      BY <1>3, <2>5 DEF Assign
    <3>3. QED BY <2>3, <2>4, <3>1, <3>2
  <2>6. CASE x \in CellsOn[l]
    <3>1. x \in UnknownOn(l) /\ x \notin OnesOn(l)
      BY <2>6 DEF UnknownOn, OnesOn, Unassigned
    <3>2. UnknownOn(l)' = UnknownOn(l) \ {x}
      BY <1>1, <2>1, <2>6 DEF UnknownOn, Unassigned
    <3>3. unknown'[l] = unknown[l] - 1
      BY <1>3, <2>6 DEF Assign
    <3>4. Cardinality(UnknownOn(l) \ {x}) = Cardinality(UnknownOn(l)) - 1
      BY <2>2, <3>1, FS_RemoveElement
    <3>5. Cardinality(UnknownOn(l) \ {x}) \in Nat
      BY <2>2, FS_RemoveElement, FS_CardinalityType
    <3>6. CASE v = 0
      <4>1. OnesOn(l)' = OnesOn(l)
        BY <1>1, <2>1, <3>1, <3>6 DEF OnesOn
      <4>2. ones'[l] = ones[l]
        BY <1>3, <3>6 DEF Assign
      <4>3. QED BY <2>3, <2>4, <3>2, <3>3, <3>4, <3>5, <4>1, <4>2
    <3>7. CASE v = 1
      <4>1. OnesOn(l)' = OnesOn(l) \cup {x}
        BY <1>1, <2>1, <2>6, <3>7 DEF OnesOn
      <4>2. ones'[l] = ones[l] + 1
        BY <1>3, <2>6, <3>7 DEF Assign
      <4>3. Cardinality(OnesOn(l) \cup {x}) = Cardinality(OnesOn(l)) + 1
        BY <2>2, <3>1, FS_AddElement
      <4>4. QED BY <2>3, <2>4, <3>2, <3>3, <3>4, <3>5, <4>1, <4>2, <4>3
    <3>8. QED BY <3>6, <3>7
  <2>7. QED BY <2>5, <2>6
<1>5. (\A l \in Lines : unknown[l] = Cardinality(UnknownOn(l)) /\ ones[l] = Cardinality(OnesOn(l)))'
  BY <1>3
<1>6. unknown' \in [Lines -> Nat] /\ ones' \in [Lines -> Nat]
  BY <1>3 DEF Assign
<1>7. rowBits' \subseteq Cells
  BY <1>2
<1>8. QED BY <1>1, <1>2, <1>5, <1>6, <1>7 DEF StoreTypeOK, StatsExact

\* unassign of an assigned cell keeps the counters exact.
LEMMA UnassignExact ==
  ASSUME StoreTypeOK, StatsExact, NEW x \in Cells,
         cells[x] # Unassigned, Unassign(x)
  PROVE  (StoreTypeOK /\ StatsExact)'
<1>1. /\ cells' \in [Cells -> CellState]
      /\ cells'[x] = Unassigned
      /\ \A y \in Cells \ {x} : cells'[y] = cells[y]
  BY DEF Unassign, StoreTypeOK, CellState
<1>2. (rowBits = {y \in Cells : cells[y] = 1})'
  BY <1>1 DEF Unassign, StatsExact, Unassigned
<1>3. ASSUME NEW l \in Lines
      PROVE  /\ unknown'[l] = Cardinality(UnknownOn(l)')
             /\ ones'[l] = Cardinality(OnesOn(l)')
             /\ unknown'[l] \in Nat /\ ones'[l] \in Nat
  <2>1. \A y \in CellsOn[l] : y \in Cells
    BY <1>3 DEF CellsOn
  <2>2. IsFiniteSet(UnknownOn(l)) /\ IsFiniteSet(OnesOn(l))
    BY <1>3, FiniteCells DEF UnknownOn, OnesOn
  <2>3. unknown[l] = Cardinality(UnknownOn(l)) /\ ones[l] = Cardinality(OnesOn(l))
    BY <1>3 DEF StatsExact
  <2>4. unknown[l] \in Nat /\ ones[l] \in Nat
    BY <1>3 DEF StoreTypeOK
  <2>5. CASE x \notin CellsOn[l]
    <3>1. UnknownOn(l)' = UnknownOn(l) /\ OnesOn(l)' = OnesOn(l)
      BY <1>1, <2>1, <2>5 DEF UnknownOn, OnesOn
    <3>2. unknown'[l] = unknown[l] /\ ones'[l] = ones[l]
      BY <1>3, <2>5 DEF Unassign
    <3>3. QED BY <2>3, <2>4, <3>1, <3>2
  <2>6. CASE x \in CellsOn[l]
    <3>1. x \notin UnknownOn(l)
      BY DEF UnknownOn
    <3>2. UnknownOn(l)' = UnknownOn(l) \cup {x}
      BY <1>1, <2>1, <2>6 DEF UnknownOn
    <3>3. unknown'[l] = unknown[l] + 1
      BY <1>3, <2>6 DEF Unassign
    <3>4. Cardinality(UnknownOn(l) \cup {x}) = Cardinality(UnknownOn(l)) + 1
      BY <2>2, <3>1, FS_AddElement
    <3>5. CASE cells[x] # 1
      <4>1. OnesOn(l)' = OnesOn(l)
        BY <1>1, <2>1, <3>5 DEF OnesOn, Unassigned
      <4>2. ones'[l] = ones[l]
        BY <1>3, <3>5 DEF Unassign
      <4>3. QED BY <2>3, <2>4, <3>2, <3>3, <3>4, <4>1, <4>2
    <3>6. CASE cells[x] = 1
      <4>1. x \in OnesOn(l)
        BY <2>6, <3>6 DEF OnesOn
      <4>2. OnesOn(l)' = OnesOn(l) \ {x}
        BY <1>1, <2>1, <3>6 DEF OnesOn, Unassigned
      <4>3. ones'[l] = ones[l] - 1
        BY <1>3, <2>6, <3>6 DEF Unassign
      <4>4. Cardinality(OnesOn(l) \ {x}) = Cardinality(OnesOn(l)) - 1
        BY <2>2, <4>1, FS_RemoveElement
      <4>5. Cardinality(OnesOn(l) \ {x}) \in Nat
        BY <2>2, FS_RemoveElement, FS_CardinalityType
      <4>6. QED BY <2>3, <2>4, <3>2, <3>3, <3>4, <4>2, <4>3, <4>4, <4>5
    <3>7. QED BY <3>5, <3>6
  <2>7. QED BY <2>5, <2>6
<1>4. (\A l \in Lines : unknown[l] = Cardinality(UnknownOn(l)) /\ ones[l] = Cardinality(OnesOn(l)))'
  BY <1>3
<1>5. unknown' \in [Lines -> Nat] /\ ones' \in [Lines -> Nat]
  BY <1>3 DEF Unassign
<1>6. rowBits' \subseteq Cells
  BY <1>2
<1>7. QED BY <1>1, <1>2, <1>4, <1>5, <1>6 DEF StoreTypeOK, StatsExact

\* The counters and the row bits are exact after any number of assignments and
\* undos, in any order.
THEOREM StatsStayExact == StoreSpec => [](StoreTypeOK /\ StatsExact)
<1>1. StoreInit => StoreTypeOK /\ StatsExact
  BY InitExact
<1>2. ASSUME StoreTypeOK, StatsExact, [StoreAssign \/ StoreUnassign]_store
      PROVE  (StoreTypeOK /\ StatsExact)'
  <2>1. CASE StoreAssign
    BY <1>2, <2>1, AssignExact DEF StoreAssign
  <2>2. CASE StoreUnassign
    BY <1>2, <2>2, UnassignExact DEF StoreUnassign
  <2>3. CASE UNCHANGED store
    BY <1>2, <2>3 DEF store, StoreTypeOK, StatsExact, UnknownOn, OnesOn
  <2>4. QED BY <1>2, <2>1, <2>2, <2>3
<1>3. QED BY <1>1, <1>2, PTL DEF StoreSpec
-------------------------------------------------------------------------------
\* Dropping the last element of a sequence.
LEMMA ButLast ==
  ASSUME NEW S, NEW s \in Seq(S), s # <<>>
  PROVE  /\ Len(s) \in 1..Len(s)
         /\ SubSeq(s, 1, Len(s) - 1) \in Seq(S)
         /\ Len(SubSeq(s, 1, Len(s) - 1)) = Len(s) - 1
         /\ \A p \in 1..(Len(s) - 1) : SubSeq(s, 1, Len(s) - 1)[p] = s[p]
<1>1. Len(s) \in 1..Len(s)
  OBVIOUS
<1>2. \A p \in 1..(Len(s) - 1) : s[p] \in S
  OBVIOUS
<1>3. 1 \in Int /\ Len(s) - 1 \in Int
  BY <1>1
<1> DEFINE t == SubSeq(s, 1, Len(s) - 1)
           n == Len(s)
<1> HIDE DEF t, n
<1>4. /\ SubSeq(s, 1, Len(s) - 1) \in Seq(S)
      /\ Len(SubSeq(s, 1, Len(s) - 1)) = IF 1 <= Len(s) - 1 THEN (Len(s) - 1) - 1 + 1 ELSE 0
      /\ \A p \in 1..((Len(s) - 1) - 1 + 1) : SubSeq(s, 1, Len(s) - 1)[p] = s[1 + p - 1]
  BY <1>2, <1>3, SubSeqProperties
<1>5. Len(SubSeq(s, 1, Len(s) - 1)) = Len(s) - 1
  <2>1. n \in Nat /\ n >= 1
    BY <1>1 DEF n
  <2>2. Len(t) = IF 1 <= n - 1 THEN (n - 1) - 1 + 1 ELSE 0
    BY <1>4 DEF t, n
  <2>3. Len(t) = n - 1
    BY <2>1, <2>2
  <2>4. QED BY <2>3 DEF t, n
<1>6. ASSUME NEW p \in 1..(Len(s) - 1) PROVE SubSeq(s, 1, Len(s) - 1)[p] = s[p]
  <2>1. p \in 1..((Len(s) - 1) - 1 + 1) /\ 1 + p - 1 = p
    BY <1>1
  <2>2. QED BY <1>4, <2>1
<1>7. QED BY <1>1, <1>4, <1>5, <1>6

\* A cell is a row and a column, both numbers.
LEMMA CellParts ==
  \A x \in Cells : /\ x = <<x[1], x[2]>>
                   /\ x[1] \in Index /\ x[2] \in Index
                   /\ x[1] \in Int /\ x[2] \in Int
BY kSAssumption DEF Cells, Index

\* What assign and unassign do to the cells.
LEMMA AssignEffect ==
  ASSUME StoreTypeOK, NEW x \in Cells, NEW v \in {0, 1}, Assign(x, v)
  PROVE  cells'[x] = v /\ \A y \in Cells \ {x} : cells'[y] = cells[y]
BY DEF Assign, StoreTypeOK

LEMMA UnassignEffect ==
  ASSUME StoreTypeOK, NEW x \in Cells, Unassign(x)
  PROVE  cells'[x] = Unassigned /\ \A y \in Cells \ {x} : cells'[y] = cells[y]
BY DEF Unassign, StoreTypeOK

\* Row-major order is a strict total order.
LEMMA BeforeOrder ==
  \A x, y \in Cells :
    /\ ~Before(x, x)
    /\ ~(Before(x, y) /\ Before(y, x))
    /\ x = y \/ Before(x, y) \/ Before(y, x)
    /\ \A z \in Cells : Before(x, y) /\ Before(y, z) => Before(x, z)
BY CellParts DEF Before

\* The first open cell is the first unassigned cell.
LEMMA FirstOpen ==
  ASSUME StatsExact, HintSound, minUnassignedRow \in Index, NEW x \in Cells, IsFirst(x, Open),
         NEW y \in Cells, Before(y, x)
  PROVE  cells[y] # Unassigned
<1> SUFFICES ASSUME cells[y] = Unassigned PROVE FALSE
  OBVIOUS
<1> DEFINE l == RowOf(y[1])
<1>1. l \in Lines /\ y \in CellsOn[l]
  <2>1. l = Line("row", LineIndex(y)["row"]) /\ "row" \in LineTypes
    BY DEF RowOf, LineIndex, LineTypes
  <2>2. QED BY <2>1, LinesOfCell
<1>2. UnknownOn(l) # {} /\ IsFiniteSet(UnknownOn(l))
  BY <1>1, FiniteCells DEF UnknownOn
<1>3. unknown[l] # 0
  <2>1. Cardinality(UnknownOn(l)) # 0
    BY <1>2, FS_EmptySet
  <2>2. QED BY <1>1, <2>1 DEF StatsExact
<1>4. y[1] >= minUnassignedRow
  BY kSAssumption, CellParts DEF HintSound, Index
<1>5. y \in Open
  BY <1>3, <1>4 DEF Open
<1>6. y = x \/ Before(x, y)
  BY <1>5 DEF IsFirst
<1>7. QED BY <1>6, BeforeOrder

\* The lines of a type are lines.
LEMMA LinesInOrder == \A type \in LineTypes : LinesOfType(type) \in Seq(Lines)
<1> SUFFICES ASSUME NEW type \in LineTypes PROVE LinesOfType(type) \in Seq(Lines)
  OBVIOUS
<1>1. LineCount[type] \in Nat
  BY kSAssumption DEF LineCount, LineTypes
<1>2. ASSUME NEW i \in 1..LineCount[type] PROVE LinesOfType(type)[i] \in Lines
  <2>1. LinesOfType(type)[i] \in Range(LinesOfType(type))
    BY <1>2 DEF Range, LinesOfType
  <2>2. QED BY <2>1 DEF Lines
<1>3. LinesOfType(type) \in [1..LineCount[type] -> Lines]
  BY <1>2 DEF LinesOfType
<1>4. Seq(Lines) = UNION {[1..n -> Lines] : n \in Nat}
  BY SeqDef
<1>5. QED BY <1>1, <1>3, <1>4

\* The six lines of a cell are lines.
LEMMA LinesForCellTyped ==
  ASSUME NEW x \in Cells
  PROVE  /\ LinesForCell(x) \in Seq(Lines)
         /\ \A i \in 1..6 : LinesForCell(x)[i] \in Lines
         /\ \A l \in Range(LinesForCell(x)) : l \in Lines
<1>1. /\ Line("row", LineIndex(x)["row"]) \in Lines
      /\ Line("column", LineIndex(x)["column"]) \in Lines
      /\ Line("diagonal", LineIndex(x)["diagonal"]) \in Lines
      /\ Line("antiDiagonal", LineIndex(x)["antiDiagonal"]) \in Lines
      /\ Line("ltp1", LineIndex(x)["ltp1"]) \in Lines
      /\ Line("ltp2", LineIndex(x)["ltp2"]) \in Lines
  BY LinesOfCell DEF LineTypes
<1>2. LinesForCell(x) \in Seq(Lines)
  BY <1>1 DEF LinesForCell
<1>3. \A i \in 1..6 : LinesForCell(x)[i] \in Lines
  BY <1>1 DEF LinesForCell
<1>4. \A l \in Range(LinesForCell(x)) : l \in Lines
  BY <1>2 DEF Range
<1>5. QED BY <1>2, <1>3, <1>4

\* A sequence's range, by its positions.
LEMMA RangeOf ==
  ASSUME NEW S, NEW s \in Seq(S)
  PROVE  Range(s) \subseteq S /\ \A y : y \in Range(s) <=> \E p \in 1..Len(s) : s[p] = y
<1>1. \A p \in 1..Len(s) : s[p] \in S
  OBVIOUS
<1>2. \A y : y \in Range(s) <=> \E p \in 1..Len(s) : s[p] = y
  BY DEF Range
<1>3. QED BY <1>1, <1>2

\* What marking line after line notes.
LEMMA DirtyUnfolds ==
  ASSUME NEW S, NEW lines \in Seq(S), NEW bits, NEW dirty
  PROVE  /\ DirtyAfter(lines, bits, dirty)[0] = dirty
         /\ \A i \in 1..Len(lines) :
              DirtyAfter(lines, bits, dirty)[i] =
                IF IsFresh(lines, bits, i)
                THEN NoteDirty(DirtyAfter(lines, bits, dirty)[i - 1], WordOf(lines[i]))
                ELSE DirtyAfter(lines, bits, dirty)[i - 1]
<1> DEFINE next(d, i) == IF IsFresh(lines, bits, i) THEN NoteDirty(d, WordOf(lines[i])) ELSE d
           IsRun(f, m) == f = [i \in 0..m |-> IF i = 0 THEN dirty ELSE next(f[i - 1], i)]
           G == {m \in Nat : \E f : IsRun(f, m)}
<1> HIDE DEF next
<1>1. PICK n \in Nat : n = Len(lines)
  OBVIOUS
<1>2. 0 \in G
  <2>1. IsRun([i \in 0..0 |-> dirty], 0)
    OBVIOUS
  <2>2. QED BY <2>1
<1>3. ASSUME NEW m \in G PROVE m + 1 \in G
  <2>1. PICK f : IsRun(f, m)
    BY <1>3
  <2> DEFINE g == [i \in 0..(m + 1) |-> IF i = m + 1 THEN next(f[m], m + 1) ELSE f[i]]
  <2>2. ASSUME NEW i \in 0..(m + 1) PROVE g[i] = IF i = 0 THEN dirty ELSE next(g[i - 1], i)
    <3>0. m \in Nat
      BY <1>3
    <3>1. CASE i = m + 1
      <4>1. g[i] = next(f[m], m + 1) /\ i # 0 /\ i - 1 = m /\ m \in 0..(m + 1) /\ m # m + 1
        BY <3>0, <3>1
      <4>2. g[m] = f[m]
        BY <4>1
      <4>3. QED BY <3>1, <4>1, <4>2
    <3>2. CASE i # m + 1 /\ i # 0
      <4>1. i \in 0..m /\ i - 1 \in 0..m /\ i - 1 \in 0..(m + 1) /\ i - 1 # m + 1
        BY <3>0, <3>2
      <4>2. f[i] = next(f[i - 1], i)
        BY <2>1, <3>2, <4>1
      <4>3. g[i] = f[i] /\ g[i - 1] = f[i - 1]
        BY <3>2, <4>1
      <4>4. QED BY <3>2, <4>2, <4>3
    <3>3. CASE i = 0
      <4>1. 0 \in 0..m /\ 0 # m + 1
        BY <3>0
      <4>2. f[0] = dirty
        BY <2>1, <4>1
      <4>3. QED BY <3>3, <4>1, <4>2
    <3>4. QED BY <3>1, <3>2, <3>3
  <2>3. g = [i \in 0..(m + 1) |-> g[i]]
    OBVIOUS
  <2>4. IsRun(g, m + 1)
    <3> HIDE DEF g
    <3> QED BY <2>2, <2>3
  <2>5. m + 1 \in Nat
    BY <1>3
  <2> HIDE DEF g, IsRun
  <2>6. QED BY <2>4, <2>5
<1>4. n \in G
  <2> HIDE DEF G
  <2>1. G \in SUBSET Nat
    BY DEF G
  <2>2. QED BY <1>2, <1>3, <2>1, Induction
<1>5. PICK f : IsRun(f, n)
  BY <1>4
<1>6. DirtyAfter(lines, bits, dirty) = CHOOSE g : IsRun(g, n)
  BY <1>1 DEF DirtyAfter, next
<1> HIDE DEF IsRun
<1>7. IsRun(DirtyAfter(lines, bits, dirty), n)
  BY <1>5, <1>6
<1>8. QED BY <1>1, <1>7 DEF IsRun, next

\* A line is its type and its number.
LEMMA LineParts ==
  ASSUME NEW l \in Lines
  PROVE  /\ l = <<l[1], l[2]>> /\ l[1] \in LineTypes
         /\ l[2] \in Nat /\ l[2] < LineCount[l[1]]
<1>1. PICK type \in LineTypes : l \in Range(LinesOfType(type))
  BY DEF Lines
<1>2. LineCount[type] \in Nat
  BY kSAssumption DEF LineCount, LineTypes
<1>3. PICK i \in 1..LineCount[type] : l = Line(type, i - 1)
  BY <1>1, <1>2 DEF Range, LinesOfType
<1>4. l = <<type, i - 1>>
  BY <1>3 DEF Line
<1>5. QED BY <1>2, <1>4

LEMMA WordTyped ==
  ASSUME NEW l \in Lines PROVE lineIndex(l) \in Nat /\ WordOf(l) \in Int
<1>1. PICK a : a = lineIndex(l)
  OBVIOUS
<1>2. a \in Nat
  BY <1>1, LineParts, kSAssumption DEF lineIndex, LineTypes
<1>3. a \div WordBits \in Int
  BY <1>2, QueueAssumption
<1>4. QED BY <1>1, <1>2, <1>3 DEF WordOf

\* Appending keeps a sequence's range and adds the new element.
LEMMA AppendRange ==
  ASSUME NEW S, NEW s \in Seq(S), NEW x
  PROVE  Range(Append(s, x)) = Range(s) \cup {x}
<1>1. PICK n \in Nat : n = Len(s)
  OBVIOUS
<1>2. /\ DOMAIN s = 1..n /\ DOMAIN Append(s, x) = 1..(n + 1)
      /\ Append(s, x)[n + 1] = x /\ \A p \in 1..n : Append(s, x)[p] = s[p]
  BY <1>1
<1>3. /\ \A p \in 1..(n + 1) : p \in 1..n \/ p = n + 1
      /\ \A p \in 1..n : p \in 1..(n + 1)
      /\ n + 1 \in 1..(n + 1)
  BY <1>1
<1>4. \A y : y \in Range(Append(s, x)) <=> y \in Range(s) \cup {x}
  BY <1>2, <1>3 DEF Range
<1>5. QED BY <1>4

\* A number below the count of lines falls in a word of queued_.
LEMMA Division ==
  ASSUME NEW a \in Nat, NEW m \in Nat, NEW w \in Nat \ {0}, a < m
  PROVE  a \div w \in 0..((m + w - 1) \div w - 1)
<1>1. PICK q, r \in Int : q = a \div w /\ r = (m + w - 1) \div w
  OBVIOUS
<1>2. w * q <= a /\ a < w * q + w /\ q >= 0
  BY <1>1
<1>3. w * r <= m + w - 1 /\ m + w - 1 < w * r + w
  <2>1. m + w - 1 \in Nat
    OBVIOUS
  <2>2. QED BY <1>1, <2>1
<1>4. ASSUME r <= q PROVE FALSE
  <2>1. PICK d \in Nat : q = r + d
    <3>1. q - r \in Nat /\ q = r + (q - r)
      BY <1>1, <1>4
    <3>2. QED BY <3>1
  <2>2. w * q = w * r + w * d
    BY <1>1, <2>1
  <2>3. w * d >= 0
    BY <2>1
  <2>4. QED BY <1>1, <1>2, <1>3, <2>2, <2>3
<1>5. q \in 0..(r - 1)
  BY <1>1, <1>2, <1>4
<1>6. QED BY <1>1, <1>5

LEMMA WordBound ==
  ASSUME NEW l \in Lines PROVE WordOf(l) \in 0..(kQueuedWords - 1)
<1>1. PICK a : a = lineIndex(l)
  OBVIOUS
<1>2. a \in Nat /\ a < 8 * kS - 2
  <2>1. CASE l[1] = "row"
    BY <1>1, <2>1, LineParts, kSAssumption DEF lineIndex, LineTypes, LineCount
  <2>2. CASE l[1] = "column"
    BY <1>1, <2>2, LineParts, kSAssumption DEF lineIndex, LineTypes, LineCount
  <2>3. CASE l[1] = "diagonal"
    BY <1>1, <2>3, LineParts, kSAssumption DEF lineIndex, LineTypes, LineCount
  <2>4. CASE l[1] = "antiDiagonal"
    BY <1>1, <2>4, LineParts, kSAssumption DEF lineIndex, LineTypes, LineCount
  <2>5. CASE l[1] = "ltp1"
    BY <1>1, <2>5, LineParts, kSAssumption DEF lineIndex, LineTypes, LineCount
  <2>6. CASE l[1] = "ltp2"
    BY <1>1, <2>6, LineParts, kSAssumption DEF lineIndex, LineTypes, LineCount
  <2>7. QED BY <2>1, <2>2, <2>3, <2>4, <2>5, <2>6, LineParts DEF LineTypes
<1>3. 8 * kS - 2 \in Nat
  BY kSAssumption
<1>4. QED BY <1>1, <1>2, <1>3, QueueAssumption, Division DEF WordOf, kQueuedWords

\* The numbers of the words of queued_.
WordNumbers == 0..(kQueuedWords - 1)

\* Noting words keeps to the words there are; where dirtyWords_ is full, the new
\* count is a word's number, and there is that much of it.
LEMMA DirtyTyped ==
  ASSUME NEW lines \in Seq(Lines), NEW bits, NEW dirty \in Seq(WordNumbers)
  PROVE  DirtyAfter(lines, bits, dirty)[Len(lines)] \in Seq(WordNumbers)
<1> DEFINE after == DirtyAfter(lines, bits, dirty)
           G == {i \in Nat : after[i] \in Seq(WordNumbers)}
<1>1. PICK n \in Nat : n = Len(lines)
  OBVIOUS
<1>2. /\ after[0] = dirty
      /\ \A i \in 1..n : after[i] = IF IsFresh(lines, bits, i) THEN NoteDirty(after[i - 1], WordOf(lines[i]))
                                    ELSE after[i - 1]
  BY <1>1, DirtyUnfolds
<1> HIDE DEF after
<1>3. 0 \in G
  BY <1>2
<1>4. ASSUME NEW i \in 0..(n - 1), i \in G PROVE i + 1 \in G
  <2>1. i + 1 \in 1..n /\ (i + 1) - 1 = i
    OBVIOUS
  <2>2. PICK w : w = WordOf(lines[i + 1])
    OBVIOUS
  <2>3. w \in WordNumbers
    BY <1>1, <2>1, <2>2, WordBound DEF WordNumbers
  <2>4. PICK d \in Seq(WordNumbers) : d = after[i]
    BY <1>4
  <2>5. NoteDirty(d, w) \in Seq(WordNumbers)
    <3>1. CASE Len(d) < DirtyRoom
      <4>1. Append(d, w) \in Seq(WordNumbers)
        BY <2>3, <2>4
      <4>2. QED BY <3>1, <4>1 DEF NoteDirty
    <3>2. CASE ~(Len(d) < DirtyRoom)
      <4>1. kQueuedWords \in Int /\ w \in Nat /\ w <= kQueuedWords - 1
        BY <2>3, QueueAssumption, kSAssumption DEF kQueuedWords, WordNumbers
      <4>2. w <= Len(d)
        BY <3>2, <4>1, RoomAssumption, QueueAssumption
      <4>3. \A j \in 1..w : d[j] \in WordNumbers
        BY <2>4, <4>1, <4>2
      <4>4. SubSeq(d, 1, w) \in Seq(WordNumbers)
        BY <4>1, <4>3, SubSeqProperties
      <4>5. QED BY <3>2, <4>4 DEF NoteDirty
    <3>3. QED BY <3>1, <3>2
  <2>6. after[i + 1] \in Seq(WordNumbers)
    BY <1>2, <2>1, <2>2, <2>4, <2>5
  <2>7. QED BY <1>4, <2>6
<1> HIDE DEF G
<1>5. \A i \in 0..n : i \in G
  BY <1>3, <1>4, InductionUpTo
<1>6. n \in G
  BY <1>5
<1>7. QED BY <1>1, <1>6 DEF G, after

LEMMA NotForcingTyped == NotForcing \in [line : Lines, value : CellState]
<1>1. 0 \in Index
  BY kSAssumption DEF Index
<1>2. <<0, 0>> \in Cells /\ "row" \in LineTypes
  BY <1>1 DEF Cells, LineTypes
<1>3. Line("row", LineIndex(<<0, 0>>)["row"]) \in Lines
  BY <1>2, LinesOfCell
<1>4. LineIndex(<<0, 0>>)["row"] = 0
  BY DEF LineIndex
<1>5. QED BY <1>3, <1>4 DEF NotForcing, CellState

\* Marking lines leaves lines queued and words noted.
LEMMA MarkTyped ==
  ASSUME NEW lines \in Seq(Lines), NEW bits \in SUBSET Lines, NEW dirty \in Seq(WordNumbers),
         MarkAll(lines, bits, dirty)
  PROVE  queued' \subseteq Lines /\ dirtyWords' \in Seq(WordNumbers)
<1>1. Range(lines) \subseteq Lines
  BY RangeOf
<1>2. QED BY <1>1, DirtyTyped DEF MarkAll
===============================================================================
