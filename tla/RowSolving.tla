------------------------------- MODULE RowSolving -------------------------------
(***************************************************************************)
(* What the two solvers that work row by row share.  RowDecomposedController*)
(* is decompress's solver for DI = 0, RowSerialSolver the one of the       *)
(* rowSolver command; both complete rows from their CRC-32.                *)
(*                                                                         *)
(* A digest here is any GF(2)-linear map of a row, as CRC-32 is (up to a   *)
(* constant): the rows that have a given digest and agree with the known   *)
(* cells are 2^free many, or none.                                         *)
(***************************************************************************)
EXTENDS BranchingController

CONSTANTS
  Digest(_, _),             \* the CRC-32 of a line, given as its set of 1 positions,
                            \* under a hash assumption
  Blocks,                   \* the blocks to solve: [original, target, hash, lh, vh]
  SidecarFiles(_),          \* the sidecars there may be when a block is solved
  kThreshold,               \* unknowns of a row that CRC-32 may complete (32 in the code)
  kEnumerated,              \* free variables whose assignments are tried (8)
  kRowCompletionThreshold   \* unknowns of a row the search prefers (64)

ASSUME RowSolvingAssumption ==
  /\ {kThreshold, kEnumerated, kRowCompletionThreshold} \subseteq Nat
  /\ kEnumerated <= kThreshold

ASSUME BlocksAssumption == \A b \in Blocks : b.target \in [Lines -> Int]

VARIABLES
  solver,    \* "decomposed" or "serial"
  original,  \* the matrix that was compressed
  hash,      \* the hash assumption the run is made under
  lh, vh,    \* the expected digests of the rows and of the columns
  sidecar,   \* the loaded sidecar files, see Sidecars
  pc,
  frames,    \* the search's stack
  call,      \* the locals of the subroutine that runs
  locals,    \* the locals of the search
  answers    \* the matrices given out, in order

input   == <<target, solver, original, hash, lh, vh, sidecar>>
control == <<pc, frames, call, locals, answers>>
vars    == <<store, engine, input, brancher, control>>

Matrices == [Cells -> {0, 1}]

RowOfMatrix(m, r)    == {c \in Index : m[<<r, c>>] = 1}
ColumnOfMatrix(m, c) == {r \in Index : m[<<r, c>>] = 1}

BlockOf(m, h) ==
  [original |-> m,
   target   |-> [l \in Lines |-> Cardinality({x \in CellsOn[l] : m[x] = 1})],
   hash     |-> h,
   lh       |-> [r \in Index |-> Digest(h, RowOfMatrix(m, r))],
   vh       |-> [c \in Index |-> Digest(h, ColumnOfMatrix(m, c))]]

InputInit ==
  /\ StoreInit /\ EngineInit /\ BranchingInit
  /\ \E b \in Blocks :
       /\ original = b.original /\ target = b.target /\ hash = b.hash
       /\ lh = b.lh /\ vh = b.vh
       /\ sidecar \in SidecarFiles(b)
  /\ frames = <<>>
  /\ answers = <<>>

\* The entries of a sequence that are in S, in its order.
Kept(s, S) == FlattenSeq([i \in DOMAIN s |-> IF s[i] \in S THEN <<s[i]>> ELSE <<>>])

InRowOrder(S) == Kept([i \in 1..(kS * kS) |-> <<(i - 1) \div kS, (i - 1) % kS>>], S)

\* The lines of the initial propagation, in the order both solvers list them.
AllLines ==
  LinesOfType("row") \o LinesOfType("column") \o LinesOfType("diagonal")
    \o LinesOfType("antiDiagonal") \o LinesOfType("ltp1") \o LinesOfType("ltp2")

Complete(l)  == unknown[l] = 0
AllComplete  == \A r \in Index : Complete(RowOf(r))
RowBits(r)   == {c \in Index : <<r, c>> \in rowBits}
verifyRow(r) == Digest(hash, RowBits(r)) = lh[r]

-------------------------------------------------------------------------------
(* Crc32RowCompleter.                                                      *)

FreeColumns(r) == {c \in Index : cells[<<r, c>>] = Unassigned}

\* The values of row r's free cells (the columns of its 1s) that give its digest.
Completions(r) ==
  {S \in SUBSET FreeColumns(r) : Digest(hash, RowBits(r) \cup S) = lh[r]}

\* The order in which assignments of the free variables count up: two solutions
\* of the system first differ, from the right, in a free column.
CountsBefore(S, T) ==
  LET differ == (S \ T) \cup (T \ S)
  IN  \E c \in differ : c \in T /\ \A d \in differ : d <= c

FirstCounted(sets) == CHOOSE S \in sets : \A T \in sets \ {S} : CountsBefore(S, T)

MeetingSum(r, sets) == {S \in sets : Cardinality(S) = Residual(RowOf(r))}

\* tryCompleteRow.  A single completion is taken whatever its sum; of several, the
\* first that meets the row's sum; of too many, none.
tryCompleteRow(r) ==
  LET possible == Completions(r)
      meeting  == MeetingSum(r, possible)
      as(S)    == [feasible |-> TRUE, columns |-> FreeColumns(r), ones |-> S]
  IN  IF Cardinality(possible) = 1 THEN as(CHOOSE S \in possible : TRUE)
      ELSE IF Cardinality(possible) > 2 ^ kEnumerated
           THEN [feasible |-> TRUE, columns |-> {}, ones |-> {}]
      ELSE IF meeting # {} THEN as(FirstCounted(meeting))
      ELSE [feasible |-> FALSE, columns |-> {}, ones |-> {}]

\* A row with as many unknowns as a word has bits: the mask of the free variables
\* is a shift by the word's width, and may come out empty.  Then only the pivots
\* are assigned, to what they are when every free variable is 0.
FreeVariables(r) ==
  {c \in FreeColumns(r) :
     \E S, T \in Completions(r) :
       c \in T \ S /\ \A d \in (S \ T) \cup (T \ S) : d <= c}

PivotsOnly(r) ==
  [feasible |-> TRUE, columns |-> FreeColumns(r) \ FreeVariables(r),
   ones |-> FirstCounted(Completions(r))]

CompletionResults(r) ==
  {tryCompleteRow(r)}
    \cup IF unknown[RowOf(r)] = kThreshold /\ Completions(r) # {} THEN {PivotsOnly(r)} ELSE {}

-------------------------------------------------------------------------------
(* ProbabilityEstimator: the product of the residuals of a cell's lines    *)
(* other than its row, for a 1, and of what they leave over, for a 0.      *)

OtherLines(x) == Tail(LinesForCell(x))

Product(values) == FoldLeft(LAMBDA a, b : a * b, 1, values)

score1(x) == Product([i \in 1..5 |-> Residual(OtherLines(x)[i])])
score0(x) == Product([i \in 1..5 |-> unknown[OtherLines(x)[i]] - Residual(OtherLines(x)[i])])

preferred(x)  == IF score1(x) > score0(x) THEN 1 ELSE 0
confidence(x) == IF score1(x) > score0(x) THEN score1(x) - score0(x) ELSE score0(x) - score1(x)

\* computeCellScores(r)[0]: any of the most confident cells, ties being unordered.
BestCells(r) ==
  LET free == {<<r, c>> : c \in FreeColumns(r)}
  IN  {x \in free : \A y \in free : confidence(y) <= confidence(x)}

-------------------------------------------------------------------------------
Propagating ==
  /\ EngineStep
  /\ UNCHANGED <<input, brancher, control>>

-------------------------------------------------------------------------------
Bits(m) == {x \in Cells : m[x] = 1}

\* The payload was written for the original, undamaged.
Genuine == BlockOf(original, hash) = [original |-> original, target |-> target,
                                      hash |-> hash, lh |-> lh, vh |-> vh]

\* The payload's sums are a matrix's.
GenuineSums == BlockOf(original, hash).target = target

HasSums(m)   == \A l \in Lines : Cardinality(CellsOn[l] \cap m) = target[l]
HasHashes(m) == \A r \in Index : Digest(hash, {c \in Index : <<r, c>> \in m}) = lh[r]
===============================================================================
