---------------------------- MODULE CombinatorSolver ----------------------------
(***************************************************************************)
(* decompress/Solvers/CombinatorSolver: solve() and solveCascade(), which  *)
(* repeat three deductions on the system of CombinatorSystem until none    *)
(* finds a cell: GaussElim on the equations, IntBound and CrossDeduce on   *)
(* the integer lines.  The cascade adds the CRC equations of longer and    *)
(* longer diagonals, one phase at a time.  One step is one deduction, or   *)
(* one line popped by IntBound.                                            *)
(***************************************************************************)
EXTENDS CombinatorSystem

CONSTANTS
  MaxIter,   \* iterations of one fixpoint (200 in the code)
  MaxFree,   \* bound of the model: cells all of whose fillings are enumerated
  Problems   \* [original, config, donated] to solve

ASSUME IterAssumption == MaxIter \in Nat \ {0}

\* -preassign-cols n: the leftmost n columns of the matrix itself.
PreassignColumns(m, n) == [x \in {x \in Cells : x[2] < n} |-> m[x]]

\* What a Config can hold, of the numbers and lists in it.
IsConfig(cfg) ==
  /\ {cfg.dhMaxDiags, cfg.xhMaxDiags, cfg.cascadeMaxLen, cfg.rltpMaxLines} \subseteq Nat
  /\ {cfg.rltpTier3Width, cfg.rltpTier5Width} \subseteq Widths
  /\ cfg.yltpSeeds \in Seq(DOMAIN YltpLine)
  /\ cfg.rltpCentres \in Seq(Cells)

ASSUME ProblemsAssumption ==
  \A p \in Problems :
    /\ p.original \in [Cells -> {0, 1}]
    /\ IsConfig(p.config)
    /\ \E n \in 0..kS : p.donated = PreassignColumns(p.original, n)

VARIABLES
  original, config, donated,  \* the matrix, the configuration, cells known beforehand
  gf2,         \* gf2Rows_ with gf2Target_
  intLines,    \* intLines_
  cellState,   \* cellState_
  result,      \* Result
  pc, method,  \* where the call is; "solve", "cascade" or "hybrid"
  phase, iter, \* loop counters of solveCascade and of the fixpoint
  before,      \* result.determined when the iteration and the phase began
  queue, found \* IntBound: lines to look at, cells it has determined

input  == <<original, config, donated>>
system == <<gf2, intLines, cellState>>
bound  == <<queue, found>>
vars   == <<input, system, result, pc, method, phase, iter, before, bound>>

NoResult == [determined |-> 0, feasible |-> TRUE, correct |-> FALSE, bhVerified |-> FALSE]

Assigned  == {x \in Cells : cellState[x] # Unassigned}
Known     == Restrict(cellState, Assigned)
NoneFound == <<>>

Joined(f, g) ==
  [x \in DOMAIN f \cup DOMAIN g |-> IF x \in DOMAIN f THEN f[x] ELSE g[x]]

\* The constructor.
SolverInit ==
  /\ gf2 = buildSystem(original, config)
  /\ intLines = buildIntLines(original, config)
  /\ cellState = [x \in Cells |-> Unassigned]
  /\ result = NoResult
  /\ pc = "ready"
  /\ method = IF config.hybrid \/ config.cascade THEN "cascade" ELSE "solve"
  /\ phase = 0 /\ iter = 0
  /\ before = [iteration |-> 0, phase |-> 0]
  /\ queue = <<>> /\ found = NoneFound

\* A block and a configuration, with the cells known beforehand.
Init ==
  /\ \E p \in Problems : original = p.original /\ config = p.config /\ donated = p.donated
  /\ SolverInit

-------------------------------------------------------------------------------
\* A variant that leaves the count of cells left on a line alone.
AssignKeepingCounts(lines, new) ==
  [i \in DOMAIN lines |->
     [lines[i] EXCEPT !.rho = @ - OnesOf(new, lines[i].cells \cap DOMAIN new)]]

\* assignCell, for each of some cells.
AssignLines(lines, new) ==
  [i \in DOMAIN lines |->
     [cells |-> lines[i].cells,
      rho |-> lines[i].rho - OnesOf(new, lines[i].cells \cap DOMAIN new),
      u   |-> lines[i].u - Cardinality(lines[i].cells \cap DOMAIN new)]]

With(cells, new) == [x \in Cells |-> IF x \in DOMAIN new THEN new[x] ELSE cells[x]]

AssignCells(new) ==
  /\ cellState' = With(cellState, new)
  /\ intLines' = AssignLines(intLines, new)

\* preAssign, for each donated cell.
PreAssign ==
  /\ pc = "ready"
  /\ AssignCells(donated)
  /\ gf2' = Substitute(gf2, donated)
  /\ pc' = IF method = "cascade" THEN "cascade" ELSE "gauss"
  /\ UNCHANGED <<input, result, method, phase, iter, before, bound>>

-------------------------------------------------------------------------------
(* solveCascade: the phases.                                               *)

Phase(minLen, maxLen, hashBits) == [minLen |-> minLen, maxLen |-> maxLen, hashBits |-> hashBits]

Phases ==
  LET to(b) == IF b = 0 THEN kS ELSE b * Unit
      P(a, b, w) == Phase(a * Unit + 1, to(b), w)
  IN  CASE config.hybridWidths ->
             <<P(0, 1, 8), P(1, 2, 16), P(2, 4, 32), P(4, 8, 16), P(8, 12, 8)>>
        [] ~config.hybridWidths /\ config.dhBits = 8 ->
             <<P(0, 1, 8), P(1, 2, 8), P(2, 4, 8), P(4, 0, 8)>>
        [] ~config.hybridWidths /\ config.dhBits = 16 ->
             <<P(0, 2, 16), P(2, 4, 16), P(4, 8, 16), P(8, 0, 16)>>
        [] OTHER ->
             <<P(0, 4, 32), P(4, 8, 32), P(8, 12, 32), P(12, 0, 32)>>

\* VH, yLTP and rLTP are there from the first phase on; the cells known so far
\* are not substituted into them.
StartCascade ==
  /\ pc = "cascade"
  /\ gf2' = gf2 \o Given(config.useVHInCascade,
                         IF config.vhBits = 16 THEN addVH16(original) ELSE addVH(original))
                \o addYLTP(original, config)
                \o addRLTP(original, config)
  /\ intLines' = intLines \o YltpIntLines(original, config) \o RltpIntLines(original, config)
  /\ phase' = 1
  /\ pc' = "phase"
  /\ UNCHANGED <<input, cellState, result, method, iter, before, bound>>

CascadeLimit == IF config.cascadeMaxLen > 0 THEN config.cascadeMaxLen ELSE kS

BeginPhase ==
  /\ pc = "phase"
  /\ phase <= Len(Phases) /\ Phases[phase].minLen <= CascadeLimit
  /\ LET minLen == Phases[phase].minLen
         maxLen == Min({Phases[phase].maxLen, CascadeLimit})
     IN  gf2' = gf2 \o
           CASE Phases[phase].hashBits = 8 ->
                  addDH8Range(original, Known, minLen, maxLen)
                    \o addXH8Range(original, Known, minLen, maxLen)
             [] Phases[phase].hashBits = 16 ->
                  addDH16Range(original, Known, minLen, maxLen)
                    \o addXH16Range(original, Known, minLen, maxLen)
             [] OTHER ->
                  addDHRange(original, Known, minLen, maxLen)
                    \o addXHRange(original, Known, minLen, maxLen)
  /\ before' = [before EXCEPT !.phase = result.determined]
  /\ iter' = 0
  /\ pc' = "gauss"
  /\ UNCHANGED <<input, intLines, cellState, result, method, phase, bound>>

PhasesOver ==
  /\ pc = "phase"
  /\ phase > Len(Phases) \/ Phases[phase].minLen > CascadeLimit
  /\ pc' = "verify"
  /\ UNCHANGED <<input, system, result, method, phase, iter, before, bound>>

EndPhase ==
  /\ pc = "phaseEnd"
  /\ IF result.determined = kN \/ (result.determined = before.phase /\ phase >= 2)
     THEN pc' = "verify" /\ UNCHANGED phase
     ELSE pc' = "phase" /\ phase' = phase + 1
  /\ UNCHANGED <<input, system, result, method, iter, before, bound>>

-------------------------------------------------------------------------------
(* One iteration of the fixpoint.                                          *)

\* gaussElim works on a copy: columns in order, those of known cells skipped,
\* the pivot row swapped up and added to every other row with the column.
Xor(e1, e2) ==
  [cells |-> SymDiff(e1.cells, e2.cells), target |-> (e1.target + e2.target) % 2]

Eliminate(rows, p, f, col) ==
  LET pivot == rows[f]
      at(r) == IF r = p THEN pivot ELSE IF r = f THEN rows[p] ELSE rows[r]
  IN  [r \in DOMAIN rows |-> IF r # p /\ col \in at(r).cells THEN Xor(at(r), pivot) ELSE at(r)]

\* A variant that does not look below for a pivot.
PivotColumnInPlace(work, col) ==
  LET p == Len(work.pivots) + 1
  IN  IF cellState[col] # Unassigned \/ p > Len(work.rows) \/ col \notin work.rows[p].cells
      THEN work
      ELSE [rows |-> Eliminate(work.rows, p, p, col), pivots |-> Append(work.pivots, col)]

PivotColumn(work, col) ==
  LET p == Len(work.pivots) + 1
      having == {r \in p..Len(work.rows) : col \in work.rows[r].cells}
  IN  IF cellState[col] # Unassigned \/ having = {} THEN work
      ELSE [rows   |-> Eliminate(work.rows, p, Min(having), col),
            pivots |-> Append(work.pivots, col)]

\* A variant that reads a cell off every pivot row, with free cells or without.
DeterminedWithFree(reduced) ==
  LET rank == Len(reduced.pivots)
  IN  [x \in ToSet(reduced.pivots) |->
         reduced.rows[CHOOSE i \in 1..rank : reduced.pivots[i] = x].target]

\* A pivot row with no free cell gives its pivot's value.  Known cells left in
\* the row are not looked at.
DeterminedBy(reduced) ==
  LET rank == Len(reduced.pivots)
      free == Cells \ (Assigned \cup ToSet(reduced.pivots))
      rows == {i \in 1..rank : reduced.rows[i].cells \cap free = {}}
  IN  [x \in {reduced.pivots[i] : i \in rows} |->
         reduced.rows[CHOOSE i \in rows : reduced.pivots[i] = x].target]

\* (The choice among one only makes TLC evaluate each column before the next.)
gaussElim(rows) ==
  LET work[i \in 0..kN] ==
        IF i = 0 THEN [rows |-> rows, pivots |-> <<>>]
        ELSE CHOOSE next \in {PivotColumn(w, RowMajor[i]) : w \in {work[i - 1]}} : TRUE
  IN  DeterminedBy(work[kN])

Count(new) == Cardinality(DOMAIN new)

GaussPass ==
  /\ pc = "gauss"
  /\ \E new \in {gaussElim(gf2)} :
         /\ AssignCells(new)
         /\ gf2' = Substitute(gf2, new)
         /\ result' = [result EXCEPT !.determined = @ + Count(new)]
  /\ before' = [before EXCEPT !.iteration = result.determined]
  /\ iter' = iter + 1
  /\ queue' = Positions(intLines)
  /\ found' = NoneFound
  /\ pc' = "intBound"
  /\ UNCHANGED <<input, method, phase>>

\* Where an inconsistency, or a fixpoint reached, leads to.
Inconsistent ==
  /\ result' = [result EXCEPT !.feasible = FALSE]
  /\ pc' = CASE method = "solve"   -> "verify"
             [] method = "cascade" -> "done"
             [] method = "hybrid"  -> "axes"

Violated(l) == l.u # 0 /\ (l.rho < 0 \/ l.rho > l.u)
Forces(l)   == l.u # 0 /\ ~Violated(l) /\ (l.rho = 0 \/ l.rho = l.u)

LinesOn(x) == Among(Positions(intLines), {i \in DOMAIN intLines : x \in intLines[i].cells})

\* The lines of the cells just assigned queue up unless they are waiting.  The
\* line popped waits no longer, so its own cells queue it again.
Requeue(rest, cells) ==
  LET lines == FlattenSeq([j \in DOMAIN cells |-> LinesOn(cells[j])])
      fresh(i) == lines[i] \notin ToSet(rest) /\ \A j \in 1..(i - 1) : lines[j] # lines[i]
      order == Among(Positions(lines), {i \in DOMAIN lines : fresh(i)})
  IN  rest \o [i \in DOMAIN order |-> lines[order[i]]]

BoundLine ==
  /\ pc = "intBound" /\ queue # <<>>
  /\ LET l     == intLines[Head(queue)]
         free  == Among(RowMajor, l.cells \ Assigned)
         cells == IF Forces(l) THEN free ELSE <<>>
         new   == [x \in ToSet(cells) |-> IF l.rho = 0 THEN 0 ELSE 1]
     IN  /\ ~Violated(l)
         /\ AssignCells(new)
         /\ queue' = Requeue(Tail(queue), cells)
         /\ found' = Joined(found, new)
  /\ UNCHANGED <<input, gf2, result, pc, method, phase, iter, before>>

\* The cells determined before the violation stay assigned, uncounted and not
\* substituted.
BoundViolated ==
  /\ pc = "intBound" /\ queue # <<>>
  /\ Violated(intLines[Head(queue)])
  /\ Inconsistent
  /\ queue' = <<>> /\ found' = NoneFound
  /\ UNCHANGED <<input, system, method, phase, iter, before>>

BoundPass ==
  /\ pc = "intBound" /\ queue = <<>>
  /\ gf2' = Substitute(gf2, found)
  /\ result' = [result EXCEPT !.determined = @ + Count(found)]
  /\ found' = NoneFound
  /\ pc' = "cross"
  /\ UNCHANGED <<input, intLines, cellState, method, phase, iter, before, queue>>

\* crossDeduce: values each line through a free cell could bear.
Bears(x, v) ==
  \A i \in DOMAIN intLines :
    x \in intLines[i].cells => intLines[i].rho - v \in 0..(intLines[i].u - 1)

CanBe(x) == {v \in {0, 1} : Bears(x, v)}

Deducible == {x \in Cells \ Assigned : Cardinality(CanBe(x)) = 1}

AfterFixpoint ==
  CASE method = "solve" -> "verify" [] method = "cascade" -> "phaseEnd" [] method = "hybrid" -> "axes"

AssignDeducible(new) ==
  /\ AssignCells(new)
  /\ gf2' = Substitute(gf2, new)
  /\ result' = [result EXCEPT !.determined = @ + Count(new)]

\* crossDeduce and the end of the iteration.
CrossPass ==
  /\ pc = "cross"
  /\ IF \E x \in Cells \ Assigned : CanBe(x) = {}
     THEN Inconsistent /\ UNCHANGED system
     ELSE \E new \in {[x \in Deducible |-> CHOOSE v \in CanBe(x) : TRUE]} :
            /\ AssignDeducible(new)
            /\ pc' = IF result'.determined \in {before.iteration, kN} \/ iter = MaxIter
                     THEN AfterFixpoint ELSE "gauss"
  /\ UNCHANGED <<input, method, phase, iter, before, bound>>

AfterVerify ==
  IF config.hybrid /\ result.feasible /\ result.determined # kN THEN "round" ELSE "done"

\* A variant that takes a full block for the right one.
VerifyFull ==
  /\ pc = "verify"
  /\ result' = [result EXCEPT !.correct = \A x \in Assigned : cellState[x] = original[x],
                              !.bhVerified = Assigned = Cells]
  /\ pc' = AfterVerify
  /\ UNCHANGED <<input, system, method, phase, iter, before, bound>>

\* The block hash is taken to tell any two matrices apart.
Verify ==
  /\ pc = "verify"
  /\ result' = [result EXCEPT !.correct = \A x \in Assigned : cellState[x] = original[x],
                              !.bhVerified = cellState = original]
  /\ pc' = AfterVerify
  /\ UNCHANGED <<input, system, method, phase, iter, before, bound>>

Iteration == GaussPass \/ BoundLine \/ BoundViolated \/ BoundPass \/ CrossPass

Next ==
  \/ PreAssign \/ StartCascade \/ BeginPhase \/ PhasesOver \/ EndPhase
  \/ Iteration \/ Verify
-------------------------------------------------------------------------------
(* Properties.                                                             *)

\* TRUE when no line system step is under way: between two deductions.
AtRest == pc \in {"gauss", "verify", "phaseEnd", "axes", "round", "done"}

TypeOK ==
  /\ original \in [Cells -> {0, 1}]
  /\ cellState \in [Cells -> {0, 1, Unassigned}]
  /\ \A i \in DOMAIN gf2 : gf2[i].cells \subseteq Cells /\ gf2[i].target \in {0, 1}
  /\ \A i \in DOMAIN intLines : intLines[i].cells \subseteq Cells
  /\ ToSet(queue) \subseteq DOMAIN intLines
  /\ phase \in 0..(Len(Phases) + 1) /\ iter \in 0..MaxIter

KnownRight == \A x \in Assigned : cellState[x] = original[x]

\* Every equation holds of the matrix it was made from, whatever right cells have
\* been substituted into it since (addGeometricParity, add..., propagateGF2).
EquationsHold ==
  method # "hybrid" /\ KnownRight => \A i \in DOMAIN gf2 : Satisfies(original, gf2[i])

\* solveCascade makes the partitions' lines after preAssign, from the whole matrix:
\* the cells given beforehand are overlooked there, and count as left.
Overlooked ==
  IF method # "solve" /\ (config.yltpSeeds # <<>> \/ config.rltpCentres # <<>>)
  THEN DOMAIN donated ELSE {}

Overlooking(cells, S) == [x \in Cells |-> IF x \in S THEN Unassigned ELSE cells[x]]

\* IntLine's fields are what their comments say: rho the ones of the line not
\* yet assigned, u the cells of the line not yet assigned (assignCell), where a
\* late line takes the cells it overlooks for unassigned.
LinesExact ==
  \A i \in DOMAIN intLines : \E cells \in {cellState, Overlooking(cellState, Overlooked)} :
    LET line == intLines[i]
    IN  /\ line.u = Cardinality({x \in line.cells : cells[x] = Unassigned})
        /\ line.rho = OnesOf(original, line.cells) - OnesOf(cells, line.cells)

\* Result.determined counts each cell the deductions found, once, and none of
\* the cells known beforehand.
CountExact ==
  AtRest /\ method # "hybrid" /\ result.feasible =>
    result.determined + Cardinality(DOMAIN donated) = Cardinality(Assigned)

\* The equations, the lines and the count describe the matrix, at every step.
SystemSound == EquationsHold /\ LinesExact /\ CountExact

\* When a fixpoint ends within its iterations and with cells left, none of the
\* deductions finds another one: what the last pass found has been offered to
\* the other two.
FixpointReached ==
  pc \in {"verify", "phaseEnd"} /\ result.feasible /\ iter \in 1..(MaxIter - 1)
      /\ Assigned # Cells =>
    /\ gaussElim(gf2) = NoneFound
    /\ \A i \in DOMAIN intLines : Forces(intLines[i]) => intLines[i].cells \subseteq Assigned

\* crossDeduce is given nothing to find: once the queue of lines has run empty,
\* every cell left could be 0 or 1 as far as its lines can tell one by one.
CrossAddsNothing ==
  pc = "cross" /\ KnownRight => Deducible = {} /\ \A x \in Cells \ Assigned : CanBe(x) # {}

\* Elimination is complete: a cell still free when the fixpoint ends takes both
\* values among the matrices that satisfy the equations.
EliminationComplete ==
  pc \in {"verify", "phaseEnd"} /\ result.feasible /\ iter \in 1..(MaxIter - 1)
      /\ KnownRight /\ Cardinality(Cells \ Assigned) \in 1..MaxFree =>
    LET free == Cells \ Assigned
        solutions == {m \in {Joined(f, Known) : f \in [free -> {0, 1}]} :
                        \A i \in DOMAIN gf2 : Satisfies(m, gf2[i])}
    IN  \A x \in free : {m[x] : m \in solutions} = {0, 1}

\* What a fixpoint leaves free, no deduction can find: bounds, crossing lines and
\* elimination have each been given the last word of the others.
FixpointComplete == FixpointReached /\ CrossAddsNothing /\ EliminationComplete
===============================================================================
