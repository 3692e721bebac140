----------------------------- MODULE HybridSolver -----------------------------
(***************************************************************************)
(* CombinatorSolver::solveHybrid.  Rounds of: the fixpoint, then a search  *)
(* of one line at a time (rows, columns, diagonals, anti-diagonals) for    *)
(* the first filling with the right CRC; whatever fills is kept.  When no  *)
(* round gains, restarts of a depth-first search over single cells in      *)
(* shuffled orders.                                                        *)
(***************************************************************************)
EXTENDS CombinatorSolver

CONSTANTS
  MaxRounds,      \* 100
  MaxDfsNodes,    \* kMaxDfsNodes, 50,000,000: nodes dfsLine may visit
  NumRestarts,    \* kNumRestarts, 100
  MaxDecisions,   \* kMaxDecPerRestart, 5,000,000
  GEInterval,     \* kGEInterval, 500
  Shuffle(_, _)   \* Shuffle(restart, n): that restart's order of n things

ASSUME SearchAssumption == {MaxRounds, MaxDfsNodes, NumRestarts, MaxDecisions, GEInterval} \subseteq Nat \ {0}
ASSUME ShuffleAssumption ==
  \A r \in 0..(NumRestarts - 1), n \in 1..kN : Shuffle(r, n) \in Bijection(1..n, 1..n)

VARIABLES
  round, axis, lines,  \* lines of the axis still to be searched
  start,               \* result.determined when the round and the axis began
  base,                \* the baseline of the restarts
  crcLines,            \* allCrcLines: the equations that prune the restarts
  restart, order, orderIdx, stack, decisions, sinceGE

rounds == <<round, axis, lines, start>>
search == <<base, crcLines, restart, order, orderIdx, stack, decisions, sinceGE>>
hybridVars == <<vars, rounds, search>>

HybridSearchInit ==
  /\ round = 0 /\ axis = 0 /\ lines = <<>> /\ start = [round |-> 0, axis |-> 0]
  /\ base = [cells |-> cellState, lines |-> intLines, gf2 |-> gf2, determined |-> 0]
  /\ crcLines = {} /\ restart = 0 /\ order = <<>> /\ orderIdx = 1 /\ stack = <<>>
  /\ decisions = 0 /\ sinceGE = 0

-------------------------------------------------------------------------------
(* Rounds.                                                                 *)

BeginRound ==
  /\ pc = "round"
  /\ round' = round + 1
  /\ start' = [start EXCEPT !.round = result.determined]
  /\ method' = "hybrid" /\ iter' = 0
  /\ pc' = "gauss"
  /\ UNCHANGED <<input, system, result, phase, before, bound, axis, lines, search>>

NextRound == IF round < MaxRounds THEN "round" ELSE "roundsOver"

DiagWidth(n) == IF n <= Unit THEN 8 ELSE IF n <= 2 * Unit THEN 16 ELSE 32

\* The lines of the four axes with the widths of their CRCs.
AxisLines ==
  LET hashed(ls)   == [i \in DOMAIN ls |-> [cells |-> ls[i], width |-> 32]]
      byLength(ls) == [i \in DOMAIN ls |-> [cells |-> ls[i], width |-> DiagWidth(Len(ls[i]))]]
  IN  <<hashed(RowLines), hashed(ColumnLines), byLength(DiagLines), byLength(AntiDiagLines)>>

Unknowns(line) == Among(line.cells, Cells \ Assigned)

\* Lines with unknowns, fewest first (std::sort leaves open which of two that
\* have as many comes first; here the one that stood first).
BeginAxis ==
  /\ pc = "axes"
  /\ result.determined # kN /\ axis < 4
  /\ LET all == AxisLines[axis + 1]
         unknown == [i \in DOMAIN all |-> Len(Unknowns(all[i]))]
         open == Among(Positions(all), {i \in DOMAIN all : unknown[i] > 0})
     IN  lines' = SortedBy(open, unknown)
  /\ axis' = axis + 1
  /\ start' = [start EXCEPT !.axis = result.determined]
  /\ pc' = "axis"
  /\ UNCHANGED <<input, system, result, method, phase, iter, before, bound, round, search>>

\* dfsLine keeps a partial filling while no line's residual leaves its range.
Feasible(new) ==
  \A i \in DOMAIN intLines :
    intLines[i].cells \cap DOMAIN new # {} =>
      LET after == AssignLines(<<intLines[i]>>, new)[1] IN after.rho \in 0..after.u

Fillings(line) ==
  {new \in [ToSet(Unknowns(line)) -> {0, 1}] :
     /\ Feasible(new)
     /\ LineCrc(line.width, With(cellState, new), line.cells)
          = LineCrc(line.width, original, line.cells)}

\* f is tried before g: 0 before 1, the first cells first.
Precedes(cells, f, g) ==
  \E i \in DOMAIN cells :
    /\ cells[i] \in DOMAIN f \cap DOMAIN g /\ f[cells[i]] < g[cells[i]]
    /\ \A j \in 1..(i - 1) : f[cells[j]] = g[cells[j]]

FirstFilling(line) ==
  LET fillings == Fillings(line)
      cells == Unknowns(line)
  IN  {f \in fillings : \A g \in fillings \ {f} : Precedes(cells, f, g)}

\* The partial fillings tried until filling last is reached.
Nodes(cells, last) ==
  UNION {{f \in [ToSet(SubSeq(cells, 1, n)) -> {0, 1}] :
            /\ Feasible(Restrict(f, ToSet(SubSeq(cells, 1, n - 1))))
            /\ ~Precedes(cells, last, f)} : n \in DOMAIN cells}

\* The filling a search of the line ends with, in a set of none or one.
Found(line) ==
  IF Unknowns(line) = <<>> THEN {}
  ELSE {f \in FirstFilling(line) : Cardinality(Nodes(Unknowns(line), f)) <= MaxDfsNodes}

\* runAxisPhase, one line.  The cells are not substituted into the equations.
AxisLine ==
  /\ pc = "axis" /\ lines # <<>>
  /\ LET filling == Found(AxisLines[axis][Head(lines)])
     IN  \/ \E new \in filling :
              /\ AssignCells(new)
              /\ result' = [result EXCEPT !.determined = @ + Count(new)]
         \/ filling = {} /\ UNCHANGED <<cellState, intLines, result>>
  /\ lines' = Tail(lines)
  /\ UNCHANGED <<input, gf2, pc, method, phase, iter, before, bound, round, axis, start, search>>

EndAxis ==
  /\ pc = "axis" /\ lines = <<>>
  /\ IF result.determined > start.axis
     THEN axis' = 0 /\ pc' = NextRound
     ELSE axis' = axis /\ pc' = "axes"
  /\ UNCHANGED <<input, system, result, method, phase, iter, before, bound, round, lines, start, search>>

\* The fixpoint found the rest, or no axis gained a cell.
EndRound ==
  /\ pc = "axes"
  /\ result.determined = kN \/ axis = 4
  /\ axis' = 0
  /\ pc' = IF result.determined \in {kN, start.round} THEN "roundsOver" ELSE NextRound
  /\ UNCHANGED <<input, system, result, method, phase, iter, before, bound, round, lines, start, search>>

-------------------------------------------------------------------------------
(* Restarts.                                                               *)

\* addCrcLine for rows, columns and the shorter diagonals.
PruningLines ==
  ToSet(AxisLines[1]) \cup ToSet(AxisLines[2])
    \cup {line \in ToSet(AxisLines[3]) \cup ToSet(AxisLines[4]) : Len(line.cells) <= 8 * Unit}

PruningEquations(line) ==
  [line |-> ToSet(line.cells), eqns |-> ToSet(CrcEquations(line.width, original, line.cells))]

BeginRestarts ==
  /\ pc = "roundsOver"
  /\ IF result.determined < kN
     THEN /\ base' = [cells |-> cellState, lines |-> intLines, gf2 |-> gf2,
                      determined |-> result.determined]
          /\ crcLines' = {PruningEquations(line) : line \in PruningLines}
          /\ pc' = "shuffle"
     ELSE pc' = "final" /\ UNCHANGED <<base, crcLines>>
  /\ UNCHANGED <<input, system, result, method, phase, iter, before, bound, rounds,
                 restart, order, orderIdx, stack, decisions, sinceGE>>

Open(cells) == Among(RowMajor, {x \in Cells : cells[x] = Unassigned})

\* The shuffle of an empty order starts from its last index, order.size() - 1.
ShuffleNothing ==
  /\ pc = "shuffle" /\ Open(base.cells) = <<>>
  /\ pc' = "undefined"
  /\ UNCHANGED <<input, system, result, method, phase, iter, before, bound, rounds, search>>

BeginRestart ==
  /\ pc = "shuffle" /\ restart < NumRestarts /\ Open(base.cells) # <<>>
  /\ LET open == Open(base.cells)
         at == Shuffle(restart, Len(open))
     IN  order' = [i \in DOMAIN open |-> open[at[i]]]
  /\ restart' = restart + 1
  /\ cellState' = base.cells /\ intLines' = base.lines
  /\ orderIdx' = 1 /\ stack' = <<>> /\ decisions' = 0 /\ sinceGE' = 0
  /\ pc' = "search"
  /\ UNCHANGED <<input, gf2, result, method, phase, iter, before, bound, rounds, base, crcLines>>

\* A variant that leaves the equations as the last checkpoint left them.
RestartsOverStale ==
  /\ pc = "shuffle" /\ restart = NumRestarts
  /\ cellState' = base.cells /\ intLines' = base.lines
  /\ result' = [result EXCEPT !.determined = base.determined]
  /\ pc' = "final"
  /\ UNCHANGED <<input, gf2, method, phase, iter, before, bound, rounds, search>>

RestartsOver ==
  /\ pc = "shuffle" /\ restart = NumRestarts
  /\ cellState' = base.cells /\ intLines' = base.lines /\ gf2' = base.gf2
  /\ result' = [result EXCEPT !.determined = base.determined]
  /\ pc' = "final"
  /\ UNCHANGED <<input, method, phase, iter, before, bound, rounds, search>>

\* What a search step works on: [cells, lines, ok].
Here == [cells |-> cellState, lines |-> intLines, ok |-> TRUE]

AssignIn(s, new) ==
  [cells |-> With(s.cells, new), lines |-> AssignLines(s.lines, new), ok |-> s.ok]

\* propagateIB: passes over the lines until one forces nothing, then a last
\* look at every line.
ForceLine(s, i) ==
  LET l == s.lines[i]
      free == {x \in l.cells : s.cells[x] = Unassigned}
  IN  CASE s.ok /\ Violated(l) -> [s EXCEPT !.ok = FALSE]
        [] s.ok /\ Forces(l) -> AssignIn(s, [x \in free |-> IF l.rho = 0 THEN 0 ELSE 1])
        [] OTHER -> s

ForcePass(s) ==
  LET after[i \in 0..Len(s.lines)] == IF i = 0 THEN s ELSE ForceLine(after[i - 1], i)
  IN  after[Len(s.lines)]

\* (The choice among one only makes TLC evaluate each pass before the next.)
propagateIB(s) ==
  LET pass[k \in 0..(Len(Open(s.cells)) + 1)] ==
        IF k = 0 THEN s ELSE CHOOSE t \in {ForcePass(a) : a \in {pass[k - 1]}} : TRUE
      last == pass[Len(Open(s.cells)) + 1]
  IN  [cells |-> last.cells, lines |-> last.lines,
       ok |-> last.ok /\ \A i \in DOMAIN last.lines :
                           last.lines[i].rho \in 0..last.lines[i].u]

Complete(cells, S) == \A x \in S : cells[x] # Unassigned

\* A variant that takes an equation with one cell left for complete.
CrcConsistentEarly(cells, x) ==
  \A crc \in crcLines : x \in crc.line =>
    \A eq \in crc.eqns :
      (\E y \in eq.cells : Complete(cells, eq.cells \ {y})) => Satisfies(cells, eq)

\* checkCrcConsistency: no equation of a line through x is complete and wrong.
CrcConsistent(cells, x) ==
  \A crc \in crcLines : x \in crc.line =>
    \A eq \in crc.eqns : Complete(cells, eq.cells) => Satisfies(cells, eq)

verifyRowLH(cells, x) ==
  Complete(cells, ToSet(RowCells(x[1]))) =>
    LineCrc(32, cells, RowCells(x[1])) = LineCrc(32, original, RowCells(x[1]))

Try(s, x, v) == propagateIB(AssignIn(s, [y \in {x} |-> v]))

Allowed0(t, x) ==
  /\ t.ok /\ CrcConsistent(t.cells, x)
  /\ \A y \in Cells : t.cells[y] # Unassigned /\ base.cells[y] = Unassigned => CrcConsistent(t.cells, y)
  /\ verifyRowLH(t.cells, x)

Allowed1(t, x) == t.ok /\ CrcConsistent(t.cells, x) /\ verifyRowLH(t.cells, x)

Decision(x, v, s) == [cell |-> x, value |-> v, cells |-> s.cells, lines |-> s.lines]

Snapshot(d) == [cells |-> d.cells, lines |-> d.lines, ok |-> TRUE]

\* The decisions on 0 whose 1 is allowed.
Reversible == {k \in DOMAIN stack : stack[k].value = 0 /\
                 LET t == Try(Snapshot(stack[k]), stack[k].cell, 1)
                 IN  t.ok /\ CrcConsistent(t.cells, stack[k].cell)}

\* The deepest decision on 0 whose 1 is allowed takes it; what is above is gone.
Reverse1 ==
  \E k \in {Max(Reversible)} : \E t \in {Try(Snapshot(stack[k]), stack[k].cell, 1)} :
    /\ stack' = Append(SubSeq(stack, 1, k - 1), [stack[k] EXCEPT !.value = 1])
    /\ cellState' = t.cells /\ intLines' = t.lines
    /\ UNCHANGED pc

\* Nothing is left to reverse: the restart is over.
GiveUp ==
  /\ LET s == IF stack = <<>> THEN Here ELSE Snapshot(stack[1])
     IN  cellState' = s.cells /\ intLines' = s.lines
  /\ stack' = <<>>
  /\ pc' = "shuffle"

Backtrack == IF Reversible # {} THEN Reverse1 ELSE GiveUp

Searching == pc = "search" /\ decisions < MaxDecisions

OutOfDecisions ==
  /\ pc = "search" /\ decisions = MaxDecisions
  /\ pc' = "shuffle"
  /\ UNCHANGED <<input, system, result, method, phase, iter, before, bound, rounds, search>>

Solved ==
  /\ Searching /\ cellState = original
  /\ result' = [result EXCEPT !.determined = kN]
  /\ pc' = "final"
  /\ UNCHANGED <<input, system, method, phase, iter, before, bound, rounds, search>>

WrongBlock ==
  /\ Searching /\ Assigned = Cells /\ cellState # original
  /\ Backtrack
  /\ sinceGE' = 0
  /\ UNCHANGED <<input, gf2, result, method, phase, iter, before, bound, rounds,
                 base, crcLines, restart, order, orderIdx, decisions>>

\* gaussElimCheckpoint: the baseline's equations with the cells of now.
CheckpointRows == Substitute(base.gf2, Known)
CheckpointDue  == sinceGE >= GEInterval
CheckpointGain == gaussElim(CheckpointRows)

Checkpoint ==
  /\ Searching /\ Assigned # Cells /\ CheckpointDue
  /\ gf2' = CheckpointRows
  /\ \E new \in {CheckpointGain} :
       /\ new # NoneFound
       /\ \E s \in {propagateIB(AssignIn(Here, new))} : cellState' = s.cells /\ intLines' = s.lines
  /\ sinceGE' = 0
  /\ UNCHANGED <<input, result, pc, method, phase, iter, before, bound, rounds,
                 base, crcLines, restart, order, orderIdx, stack, decisions>>

\* orderIdx only moves on, within a restart.
Undecided == {i \in orderIdx..Len(order) : cellState[order[i]] = Unassigned}

Deciding ==
  /\ Searching /\ Assigned # Cells
  /\ IF CheckpointDue THEN CheckpointGain = NoneFound /\ gf2' = CheckpointRows ELSE UNCHANGED gf2

Decide ==
  /\ Deciding /\ Undecided # {}
  /\ LET x == order[Min(Undecided)]
     IN  \E t0 \in {Try(Here, x, 0)}, t1 \in {Try(Here, x, 1)} :
           IF Allowed0(t0, x) \/ Allowed1(t1, x)
           THEN LET v == IF Allowed0(t0, x) THEN 0 ELSE 1
                    t == IF v = 0 THEN t0 ELSE t1
                IN  /\ stack' = Append(stack, Decision(x, v, Here))
                    /\ cellState' = t.cells /\ intLines' = t.lines
                    /\ UNCHANGED pc
           ELSE Backtrack
  /\ orderIdx' = Min(Undecided)
  /\ decisions' = decisions + 1
  /\ sinceGE' = IF CheckpointDue THEN 1 ELSE sinceGE + 1
  /\ UNCHANGED <<input, result, method, phase, iter, before, bound, rounds, base, crcLines, restart, order>>

OrderExhausted ==
  /\ Deciding /\ Undecided = {}
  /\ pc' = "shuffle"
  /\ UNCHANGED <<input, cellState, intLines, result, method, phase, iter, before, bound, rounds, search>>

Final ==
  /\ pc = "final"
  /\ result' = [result EXCEPT !.correct = \A x \in Assigned : cellState[x] = original[x],
                              !.bhVerified = cellState = original]
  /\ pc' = "done"
  /\ UNCHANGED <<input, system, method, phase, iter, before, bound, rounds, search>>

Restarts ==
  \/ BeginRestarts \/ ShuffleNothing \/ BeginRestart \/ RestartsOver \/ OutOfDecisions
  \/ Solved \/ WrongBlock \/ Checkpoint \/ Decide \/ OrderExhausted

HybridNext ==
  \/ Next /\ UNCHANGED <<rounds, search>>
  \/ BeginRound \/ BeginAxis \/ AxisLine \/ EndAxis \/ EndRound
  \/ Restarts \/ Final

-------------------------------------------------------------------------------
(* Properties.                                                             *)

RightIn(cells, S) == \A x \in S : cells[x] = original[x]

BaseRight == RightIn(base.cells, {x \in Cells : base.cells[x] # Unassigned})

\* The snapshots nest: each decision was taken on a free cell of what it saved,
\* what it saved extends what was saved below it with that decision on its value,
\* and the cells of now extend all of it (runRestart's restores).
DecisionsNested ==
  pc = "search" =>
    LET seen(k) == IF k <= Len(stack) THEN stack[k].cells ELSE cellState
        extends(c, d) == \A x \in Cells : d[x] # Unassigned => c[x] = d[x]
    IN  /\ extends(seen(1), base.cells)
        /\ \A k \in DOMAIN stack :
             /\ stack[k].cells[stack[k].cell] = Unassigned
             /\ seen(k + 1)[stack[k].cell] = stack[k].value
             /\ extends(seen(k + 1), stack[k].cells)

\* A decision on 1 means that 0 was refuted: over a right baseline and right
\* decisions below it, the cell is 1 (propagateIB, checkCrcConsistency, the
\* checkpoint and the reversals never cut the block off).
RefutationsRight ==
  pc = "search" /\ BaseRight =>
    \A k \in DOMAIN stack :
      stack[k].value = 1 /\ (\A j \in 1..(k - 1) : stack[j].value = original[stack[j].cell])
        => original[stack[k].cell] = 1

\* When no restart finds the block, cells, lines, equations and count are the
\* baseline's again; otherwise all cells are the block's.
BaselineOrBlock ==
  pc = "final" /\ restart > 0 =>
    \/ cellState = original /\ result.determined = kN
    \/ /\ cellState = base.cells /\ intLines = base.lines /\ gf2 = base.gf2
       /\ result.determined = base.determined

\* Restarts take back exactly what they tried.
RestartsSound == DecisionsNested /\ BaselineOrBlock

\* "Run GaussElim + IntBound + CrossDeduce to convergence on current state": from
\* cells that are all right, elimination finds right cells.
EliminationRight ==
  [][pc = "gauss" /\ RightIn(cellState, Assigned) => RightIn(cellState', Assigned')]_hybridVars

\* "If both values fail, backtrack to the previous cell decision": over a right
\* baseline, a restart that has decisions left has tried everything, so it has
\* found the block.
RestartExhaustive ==
  pc = "shuffle" /\ restart > 0 /\ BaseRight => decisions = MaxDecisions

\* "Number of free (undetermined) cells." (Result.free, kept as kN less the
\* determined cells.)
FreeExact ==
  pc = "done" \/ (pc = "shuffle" /\ restart = 0) =>
    kN - result.determined = Cardinality(Cells \ Assigned)
===============================================================================
