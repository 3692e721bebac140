-------------------------- MODULE CombinatorCommands --------------------------
(***************************************************************************)
(* The two programs that run CombinatorSolver.  cmd/combinatorSolver: one  *)
(* block under one of its configurations.  cmd/overlapSolver: the blocks   *)
(* of one file solved left to right by solveCascade, each given the cells  *)
(* that the block before it shares with it, when that one was solved.      *)
(***************************************************************************)
EXTENDS HybridSolver

CONSTANTS
  Files,          \* overlapSolver's files, as sequences of bits
  Overlaps,       \* the numbers of columns handed on
  BlockCount,     \* -blocks
  OverlapConfig   \* the configuration of every block (B.60r)

ASSUME OverlapAssumption == BlockCount \in Nat \ {0} /\ Overlaps \subseteq 0..(kS - 1)
ASSUME FilesAssumption == Files \subseteq Seq({0, 1})
ASSUME OverlapConfigAssumption ==
  /\ IsConfig(OverlapConfig) /\ OverlapConfig.cascade /\ ~OverlapConfig.hybrid
  /\ OverlapConfig.yltpSeeds = <<>> /\ OverlapConfig.rltpCentres = <<>>

VARIABLES
  data, overlap, block,  \* the file (<<>>: combinatorSolver), the block being solved
  prevSolution,          \* the cells of the block before, <<>> when it was not solved
  totalSolved

files == <<data, overlap>>
blocks == <<block, prevSolution, totalSolved>>
commandVars == <<hybridVars, files, blocks>>

\* Block b starts at bit b * (kS - n) * kS of the file; what the file lacks is 0.
loadOverlappingBlock(bits, b, n) ==
  LET bit(x) == b * (kS - n) * kS + Flat(x) + 1
  IN  [x \in Cells |-> IF bit(x) <= Len(bits) THEN bits[bit(x)] ELSE 0]

\* The rightmost n columns of the block before, as the leftmost n of this one.
Donated(previous, n) ==
  LET from(x) == <<x[1], kS - n + x[2]>>
  IN  IF previous = <<>> THEN <<>>
      ELSE [x \in {y \in Cells : y[2] < n} |-> previous[from(x)]]

\* A new solver for a block.
StartBlock(m, cells) ==
  /\ original' = m /\ donated' = cells
  /\ gf2' = buildSystem(m, config)
  /\ intLines' = buildIntLines(m, config)
  /\ cellState' = [x \in Cells |-> Unassigned]
  /\ result' = NoResult
  /\ pc' = "ready" /\ phase' = 0 /\ iter' = 0
  /\ before' = [iteration |-> 0, phase |-> 0]
  /\ queue' = <<>> /\ found' = NoneFound
  /\ UNCHANGED <<config, method>>

\* combinatorSolver: a block and a configuration.
CombinatorInit ==
  /\ Init
  /\ data = <<>> /\ overlap = 0

OverlapInit ==
  /\ data \in Files /\ overlap \in Overlaps
  /\ config = OverlapConfig /\ donated = <<>>
  /\ original = loadOverlappingBlock(data, 0, overlap)
  /\ SolverInit

CommandInit ==
  /\ CombinatorInit \/ OverlapInit
  /\ HybridSearchInit
  /\ block = 0 /\ prevSolution = <<>> /\ totalSolved = 0

LastBlock == IF data = <<>> THEN 0 ELSE BlockCount - 1

Solve == pc # "done" /\ HybridNext /\ UNCHANGED <<files, blocks>>

\* What a solved block hands on are the file's own bits.
Solution == IF result.bhVerified THEN original ELSE <<>>

\* A variant that goes on with the block it has just solved.
NextBlockAgain ==
  /\ pc = "done" /\ block < LastBlock
  /\ prevSolution' = Solution
  /\ StartBlock(loadOverlappingBlock(data, block, overlap), Donated(Solution, overlap))
  /\ UNCHANGED <<files, block, totalSolved, rounds, search>>

NextBlock ==
  /\ pc = "done" /\ block < LastBlock
  /\ block' = block + 1
  /\ prevSolution' = Solution
  /\ totalSolved' = totalSolved + (IF result.bhVerified THEN 1 ELSE 0)
  /\ StartBlock(loadOverlappingBlock(data, block + 1, overlap), Donated(Solution, overlap))
  /\ UNCHANGED <<files, rounds, search>>

\* analyzeLines, which combinatorSolver prints last: of each axis the lines that
\* are complete and, of columns and short diagonals, those with the original's CRC.
CompleteAmong(ls) == {i \in DOMAIN ls : ToSet(ls[i]) \subseteq Assigned}
ShortAmong(ls) == {i \in DOMAIN ls : Len(ls[i]) <= 8 * Unit}

VerifiedAmong(w, ls) ==
  {i \in CompleteAmong(ls) : LineCrc(w, cellState, ls[i]) = LineCrc(w, original, ls[i])}

analyzeLines ==
  [rowsComplete |-> Cardinality(CompleteAmong(RowLines)),
   colsComplete |-> Cardinality(CompleteAmong(ColumnLines)),
   vhVerified   |-> Cardinality(VerifiedAmong(32, ColumnLines)),
   diagsComplete     |-> Cardinality(CompleteAmong(DiagLines)),
   dhVerified        |-> Cardinality(VerifiedAmong(16, DiagLines) \cap ShortAmong(DiagLines)),
   antiDiagsComplete |-> Cardinality(CompleteAmong(AntiDiagLines)),
   xhVerified        |-> Cardinality(VerifiedAmong(16, AntiDiagLines) \cap ShortAmong(AntiDiagLines))]

Ended == pc = "undefined" \/ (pc = "done" /\ block = LastBlock)

Exit == Ended /\ UNCHANGED commandVars

CommandNext == Solve \/ NextBlock \/ Exit

\* A program keeps running: WF_vars(CommandNext), for a CommandNext that is
\* enabled and changes the state until the program has ended.
Fairness == []<>Ended \/ []<><<TRUE>>_commandVars

Spec == CommandInit /\ [][CommandNext]_commandVars /\ Fairness

-------------------------------------------------------------------------------
(* Properties.                                                             *)

\* "donates the rightmost n columns to block k+1's leftmost n columns as
\* pre-assigned cells": what is handed on are the next block's own cells.
DonationRight == \A x \in DOMAIN donated : donated[x] = original[x]

\* Cells handed on wrongly are never hidden: the block does not pass for solved,
\* whatever the solver deduces from them, and hands nothing on itself.
WrongDonationShows == pc = "done" /\ ~DonationRight => ~result.bhVerified

\* The report of the lines agrees: while every known cell is right all that is
\* complete verifies, and a block that passes for solved has every line complete
\* and verified.
ReportAgrees ==
  pc = "done" =>
    LET report == analyzeLines
        short  == Cardinality(ShortAmong(DiagLines))
    IN  /\ KnownRight =>
             /\ report.vhVerified = report.colsComplete
             /\ report.dhVerified \in (report.diagsComplete + short - kDiagCount)..report.diagsComplete
             /\ report.xhVerified \in (report.antiDiagsComplete + short - kDiagCount)..report.antiDiagsComplete
        /\ result.bhVerified =>
             /\ report.rowsComplete = kS /\ report.vhVerified = kS
             /\ report.dhVerified = short /\ report.xhVerified = short

\* What a program says of its blocks is true.
AnswerHonest == WrongDonationShows /\ ReportAgrees

\* "No DFS. No search. Purely algebraic monotone reduction.": but for the
\* searches of solveHybrid, and from right cells, cells are only learnt, with
\* the original's values, and the answer is right.
Answer ==
  CASE pc # "done" -> "none"
    [] pc = "done" /\ result.bhVerified -> "complete"
    [] OTHER -> "partial"

Algebraic == ~config.hybrid /\ DonationRight

Promise == INSTANCE Deduction WITH
  truth  <- original,
  known  <- IF Algebraic THEN Known ELSE <<>>,
  answer <- IF Algebraic THEN Answer ELSE "none"

MonotoneReduction == Promise!Spec

\* Every program ends.
Terminates == <>Ended
===============================================================================
