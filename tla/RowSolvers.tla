------------------------------- MODULE RowSolvers -------------------------------
(***************************************************************************)
(* The two row solvers on the same blocks: RowDecomposedController, to     *)
(* which decompress gives whatever a file holds, and the rowSolver command,*)
(* which reads its block from the original file and so never sees a        *)
(* damaged one.  FailedLiteralProber is run by itself on some of them.     *)
(***************************************************************************)
EXTENDS FailedLiteralProber, RowSerialSolver

Undamaged == Genuine /\ sidecar = NoSidecar

Init ==
  /\ InputInit
  /\ \/ DecomposedInit
     \/ Undamaged /\ SerialInit
     \/ ProberInit

Ended == pc \in {"ended", "serialEnded", "probingEnded"}
Exit  == Ended /\ UNCHANGED vars

Next ==
  \/ solver = "decomposed" /\ DecomposedNext
  \/ solver = "serial" /\ SerialNext
  \/ solver = "prober" /\ ProberNext
  \/ Exit

\* A program keeps running until it ends: WF_vars(Next), for a Next that is enabled
\* and changes the state until then.
Fairness == []<>Ended \/ []<><<TRUE>>_vars

Spec == Init /\ [][Next]_vars /\ Fairness

-------------------------------------------------------------------------------
(* Properties.                                                             *)

RowTypeOK ==
  /\ StoreTypeOK /\ EngineTypeOK /\ BranchingTypeOK
  /\ answers \in Seq(SUBSET Cells)
  /\ solver \in {"decomposed", "serial", "prober"}
  /\ solver = "decomposed" => DecomposedTypeOK
  /\ solver = "serial" => SerialTypeOK
  /\ solver = "prober" => ProberTypeOK

\* Backtracking is exact but for the cells a failing propagation leaves behind:
\* the counters say what the cells say, the undo stack names each assigned cell
\* once, the frames and the snapshots stand in the order they will be undone in,
\* probes take back what they did and the search never reaches the depth at which
\* it would turn round.
BacktrackingSound ==
  /\ StatsExact
  /\ solver = "decomposed" => UndoStackSound /\ FramesSound /\ SidecarsSound /\ ProbesUndone /\ DepthBounded
  /\ solver = "serial" => SnapshotsNested
  /\ solver = "prober" => UndoStackSound /\ ProbesUndone /\ DeepUndone

\* Whatever the leaks, guesses and overwritten vectors did, a matrix that is given
\* out for the sums of a matrix has these sums, and none is given out twice.  A
\* matrix given out for sums that are no matrix's has the sum of every line none
\* of whose cells has leaked.
AnswersRight ==
  /\ \A m \in Range(answers) :
       /\ GenuineSums => HasSums(m)
       /\ pc \in {"loop", "ended"} =>
            \A l \in Lines : CellsOn[l] \cap Leaked = {} => Cardinality(CellsOn[l] \cap m) = target[l]
  /\ \A i, j \in DOMAIN answers : i # j => answers[i] # answers[j]

\* The original is lost only for a known reason.  RowDecomposedController finds it
\* unless cells leaked or it completed a row in one of several ways.  RowSerialSolver
\* gives up only if somewhere on the path to it no row was tractable.  Probing
\* rules the original out only if cells leaked.
NothingLost ==
  /\ pc = "ended" /\ Genuine /\ SidecarFits /\ Leaked = {} /\ ~locals.guessed => Bits(original) \in Range(answers)
  /\ pc = "serialEnded" /\ ~locals.solved =>
       \E i \in DOMAIN locals.stuckAt :
         \A x \in Cells : locals.stuckAt[i][x] \in {original[x], Unassigned}
  /\ solver = "prober" => ProbesSound

\* RowDecomposedController.h: "if its SHA-256 hash mismatches the lateral hash,
\* the entire subtree is abandoned."
MismatchAbandoned ==
  solver = "decomposed" => \A m \in Range(answers) : HasHashes(m)

\* Both searches end, on every block.
Terminates == <>Ended
================================================================================
