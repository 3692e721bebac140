--------------------------- MODULE FailedLiteralProber ---------------------------
(***************************************************************************)
(* decompress/Solvers/FailedLiteralProber by itself: probeToFixpoint or    *)
(* probeAlternateDeep.  The search of RowDecomposedController uses the     *)
(* probes they are built from; these two are called by the unit tests, on  *)
(* a store that was just made.                                             *)
(*                                                                         *)
(* A probe in progress is the top frame; probeAlternateDeep's recursion is *)
(* the stack of frames.                                                    *)
(***************************************************************************)
EXTENDS RowDecomposedController

CONSTANTS
  Probed,      \* the blocks that are probed
  DeepCells,   \* the cells probeAlternateDeep is asked for
  kMaxDepth    \* the depths it is asked for (kMaxK, 4)

ASSUME ProberAssumption == kMaxDepth \in Nat \ {0} /\ DeepCells \subseteq Cells

BeforeAll == <<0, -1>>

\* last: the cell this pass looked at last.
ProberInit ==
  /\ solver = "prober"
  /\ \E b \in Probed : <<original, target, hash, lh>> = <<b.original, b.target, b.hash, b.lh>>
  /\ sidecar = NoSidecar
  /\ pc \in {"pass", "deep"}
  /\ call = <<>>
  /\ locals = [last |-> BeforeAll, progress |-> FALSE, verdict |-> "none"]

-------------------------------------------------------------------------------
(* probeToFixpoint.                                                        *)

Left == {x \in Cells : cells[x] = Unassigned /\ Before(locals.last, x)}

\* The next unassigned cell of this pass: tryProbeValue with 0, then with 1.
ProbeNext ==
  /\ pc = "pass" /\ Left # {}
  /\ LET x == FirstOf(Left)
     IN  /\ frames' = <<[cell |-> x, token |-> Len(undoStack)]>>
         /\ AssignAndRecord(x, 0)
         /\ locals' = [locals EXCEPT !.last = x]
  /\ call' = [value |-> 0, zeroOk |-> FALSE, ok |-> FALSE, before |-> cells]
  /\ pc' = "probe"
  /\ UNCHANGED <<engine, input, answers>>

ProbedBoth == pc = "unprobe" /\ Undone /\ call.value = 1

\* Neither value: the fixpoint ends with a contradiction.
Contradictory ==
  /\ ProbedBoth /\ ~call.zeroOk /\ ~call.ok
  /\ locals' = [locals EXCEPT !.verdict = "contradiction"]
  /\ frames' = <<>>
  /\ pc' = "probingEnded"
  /\ UNCHANGED <<store, engine, input, brancher, call, answers>>

BothFeasible ==
  /\ ProbedBoth /\ call.zeroOk /\ call.ok
  /\ frames' = <<>>
  /\ pc' = "pass"
  /\ UNCHANGED <<store, engine, input, brancher, call, locals, answers>>

AssignFound ==
  /\ ProbedBoth /\ call.zeroOk # call.ok
  /\ AssignAndRecord(Top.cell, IF call.zeroOk THEN 0 ELSE 1)
  /\ pc' = "forcing"
  /\ UNCHANGED <<engine, input, frames, call, locals, answers>>

ForcePropagate ==
  /\ pc = "forcing"
  /\ TryPropagateCell(Top.cell)
  /\ pc' = "forced"
  /\ UNCHANGED <<store, input, brancher, frames, call, locals, answers>>

ForcedInfeasible ==
  /\ pc = "forced" /\ prop = "infeasible"
  /\ locals' = [locals EXCEPT !.verdict = "contradiction"]
  /\ frames' = <<>>
  /\ pc' = "probingEnded"
  /\ UNCHANGED <<store, engine, input, brancher, call, answers>>

\* The rows completed here are not hashed.
ForcedFeasible ==
  /\ pc = "forced" /\ prop = "feasible"
  /\ RecordForced
  /\ locals' = [locals EXCEPT !.progress = TRUE]
  /\ frames' = <<>>
  /\ pc' = "pass"
  /\ UNCHANGED <<store, engine, input, minUnassignedRow, call, answers>>

PassAgain ==
  /\ pc = "pass" /\ Left = {} /\ locals.progress
  /\ locals' = [locals EXCEPT !.last = BeforeAll, !.progress = FALSE]
  /\ UNCHANGED <<store, engine, input, brancher, pc, frames, call, answers>>

\* A pass that forced nothing ends the fixpoint.
Fixpoint ==
  /\ pc = "pass" /\ Left = {} /\ ~locals.progress
  /\ locals' = [locals EXCEPT !.verdict = "fixpoint"]
  /\ pc' = "probingEnded"
  /\ UNCHANGED <<store, engine, input, brancher, frames, call, answers>>

-------------------------------------------------------------------------------
(* probeAlternateDeep.                                                     *)

DeepFrame(x, v, depth) ==
  [cell |-> x, value |-> v, depth |-> depth, token |-> Len(undoStack), zeroOk |-> FALSE]

\* The call, with either value and any depth.
ProbeDeep ==
  /\ pc = "deep"
  /\ \E x \in DeepCells, v \in {0, 1}, depth \in 1..kMaxDepth :
       /\ frames' = <<DeepFrame(x, v, depth)>>
       /\ AssignAndRecord(x, v)
  /\ call' = [feasible |-> FALSE]
  /\ pc' = "deepProbe"
  /\ UNCHANGED <<engine, input, locals, answers>>

DeepPropagate ==
  /\ pc = "deepProbe"
  /\ TryPropagateCell(Top.cell)
  /\ pc' = "deepProbed"
  /\ UNCHANGED <<store, input, brancher, frames, call, locals, answers>>

DeepInfeasible ==
  /\ pc = "deepProbed" /\ prop = "infeasible"
  /\ call' = [feasible |-> FALSE]
  /\ pc' = "deepReturn"
  /\ UNCHANGED <<store, engine, input, brancher, frames, locals, answers>>

\* A row that is wrong, the last level, or no cell left to look at.
DeepDecided ==
  /\ pc = "deepProbed" /\ prop = "feasible"
  /\ RecordForced
  /\ \/ /\ \E r \in CompletedRows : ~verifyRow(r)
        /\ call' = [feasible |-> FALSE]
     \/ /\ \A r \in CompletedRows : verifyRow(r)
        /\ Top.depth <= 1 \/ Open = {}
        /\ call' = [feasible |-> TRUE]
  /\ pc' = "deepReturn"
  /\ UNCHANGED <<store, engine, input, minUnassignedRow, frames, locals, answers>>

DeepDescend ==
  /\ pc = "deepProbed" /\ prop = "feasible"
  /\ RecordForced
  /\ \A r \in CompletedRows : verifyRow(r)
  /\ Top.depth > 1
  /\ \E x \in Open : NextCell(x) /\ call' = [feasible |-> FALSE, next |-> x]
  /\ pc' = "deepNext"
  /\ UNCHANGED <<store, engine, input, frames, locals, answers>>

\* The recursive call with 0.
DeepZero ==
  /\ pc = "deepNext"
  /\ frames' = Append(frames, DeepFrame(call.next, 0, Top.depth - 1))
  /\ AssignAndRecord(call.next, 0)
  /\ pc' = "deepProbe"
  /\ UNCHANGED <<engine, input, call, locals, answers>>

DeepUndo ==
  /\ pc = "deepReturn" /\ ~Undone
  /\ UndoLast
  /\ UNCHANGED <<engine, input, control>>

\* After 0 the recursive call with 1, whatever 0 gave.
DeepOne ==
  /\ pc = "deepReturn" /\ Undone
  /\ Len(frames) > 1 /\ Top.value = 0
  /\ frames' = [frames EXCEPT ![Len(frames)].value = 1, ![Len(frames)].zeroOk = call.feasible]
  /\ AssignAndRecord(Top.cell, 1)
  /\ pc' = "deepProbe"
  /\ UNCHANGED <<engine, input, call, locals, answers>>

DeepBoth ==
  /\ pc = "deepReturn" /\ Undone
  /\ Len(frames) > 1 /\ Top.value = 1
  /\ frames' = SubSeq(frames, 1, Len(frames) - 1)
  /\ call' = [feasible |-> Top.zeroOk \/ call.feasible]
  /\ UNCHANGED <<store, engine, input, brancher, pc, locals, answers>>

DeepReturned ==
  /\ pc = "deepReturn" /\ Undone
  /\ Len(frames) = 1
  /\ pc' = "probingEnded"
  /\ UNCHANGED <<store, engine, input, brancher, frames, call, locals, answers>>

ProberNext ==
  \/ ProbeNext \/ Contradictory \/ BothFeasible \/ AssignFound \/ ForcePropagate
  \/ ForcedInfeasible \/ ForcedFeasible \/ PassAgain \/ Fixpoint
  \/ Undo \/ ProbeOne \/ ProbePropagate \/ ProbeContradiction \/ ProbeJudge
  \/ ProbeDeep \/ DeepPropagate \/ DeepInfeasible \/ DeepDecided \/ DeepDescend
  \/ DeepZero \/ DeepUndo \/ DeepOne \/ DeepBoth \/ DeepReturned \/ Propagating

-------------------------------------------------------------------------------
(* Properties.                                                             *)

ProberTypeOK ==
  /\ pc \in {"pass", "probe", "probed", "unprobe", "forcing", "forced", "deep", "deepProbe",
             "deepProbed", "deepNext", "deepReturn", "probingEnded"}
  /\ locals.verdict \in {"none", "contradiction", "fixpoint"}
  /\ locals.progress \in BOOLEAN
  /\ Len(frames) <= kMaxDepth

\* Cells no undo will ever take back, between two probes.
LeftBehind == {x \in Cells : cells[x] # Unassigned} \ Range(undoStack)

\* The recursion ended and the store is what it was, but for what failing
\* propagations left behind; and the hint for the next cell, which the recursion
\* moved forward, is back.
DeepUndone ==
  pc = "probingEnded" /\ frames # <<>> => undoStack = <<>> /\ HintSound

\* While nothing is left behind, in a genuine block: what the fixpoint forced are
\* the original's values, it finds no contradiction, and no probe of the original's
\* value fails.
ProbesSound ==
  pc = "probingEnded" /\ Genuine /\ LeftBehind = {} =>
    /\ locals.verdict # "contradiction"
    /\ \A x \in Cells : cells[x] \in {original[x], Unassigned}
    /\ frames # <<>> /\ Top.value = original[Top.cell] => call.feasible
================================================================================
