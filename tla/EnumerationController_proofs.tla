---------------------- MODULE EnumerationController_proofs ----------------------
(***************************************************************************)
(* The search of EnumerationController, for every matrix dimension, every  *)
(* pair of partition tables, every digest and every set of blocks: it uses *)
(* the store as the store asks, its counters stay exact, backtracking      *)
(* restores what it left, propagation never contradicts the compressed     *)
(* matrix, and the candidates come in strictly increasing lexicographic    *)
(* order, whatever a contradiction leaves behind.                          *)
(*                                                                         *)
(* Then what it reaches and what it yields: a search that leaks nothing    *)
(* finds the compressed matrix; the queue of dirty lines holds each queued *)
(* line exactly once; a propagation that answers TRUE has left no line     *)
(* that still forces a cell; a candidate of a search that has leaked       *)
(* nothing satisfies every line sum and every row digest; every variable   *)
(* keeps its type; and with ample room the queue is never overrun.         *)
(***************************************************************************)
EXTENDS EnumerationController, Propagation_proofs

\* One entry of the DFS stack, and the types the proofs need.
Frame == [cell : Cells, nextValue : 0..2, token : Nat]

Typing ==
  /\ undoStack \in Seq(Cells) /\ minUnassignedRow \in Index
  /\ forced \in Seq(Cells) /\ forcing.value \in CellState
  /\ frames \in Seq(Frame)
  /\ pc \in {"start", "initial", "loop", "try", "result", "cleanup", "ended"}
  /\ submitted \in Seq(SUBSET Cells)

\* Propagation runs only where the search waits for it.
PropagationPlaces == prop = "run" => pc \in {"initial", "result"}

\* Before the loop nothing was branched on; inside it a value was tried.
Stages ==
  /\ pc \in {"start", "initial"} => frames = <<>> /\ submitted = <<>>
  /\ pc \in {"try", "result", "cleanup"} => frames # <<>>

\* Each step keeps the stages of the search apart.
LEMMA StageStep == Stages /\ PropagationPlaces /\ [Next]_vars => (Stages /\ PropagationPlaces)'
<1> SUFFICES ASSUME Stages, PropagationPlaces, [Next]_vars PROVE (Stages /\ PropagationPlaces)'
  OBVIOUS
<1> USE DEF Stages, PropagationPlaces, vars, engine, input, brancher, output
<1>1. CASE Start             BY <1>1 DEF Start
<1>2. CASE InitialInfeasible BY <1>2 DEF InitialInfeasible
<1>3. CASE InitialSolved     BY <1>3 DEF InitialSolved
<1>4. CASE InitialBranch     BY <1>4 DEF InitialBranch
<1>5. CASE Undo              BY <1>5 DEF Undo
<1>6. CASE Pop               BY <1>6 DEF Pop
<1>7. CASE Try               BY <1>7 DEF Try
<1>8. CASE TryPropagate      BY <1>8 DEF TryPropagate
<1>9. CASE Contradiction     BY <1>9 DEF Contradiction
<1>10. CASE HashMismatch     BY <1>10 DEF HashMismatch
<1>11. CASE Descend          BY <1>11 DEF Descend
<1>12. CASE Submit           BY <1>12 DEF Submit
<1>13. CASE Cleanup          BY <1>13 DEF Cleanup
<1>14. CASE Exhausted        BY <1>14 DEF Exhausted
<1>15. CASE Propagating
  BY <1>15 DEF Propagating, EngineStep, PopViolated, PopLine, ForceCell, Quiesce
<1>16. CASE UNCHANGED vars   BY <1>16
<1>17. QED
  BY <1>1, <1>2, <1>3, <1>4, <1>5, <1>6, <1>7, <1>8, <1>9, <1>10, <1>11, <1>12,
     <1>13, <1>14, <1>15, <1>16 DEF Next

\* The types are inductive.
LEMMA TypingStep == Typing /\ StoreTypeOK /\ Stages /\ [Next]_vars => Typing'
<1> SUFFICES ASSUME Typing, StoreTypeOK, Stages, [Next]_vars PROVE Typing'
  OBVIOUS
<1> USE DEF Typing, vars, engine, input, brancher, output
<1>1. CASE Start             BY <1>1 DEF Start, Propagate, NotForcing, CellState
<1>2. CASE InitialInfeasible BY <1>2 DEF InitialInfeasible
<1>3. CASE InitialSolved     BY <1>3 DEF InitialSolved, RecordForced
<1>4. CASE InitialBranch
  <2>1. PICK x \in Open : NextCell(x) /\ Push(x)
    BY <1>4 DEF InitialBranch
  <2>2. x \in Cells /\ x[1] \in Index
    BY CellParts DEF Open
  <2>3. [cell |-> x, nextValue |-> 0, token |-> 0] \in Frame
    BY <2>2 DEF Frame
  <2>4. frames' \in Seq(Frame)
    BY <2>1, <2>3 DEF Push
  <2>5. undoStack' \in Seq(Cells)
    BY <1>4 DEF InitialBranch, RecordForced
  <2>6. QED BY <1>4, <2>1, <2>2, <2>4, <2>5 DEF InitialBranch, NextCell
<1>5. CASE Undo
  <2>0. Top \in Frame
    BY <1>5 DEF Undo, ToUndo, Top
  <2>1. Len(undoStack) > 0
    BY <1>5, <2>0 DEF Undo, ToUndo, Frame
  <2>2. undoStack[Len(undoStack)] \in Cells
    BY <2>1
  <2>3. undoStack[Len(undoStack)][1] \in Index
    BY <2>2, CellParts
  <2>4. minUnassignedRow' \in Index
    BY <1>5, <2>3 DEF Undo, UndoLast
  <2>5. undoStack' \in Seq(Cells)
    BY <1>5, <2>1 DEF Undo, UndoLast
  <2>6. QED BY <1>5, <2>4, <2>5 DEF Undo
<1>6. CASE Pop
  <2>1. Len(frames) > 0
    BY <1>6 DEF Pop
  <2>2. frames' \in Seq(Frame)
    BY <1>6, <2>1 DEF Pop
  <2>3. QED BY <1>6, <2>2 DEF Pop
<1>7. CASE Try
  <2>1. Len(frames) \in 1..Len(frames) /\ Top \in Frame /\ Top.nextValue < 2
    BY <1>7 DEF Try, Top
  <2>2. [cell |-> Top.cell, nextValue |-> Top.nextValue + 1, token |-> Len(undoStack)] \in Frame
    BY <2>1 DEF Frame
  <2>3. frames' \in Seq(Frame)
    BY <1>7, <2>1, <2>2 DEF Try, Top
  <2>4. undoStack' \in Seq(Cells)
    BY <1>7, <2>1 DEF Try, Frame
  <2>5. QED BY <1>7, <2>3, <2>4 DEF Try
<1>8. CASE TryPropagate
  <2>1. /\ forced' = <<>>
        /\ forcing' = NotForcing \/ forcing' = forcing
    BY <1>8 DEF TryPropagate, TryPropagateCell, Propagate
  <2>2. forcing'.value \in CellState
    BY <2>1 DEF NotForcing, CellState
  <2>3. QED BY <1>8, <2>1, <2>2 DEF TryPropagate
<1>9. CASE Contradiction     BY <1>9 DEF Contradiction
<1>10. CASE HashMismatch     BY <1>10 DEF HashMismatch, RecordForced
<1>11. CASE Descend
  <2>1. PICK x \in Open : NextCell(x) /\ Push(x)
    BY <1>11 DEF Descend
  <2>2. x \in Cells /\ x[1] \in Index
    BY CellParts DEF Open
  <2>3. [cell |-> x, nextValue |-> 0, token |-> 0] \in Frame
    BY <2>2 DEF Frame
  <2>4. frames' \in Seq(Frame)
    BY <2>1, <2>3 DEF Push
  <2>5. undoStack' \in Seq(Cells)
    BY <1>11 DEF Descend, RecordForced
  <2>6. QED BY <1>11, <2>1, <2>2, <2>4, <2>5 DEF Descend, NextCell
<1>12. CASE Submit
  <2>1. submitted' \in Seq(SUBSET Cells)
    BY <1>12 DEF Submit, StoreTypeOK
  <2>2. undoStack' \in Seq(Cells)
    BY <1>12 DEF Submit, RecordForced
  <2>3. QED BY <1>12, <2>1, <2>2 DEF Submit
<1>13. CASE Cleanup
  <2>1. CASE ~(Len(undoStack) > Head(frames).token)
    BY <1>13, <2>1 DEF Cleanup
  <2>2. CASE Len(undoStack) > Head(frames).token
    <3>0. Head(frames) \in Frame
      BY <1>13 DEF Cleanup, Stages
    <3>1. Len(undoStack) > 0
      BY <2>2, <3>0 DEF Frame
    <3>2. undoStack[Len(undoStack)] \in Cells
      BY <3>1
    <3>3. undoStack[Len(undoStack)][1] \in Index
      BY <3>2, CellParts
    <3>a. UndoLast
      BY <1>13, <2>2 DEF Cleanup
    <3>4. minUnassignedRow' \in Index
      BY <3>3, <3>a DEF UndoLast
    <3>5. undoStack' \in Seq(Cells)
      BY <3>1, <3>a DEF UndoLast
    <3>6. QED BY <1>13, <2>2, <3>4, <3>5 DEF Cleanup
  <2>3. QED BY <2>1, <2>2
<1>14. CASE Exhausted        BY <1>14 DEF Exhausted
<1>15. CASE Propagating
  <2>1. CASE PopViolated
    BY <1>15, <2>1 DEF Propagating, PopViolated, NotForcing, CellState
  <2>2. CASE PopLine
    <3>1. forcing'.value \in CellState
      BY <2>2 DEF PopLine, NotForcing, CellState
    <3>2. QED BY <1>15, <2>2, <3>1 DEF Propagating, PopLine
  <2>3. CASE ForceCell
    <3>1. PICK x \in Cells : forced' = Append(forced, x)
      BY <2>3 DEF ForceCell
    <3>2. forced' \in Seq(Cells)
      BY <3>1
    <3>3. forcing' = forcing
      BY <2>3 DEF ForceCell
    <3>4. QED BY <1>15, <3>2, <3>3 DEF Propagating
  <2>4. CASE Quiesce
    BY <1>15, <2>4 DEF Propagating, Quiesce, NotForcing, CellState
  <2>5. QED BY <1>15, <2>1, <2>2, <2>3, <2>4 DEF Propagating, EngineStep
<1>16. CASE UNCHANGED vars   BY <1>16
<1>17. QED
  BY <1>1, <1>2, <1>3, <1>4, <1>5, <1>6, <1>7, <1>8, <1>9, <1>10, <1>11, <1>12,
     <1>13, <1>14, <1>15, <1>16 DEF Next

\* The cells the last call of propagation forced, while they wait to be
\* recorded; and with the undo stack, all the search can take back.
Fresh == IF pc \in {"initial", "result"} THEN forced ELSE <<>>
Trail == undoStack \o Fresh

\* What the search can take back is assigned, and named once.
Recorded ==
  /\ \A p \in 1..Len(Trail) : cells[Trail[p]] # Unassigned
  /\ \A p, q \in 1..Len(Trail) : p # q => Trail[p] # Trail[q]

\* Frame i holds its cell at the value it tried last.
Holds(i) ==
  /\ frames[i].nextValue \in {1, 2}
  /\ frames[i].token + 1 <= Len(undoStack)
  /\ undoStack[frames[i].token + 1] = frames[i].cell
  /\ cells[frames[i].cell] = frames[i].nextValue - 1

\* The DFS loop is at work; afterwards the frames are only thrown away.
Searching == pc \in {"loop", "try", "result"}

\* Every frame holds its cell, but for the top one while its next value is
\* awaited: it holds on until its undo is done, and its cell is free then.
FramesHold ==
  Searching =>
    /\ \A i \in 1..Len(frames) : i < Len(frames) \/ pc # "loop" => Holds(i)
    /\ pc = "loop" /\ frames # <<>> =>
         /\ Top.nextValue > 0 => Top.token <= Len(undoStack)
         /\ ToUndo => Holds(Len(frames))
         /\ ~ToUndo => cells[Top.cell] = Unassigned

\* What a step does to the store, and to what the search can take back.
Grow ==
  \E x \in Cells, v \in {0, 1} :
    cells[x] = Unassigned /\ Assign(x, v) /\ Trail' = Append(Trail, x)

Shrink ==
  /\ Trail # <<>>
  /\ Unassign(Trail[Len(Trail)])
  /\ Trail' = SubSeq(Trail, 1, Len(Trail) - 1)

Keep ==
  /\ UNCHANGED store
  /\ Len(Trail') <= Len(Trail)
  /\ \A p \in 1..Len(Trail') : Trail'[p] = Trail[p]

\* The trail begins with the undo stack.
LEMMA TrailShape ==
  Typing => /\ Trail \in Seq(Cells)
            /\ Len(undoStack) <= Len(Trail)
            /\ \A p \in 1..Len(undoStack) : Trail[p] = undoStack[p]
            /\ Fresh = <<>> => Trail = undoStack
BY DEF Typing, Trail, Fresh

\* A step that leaves the store and the trail alone keeps both.
LEMMA Kept ==
  ASSUME Typing, UNCHANGED store, Trail' = Trail PROVE Keep
BY TrailShape DEF Keep

\* Every step of the search assigns a free cell and adds it to the trail, takes
\* the last cell of the trail back, or leaves the store alone and forgets at most
\* the end of the trail, as a contradiction does.
LEMMA Moves ==
  Typing /\ Stages /\ PropagationPlaces /\ FramesHold /\ [Next]_vars => Grow \/ Shrink \/ Keep
<1> SUFFICES ASSUME Typing, Stages, PropagationPlaces, FramesHold, [Next]_vars PROVE Grow \/ Shrink \/ Keep
  OBVIOUS
<1> USE DEF vars, engine, input, brancher, output
<1>0. undoStack \in Seq(Cells) /\ forced \in Seq(Cells)
  BY DEF Typing
<1>1. CASE Start
  <2>1. forced' = <<>> /\ undoStack' = undoStack /\ pc = "start" /\ pc' = "initial" /\ UNCHANGED store
    BY <1>1 DEF Start, Propagate
  <2>2. QED BY <2>1, <1>0, Kept DEF Trail, Fresh
<1>2. CASE InitialInfeasible
  <2>1. undoStack' = undoStack /\ pc' = "ended" /\ UNCHANGED store
    BY <1>2 DEF InitialInfeasible
  <2>2. Trail' = undoStack
    BY <1>0, <2>1 DEF Trail, Fresh
  <2>3. QED BY <2>1, <2>2, TrailShape DEF Keep
<1>3. CASE InitialSolved \/ InitialBranch \/ HashMismatch \/ Descend \/ Submit
  <2>1. /\ pc \in {"initial", "result"} /\ pc' \notin {"initial", "result"}
        /\ undoStack' = undoStack \o forced /\ UNCHANGED store
    BY <1>3 DEF InitialSolved, InitialBranch, HashMismatch, Descend, Submit, RecordForced
  <2>2. Trail = undoStack \o forced /\ Trail' = undoStack \o forced
    BY <1>0, <2>1 DEF Trail, Fresh
  <2>3. QED BY <2>1, <2>2, Kept
<1>4. CASE Undo
  <2>1. Trail = undoStack
    BY <1>4, TrailShape DEF Undo, Fresh
  <2>2. Top \in Frame
    BY <1>4 DEF Undo, ToUndo, Top, Typing
  <2>3. undoStack # <<>>
    BY <1>0, <1>4, <2>2 DEF Undo, ToUndo, Frame
  <2>4. Trail' = undoStack'
    BY <1>0, <1>4, <2>3 DEF Undo, UndoLast, Trail, Fresh
  <2>5. QED BY <1>4, <2>1, <2>3, <2>4 DEF Undo, UndoLast, Shrink
<1>5. CASE Pop \/ Exhausted
  <2>1. undoStack' = undoStack /\ pc = "loop" /\ pc' \in {"loop", "ended"} /\ UNCHANGED store
    BY <1>5 DEF Pop, Exhausted
  <2>2. QED BY <2>1, Kept DEF Trail, Fresh
<1>6. CASE Try
  <2>1. Top \in Frame /\ Top.nextValue \in {0, 1} /\ Top.cell \in Cells
    <3>1. Top \in Frame
      BY <1>6 DEF Try, Top, Typing
    <3>2. QED BY <1>6, <3>1 DEF Frame, Try
  <2>2. cells[Top.cell] = Unassigned
    BY <1>6 DEF Try, FramesHold, Searching
  <2>3. undoStack' = Append(undoStack, Top.cell) /\ pc = "loop" /\ pc' = "try" /\ Assign(Top.cell, Top.nextValue)
    BY <1>6 DEF Try
  <2>4. Trail' = Append(Trail, Top.cell)
    BY <1>0, <2>1, <2>3 DEF Trail, Fresh
  <2>5. QED BY <2>1, <2>2, <2>3, <2>4 DEF Grow
<1>7. CASE TryPropagate
  <2>1. forced' = <<>> /\ undoStack' = undoStack /\ pc = "try" /\ pc' = "result" /\ UNCHANGED store
    BY <1>7 DEF TryPropagate, TryPropagateCell, Propagate
  <2>2. QED BY <1>0, <2>1, Kept DEF Trail, Fresh
<1>8. CASE Contradiction
  <2>1. undoStack' = undoStack /\ pc' = "loop" /\ UNCHANGED store
    BY <1>8 DEF Contradiction
  <2>2. Trail' = undoStack
    BY <1>0, <2>1 DEF Trail, Fresh
  <2>3. QED BY <2>1, <2>2, TrailShape DEF Keep
<1>9. CASE Cleanup
  <2>1. CASE ~(Len(undoStack) > Head(frames).token)
    <3>1. undoStack' = undoStack /\ pc = "cleanup" /\ pc' = "ended" /\ UNCHANGED store
      BY <1>9, <2>1 DEF Cleanup
    <3>2. QED BY <3>1, Kept DEF Trail, Fresh
  <2>2. CASE Len(undoStack) > Head(frames).token
    <3>1. Trail = undoStack
      BY <1>9, TrailShape DEF Cleanup, Fresh
    <3>2. Head(frames) \in Frame
      BY <1>9 DEF Cleanup, Stages, Typing
    <3>3. undoStack # <<>>
      BY <1>0, <2>2, <3>2 DEF Frame
    <3>4. UndoLast /\ pc' = "cleanup"
      BY <1>9, <2>2 DEF Cleanup
    <3>5. Trail' = undoStack'
      BY <1>0, <3>3, <3>4 DEF UndoLast, Trail, Fresh
    <3>6. QED BY <3>1, <3>3, <3>4, <3>5 DEF UndoLast, Shrink
  <2>3. QED BY <2>1, <2>2
<1>10. CASE Propagating
  <2>1. CASE PopViolated \/ PopLine \/ Quiesce
    <3>1. UNCHANGED <<store, undoStack, forced, pc>>
      BY <1>10, <2>1 DEF Propagating, PopViolated, PopLine, Quiesce
    <3>2. QED BY <3>1, Kept DEF Trail, Fresh
  <2>2. CASE ForceCell
    <3>1. PICK x \in Cells : /\ IsFirst(x, ToForce) /\ Assign(x, forcing.value)
                             /\ forced' = Append(forced, x)
      BY <2>2 DEF ForceCell
    <3>2. cells[x] = Unassigned /\ forcing.value \in {0, 1}
      BY <3>1 DEF IsFirst, ToForce, UnknownOn, Typing, CellState, Unassigned
    <3>3. pc \in {"initial", "result"} /\ pc' = pc /\ undoStack' = undoStack
      BY <1>10, <2>2 DEF Propagating, ForceCell, PropagationPlaces
    <3>4. Trail' = Append(Trail, x)
      BY <1>0, <3>1, <3>3 DEF Trail, Fresh
    <3>5. QED BY <3>1, <3>2, <3>4 DEF Grow
  <2>3. QED BY <1>10, <2>1, <2>2 DEF Propagating, EngineStep
<1>11. CASE UNCHANGED vars
  <2>1. UNCHANGED <<store, undoStack, forced, pc>>
    BY <1>11
  <2>2. QED BY <2>1, Kept DEF Trail, Fresh
<1>12. QED
  BY <1>1, <1>2, <1>3, <1>4, <1>5, <1>6, <1>7, <1>8, <1>9, <1>10, <1>11 DEF Next

\* The cell taken back is an assigned one.
LEMMA ShrinkCell ==
  ASSUME Typing, Recorded, Shrink
  PROVE  /\ Len(Trail) \in 1..Len(Trail)
         /\ Trail[Len(Trail)] \in Cells /\ cells[Trail[Len(Trail)]] # Unassigned
         /\ Unassign(Trail[Len(Trail)])
<1>1. Trail \in Seq(Cells) /\ Trail # <<>>
  BY TrailShape DEF Shrink
<1>2. Len(Trail) \in 1..Len(Trail)
  BY <1>1
<1>3. QED BY <1>1, <1>2 DEF Recorded, Shrink

\* The search follows the store's discipline, so the counters stay exact.
LEMMA StoreStep ==
  ASSUME Typing, Stages, PropagationPlaces, FramesHold, Recorded, StoreTypeOK, StatsExact,
         [Next]_vars
  PROVE  /\ (StoreTypeOK /\ StatsExact /\ Recorded)'
         /\ StoreAssign \/ StoreUnassign \/ UNCHANGED store
<1>0. Trail \in Seq(Cells)
  BY TrailShape
<1>1. CASE Grow
  <2>1. PICK x \in Cells, v \in {0, 1} : cells[x] = Unassigned /\ Assign(x, v) /\ Trail' = Append(Trail, x)
    BY <1>1 DEF Grow
  <2>2. (StoreTypeOK /\ StatsExact)'
    BY <2>1, AssignExact
  <2>3. cells'[x] # Unassigned /\ \A y \in Cells \ {x} : cells'[y] = cells[y]
    BY <2>1, AssignEffect DEF Unassigned
  <2>4. \A p \in 1..Len(Trail) : Trail[p] \in Cells /\ Trail[p] # x
    BY <1>0, <2>1 DEF Recorded
  <2>5. /\ Len(Trail') = Len(Trail) + 1 /\ Trail'[Len(Trail) + 1] = x
        /\ \A p \in 1..Len(Trail) : Trail'[p] = Trail[p]
    BY <1>0, <2>1
  <2>6. Recorded'
    BY <1>0, <2>3, <2>4, <2>5 DEF Recorded
  <2>7. StoreAssign
    BY <2>1 DEF StoreAssign
  <2>8. QED BY <2>2, <2>6, <2>7
<1>2. CASE Shrink
  <2> DEFINE x == Trail[Len(Trail)]
  <2>1. x \in Cells /\ cells[x] # Unassigned /\ Unassign(x) /\ Len(Trail) \in 1..Len(Trail)
    BY <1>2, ShrinkCell
  <2>2. (StoreTypeOK /\ StatsExact)'
    BY <2>1, UnassignExact
  <2>3. \A y \in Cells \ {x} : cells'[y] = cells[y]
    BY <2>1, UnassignEffect
  <2>4. Len(Trail') = Len(Trail) - 1 /\ \A p \in 1..(Len(Trail) - 1) : Trail'[p] = Trail[p]
    <3> HIDE DEF x
    <3>1. Trail' = SubSeq(Trail, 1, Len(Trail) - 1)
      BY <1>2 DEF Shrink
    <3>2. Len(Trail) - 1 \in Nat
      BY <2>1
    <3>3. QED BY <1>0, <2>1, <3>1, ButLast
  <2>5. \A p \in 1..(Len(Trail) - 1) : Trail[p] \in Cells \ {x}
    BY <1>0, <2>1 DEF Recorded
  <2>6. Recorded'
    BY <1>0, <2>3, <2>4, <2>5 DEF Recorded
  <2>7. StoreUnassign
    BY <2>1 DEF StoreUnassign
  <2>8. QED BY <2>2, <2>6, <2>7
<1>3. CASE Keep
  <2>1. (StoreTypeOK /\ StatsExact)'
    BY <1>3 DEF Keep, store, StoreTypeOK, StatsExact, UnknownOn, OnesOn
  <2>2. cells' = cells /\ UNCHANGED store
    BY <1>3 DEF Keep, store
  <2>3. Recorded'
    <3>1. Len(Trail') \in Nat
      <4>1. Typing'
        BY TypingStep
      <4>2. Trail' \in Seq(Cells)
        BY <4>1 DEF Typing, Trail, Fresh
      <4>3. QED BY <4>2
    <3>2. QED BY <1>0, <1>3, <2>2, <3>1 DEF Keep, Recorded
  <2>4. QED BY <2>1, <2>2, <2>3
<1>4. QED BY <1>1, <1>2, <1>3, Moves

\* The frames' cells come in row-major order, their tokens in theirs.
FramesNest ==
  Searching =>
    \A i, j \in 1..Len(frames) : i < j =>
      /\ Before(frames[i].cell, frames[j].cell)
      /\ frames[j].nextValue > 0 => frames[i].token < frames[j].token

\* The frames are frames, and a stack that is not empty has a top.
LEMMA FrameShape ==
  Typing => /\ Len(frames) \in Nat
            /\ \A i \in 1..Len(frames) :
                 /\ frames[i] \in Frame
                 /\ frames[i].cell \in Cells /\ frames[i].nextValue \in 0..2 /\ frames[i].token \in Nat
            /\ frames # <<>> => Len(frames) \in 1..Len(frames)
<1> SUFFICES ASSUME Typing
             PROVE  /\ Len(frames) \in Nat
                    /\ \A i \in 1..Len(frames) :
                         /\ frames[i] \in Frame
                         /\ frames[i].cell \in Cells /\ frames[i].nextValue \in 0..2 /\ frames[i].token \in Nat
                    /\ frames # <<>> => Len(frames) \in 1..Len(frames)
  OBVIOUS
<1>1. frames \in Seq(Frame)
  BY DEF Typing
<1>2. \A i \in 1..Len(frames) : frames[i] \in Frame
  BY <1>1
<1>3. QED BY <1>1, <1>2 DEF Frame

\* A frame keeps its hold while its cell and the undo stack below it stay.
LEMMA HoldsOn ==
  ASSUME Typing, Typing', NEW i \in 1..Len(frames), Holds(i), frames'[i] = frames[i],
         cells'[frames[i].cell] = cells[frames[i].cell],
         frames[i].token + 1 <= Len(undoStack'),
         undoStack'[frames[i].token + 1] = undoStack[frames[i].token + 1]
  PROVE  Holds(i)'
BY DEF Holds

\* Each step leaves every frame its cell.
LEMMA FramesHoldStep ==
  ASSUME Typing, Typing', Stages, PropagationPlaces, StoreTypeOK, Recorded, FramesHold, FramesNest,
         [Next]_vars
  PROVE  FramesHold'
<1> USE DEF vars, engine, input, brancher, output
<1>0. undoStack \in Seq(Cells) /\ forced \in Seq(Cells)
  BY DEF Typing
<1>1. CASE Start \/ InitialInfeasible \/ InitialSolved \/ Exhausted \/ Cleanup
  BY <1>1 DEF Start, InitialInfeasible, InitialSolved, Exhausted, Cleanup, FramesHold, Searching
<1>2. CASE InitialBranch
  <2>1. PICK x \in Open : NextCell(x) /\ Push(x)
    BY <1>2 DEF InitialBranch
  <2>2. frames = <<>> /\ pc' = "loop" /\ cells' = cells
    BY <1>2 DEF InitialBranch, Stages, store
  <2>3. frames' = <<[cell |-> x, nextValue |-> 0, token |-> 0]>>
    BY <2>1, <2>2 DEF Push
  <2>4. Len(frames') = 1 /\ Top' = [cell |-> x, nextValue |-> 0, token |-> 0]
    BY <2>3 DEF Top
  <2>5. ~ToUndo' /\ cells'[Top'.cell] = Unassigned
    BY <2>2, <2>4 DEF ToUndo, Open
  <2>6. QED BY <2>2, <2>4, <2>5 DEF FramesHold
<1>3. CASE Undo
  <2>a. PICK k \in Nat, n \in Nat : k = Len(frames) /\ n = Len(undoStack)
    BY <1>0, FrameShape
  <2>b. PICK x : x = undoStack[n]
    OBVIOUS
  <2>k. k = Len(frames) /\ n = Len(undoStack) /\ x = undoStack[n]
    BY <2>a, <2>b
  <2>1. /\ pc = "loop" /\ pc' = "loop" /\ frames' = frames /\ frames # <<>>
        /\ frames[k].nextValue > 0 /\ n > frames[k].token
    BY <2>k, <1>3 DEF Undo, ToUndo, Top
  <2>2. k \in 1..k /\ frames[k].cell \in Cells /\ frames[k].token \in Nat
    BY <2>k, <2>1, FrameShape
  <2>3. n \in 1..n /\ undoStack # <<>>
    BY <2>k, <1>0, <2>1, <2>2
  <2>4. undoStack' = SubSeq(undoStack, 1, n - 1) /\ Unassign(x)
    BY <2>k, <1>3 DEF Undo, UndoLast
  <2>5. Len(undoStack') = n - 1 /\ \A p \in 1..(n - 1) : undoStack'[p] = undoStack[p]
    BY <1>0, <2>3, <2>4, ButLast
  <2>6. x \in Cells /\ cells'[x] = Unassigned /\ \A y \in Cells \ {x} : cells'[y] = cells[y]
    BY <2>k, <1>0, <2>3, <2>4, UnassignEffect
  <2>7. \A p \in 1..(n - 1) : undoStack[p] # x
    <3>1. Trail = undoStack
      BY <2>1, TrailShape DEF Fresh
    <3>2. QED BY <2>k, <1>0, <2>3, <3>1 DEF Recorded
  <2>8. \A i \in 1..k : Holds(i)
    BY <2>k, <1>3, <2>1, <2>2 DEF FramesHold, Searching, Undo
  <2>9. ASSUME NEW i \in 1..k, frames[i].token + 1 <= n - 1 PROVE Holds(i)'
    <3>1. frames[i].token + 1 \in 1..(n - 1) /\ frames[i].cell \in Cells /\ i \in 1..Len(frames)
      BY <2>k, <2>3, <2>9, FrameShape 
    <3>2. undoStack'[frames[i].token + 1] = undoStack[frames[i].token + 1]
      BY <2>5, <3>1
    <3>3. frames[i].cell # x
      BY <2>7, <2>8, <3>1 DEF Holds
    <3>4. QED BY <2>1, <2>5, <2>6, <2>8, <2>9, <3>1, <3>2, <3>3, HoldsOn
  <2>10. \A i \in 1..k : i < k => Holds(i)'
    <3>1. ASSUME NEW i \in 1..k, i < k PROVE frames[i].token + 1 <= n - 1
      <4>1. frames[i].token < frames[k].token
        BY <2>k, <2>1, <2>2, <3>1 DEF FramesNest, Searching
      <4>2. frames[i].token \in Nat
        BY <2>k, <3>1, FrameShape 
      <4>3. QED BY <2>1, <2>2, <2>3, <4>1, <4>2
    <3>2. QED BY <2>9, <3>1
  <2>11. frames[k].token <= n - 1
    BY <2>1, <2>2, <2>3
  <2>12. Top' = frames[k] /\ Len(frames') = k
    BY <2>k, <2>1 DEF Top
  <2>13. ASSUME ToUndo' PROVE Holds(k)'
    <3>1. frames[k].token + 1 <= n - 1
      BY <2>2, <2>3, <2>5, <2>12, <2>13 DEF ToUndo
    <3>2. QED BY <2>2, <2>9, <3>1
  <2>14. ASSUME ~ToUndo' PROVE cells'[Top'.cell] = Unassigned
    <3>1. frames[k].token + 1 = n
      BY <2>1, <2>2, <2>3, <2>5, <2>11, <2>12, <2>14 DEF ToUndo
    <3>2. frames[k].cell = x
      BY <2>k, <2>2, <2>8, <3>1 DEF Holds
    <3>3. QED BY <2>6, <2>12, <3>2
  <2>15. Top'.token <= Len(undoStack')
    BY <2>5, <2>11, <2>12
  <2>16. QED BY <2>1, <2>10, <2>12, <2>13, <2>14, <2>15 DEF FramesHold
<1>4. CASE Pop
  <2>k. PICK k \in Nat : k = Len(frames)
    BY FrameShape
  <2>1. /\ pc = "loop" /\ pc' = "loop" /\ frames # <<>> /\ frames' = SubSeq(frames, 1, k - 1)
        /\ undoStack' = undoStack /\ cells' = cells
    BY <2>k, <1>4 DEF Pop, store
  <2>2. /\ k \in 1..k /\ Len(frames') = k - 1 /\ \A i \in 1..(k - 1) : frames'[i] = frames[i]
    BY <2>k, <2>1, ButLast DEF Typing
  <2>3. ASSUME NEW i \in 1..(k - 1) PROVE Holds(i) /\ Holds(i)'
    <3>1. i \in 1..k /\ i < k
      BY <2>2
    <3>2. Holds(i)
      BY <2>k, <2>1, <3>1 DEF FramesHold, Searching
    <3>3. QED BY <2>1, <2>2, <3>1, <3>2 DEF Holds
  <2>4. ASSUME frames' # <<>> PROVE ToUndo' /\ Top'.token <= Len(undoStack') /\ Holds(k - 1)'
    <3>1. k - 1 \in 1..(k - 1)
      BY <2>2, <2>4, FrameShape DEF Typing
    <3>2. Top' = frames[k - 1]
      BY <2>2, <3>1 DEF Top
    <3>3. Holds(k - 1) /\ Holds(k - 1)'
      BY <2>3, <3>1
    <3>4. frames[k - 1].token \in Nat /\ Len(undoStack) \in Nat
      BY <2>k, <1>0, <2>2, <3>1, FrameShape
    <3>5. QED BY <2>1, <2>4, <3>2, <3>3, <3>4 DEF ToUndo, Holds
  <2>5. QED BY <2>1, <2>2, <2>3, <2>4 DEF FramesHold
<1>5. CASE Try
  <2>k. PICK k \in Nat : k = Len(frames)
    BY FrameShape
  <2>1. /\ pc = "loop" /\ pc' = "try" /\ frames # <<>> /\ ~ToUndo
        /\ undoStack' = Append(undoStack, frames[k].cell) /\ Assign(frames[k].cell, frames[k].nextValue)
        /\ frames' = [frames EXCEPT ![k] = [cell |-> frames[k].cell, nextValue |-> frames[k].nextValue + 1,
                                            token |-> Len(undoStack)]]
        /\ frames[k].nextValue < 2
    BY <2>k, <1>5 DEF Try, Top
  <2>2. k \in 1..k /\ frames[k].cell \in Cells /\ frames[k].nextValue \in {0, 1}
    BY <2>k, <2>1, FrameShape
  <2>3. cells'[frames[k].cell] = frames[k].nextValue /\ \A y \in Cells \ {frames[k].cell} : cells'[y] = cells[y]
    BY <2>1, <2>2, AssignEffect
  <2>4. /\ Len(undoStack') = Len(undoStack) + 1 /\ undoStack'[Len(undoStack) + 1] = frames[k].cell
        /\ \A p \in 1..Len(undoStack) : undoStack'[p] = undoStack[p]
    BY <1>0, <2>1, <2>2
  <2>5. /\ Len(frames') = k /\ \A i \in 1..k : i # k => frames'[i] = frames[i]
        /\ frames'[k] = [cell |-> frames[k].cell, nextValue |-> frames[k].nextValue + 1, token |-> Len(undoStack)]
    BY <2>k, <2>1, <2>2 DEF Typing
  <2>6. Holds(k)'
    BY <1>0, <2>2, <2>3, <2>4, <2>5 DEF Holds
  <2>7. ASSUME NEW i \in 1..k, i # k PROVE Holds(i)'
    <3>1. i < k /\ frames[i].cell \in Cells /\ frames[i].token \in Nat
      BY <2>k, <2>2, <2>7, FrameShape
    <3>2. Holds(i)
      BY <2>k, <2>1, <3>1 DEF FramesHold, Searching
    <3>3. frames[i].cell # frames[k].cell
      BY <2>k, <2>1, <2>2, <3>1, BeforeOrder DEF FramesNest, Searching
    <3>4. frames[i].token + 1 \in 1..Len(undoStack)
      BY <1>0, <3>1, <3>2 DEF Holds
    <3>5. /\ frames'[i] = frames[i] /\ cells'[frames[i].cell] = cells[frames[i].cell]
          /\ undoStack'[frames[i].token + 1] = undoStack[frames[i].token + 1]
          /\ frames[i].token + 1 <= Len(undoStack')
      BY <1>0, <2>3, <2>4, <2>5, <2>7, <3>1, <3>3, <3>4
    <3>6. i \in 1..Len(frames)
      BY <2>k, <2>7
    <3>7. QED BY <3>2, <3>5, <3>6, HoldsOn
  <2>8. QED BY <2>1, <2>5, <2>6, <2>7 DEF FramesHold
<1>6. CASE TryPropagate \/ Contradiction \/ HashMismatch \/ Descend \/ Submit \/ Propagating
  <2>0. CASE ~Searching
    BY <1>6, <2>0 DEF FramesHold, Searching, TryPropagate, Contradiction, HashMismatch, Descend, Submit,
       Propagating
  <2>1. CASE Searching
    <3>k. PICK k \in Nat : k = Len(frames)
      BY FrameShape
    <3>1. /\ pc \in {"try", "result"} /\ pc' \in {"result", "loop", "cleanup"} /\ submitted \in Seq(SUBSET Cells)
          /\ undoStack' = undoStack \/ undoStack' = undoStack \o forced
      BY <1>6, <2>1 DEF Searching, TryPropagate, Contradiction, HashMismatch, Descend, Submit,
         Propagating, RecordForced, PropagationPlaces, Typing, EngineStep, PopViolated, PopLine,
         ForceCell, Quiesce
    <3>2. Len(undoStack) <= Len(undoStack') /\ \A p \in 1..Len(undoStack) : undoStack'[p] = undoStack[p]
      BY <1>0, <3>1
    <3>3. k \in 1..k /\ \A i \in 1..k : /\ Holds(i) /\ frames[i].cell \in Cells
                                        /\ frames[i].token \in Nat /\ frames[i].nextValue \in 0..2
      BY <2>1, <3>k, <3>1, FrameShape DEF FramesHold, Searching, Stages
    <3>4. \A y \in Cells : cells[y] # Unassigned => cells'[y] = cells[y]
      <4>1. CASE ForceCell
        <5>1. PICK x \in Cells : IsFirst(x, ToForce) /\ Assign(x, forcing.value)
          BY <4>1 DEF ForceCell
        <5>2. cells[x] = Unassigned
          BY <5>1 DEF IsFirst, ToForce, UnknownOn
        <5>3. QED BY <5>1, <5>2 DEF Assign, StoreTypeOK
      <4>2. CASE ~ForceCell
        BY <1>6, <4>2 DEF TryPropagate, Contradiction, HashMismatch, Descend, Submit, Propagating,
           EngineStep, PopViolated, PopLine, Quiesce, store
      <4>3. QED BY <4>1, <4>2
    <3>5. ASSUME NEW i \in 1..k, frames'[i] = frames[i] PROVE Holds(i)'
      <4>1. cells[frames[i].cell] # Unassigned
        BY <3>3, <3>5 DEF Holds, Unassigned
      <4>2. frames[i].token + 1 \in 1..Len(undoStack)
        BY <1>0, <3>3, <3>5 DEF Holds
      <4>3. frames[i].token + 1 <= Len(undoStack')
        BY <1>0, <3>2, <4>2 DEF Typing
      <4>4. QED BY <3>k, <3>2, <3>3, <3>4, <3>5, <4>1, <4>2, <4>3, HoldsOn
    <3>6. CASE Descend
      <4>1. PICK x \in Open : NextCell(x) /\ Push(x)
        BY <3>6 DEF Descend
      <4>2. /\ Len(frames') = k + 1 /\ frames'[k + 1] = [cell |-> x, nextValue |-> 0, token |-> 0]
            /\ \A i \in 1..k : frames'[i] = frames[i]
        <5> DEFINE f == [cell |-> x, nextValue |-> 0, token |-> 0]
        <5>1. frames' = Append(frames, f)
          BY <4>1 DEF Push
        <5> HIDE DEF f
        <5>2. /\ Len(frames') = k + 1 /\ frames'[k + 1] = f
              /\ \A i \in 1..k : frames'[i] = frames[i]
          BY <3>k, <5>1 DEF Typing
        <5>3. QED BY <5>2 DEF f
      <4>3. cells'[x] = Unassigned /\ pc' = "loop"
        BY <3>6, <4>1 DEF Open, Descend, store
      <4>4. Top' = [cell |-> x, nextValue |-> 0, token |-> 0] /\ ~ToUndo'
        BY <4>2 DEF Top, ToUndo
      <4>5. \A i \in 1..k : Holds(i)'
        BY <3>5, <4>2
      <4>6. \A i \in 1..Len(frames') : i < Len(frames') => i \in 1..k
        BY <4>2
      <4>7. QED BY <4>3, <4>4, <4>5, <4>6 DEF FramesHold
    <3>7. CASE ~Descend
      <4>1. frames' = frames
        BY <1>6, <3>7 DEF TryPropagate, Contradiction, HashMismatch, Submit, Propagating
      <4>2. \A i \in 1..k : Holds(i)'
        BY <3>5, <4>1
      <4>3. Top' = frames[k] /\ Len(frames') = k /\ frames' # <<>>
        BY <3>k, <3>3, <4>1 DEF Top
      <4>4. frames[k].nextValue > 0 /\ frames[k].token + 1 <= Len(undoStack')
        <5>1. Holds(k)'
          BY <3>3, <4>2
        <5>2. QED BY <4>1, <5>1 DEF Holds
      <4>5. ToUndo' /\ Top'.token <= Len(undoStack')
        <5>1. Len(undoStack') \in Nat /\ frames[k].token \in Nat
          BY <3>3 DEF Typing
        <5>2. QED BY <4>3, <4>4, <5>1 DEF ToUndo
      <4>6. Holds(Len(frames))'
        BY <3>k, <3>3, <4>2, <4>3
      <4>7. QED BY <4>2, <4>3, <4>5, <4>6 DEF FramesHold
    <3>8. QED BY <3>6, <3>7
  <2>2. QED BY <2>0, <2>1
<1>7. CASE UNCHANGED vars
  BY <1>7 DEF FramesHold, Searching, Holds, Top, ToUndo, store
<1>8. QED
  BY <1>1, <1>2, <1>3, <1>4, <1>5, <1>6, <1>7 DEF Next

\* Every cell before a frame's cell is assigned, and nothing the frame's undo
\* takes back comes before its cell.
PathClosed ==
  Searching =>
    \A i \in 1..Len(frames) :
      /\ \A x \in Cells : Before(x, frames[i].cell) => cells[x] # Unassigned
      /\ frames[i].nextValue > 0 =>
           \A p \in (frames[i].token + 1)..Len(Trail) : ~Before(Trail[p], frames[i].cell)

\* Each step keeps the frames in order.
LEMMA FramesNestStep ==
  ASSUME Typing, Stages, FramesHold, FramesNest, PathClosed, [Next]_vars
  PROVE  FramesNest'
<1> USE DEF vars, engine, input, brancher, output
<1>0. undoStack \in Seq(Cells) /\ frames \in Seq(Frame)
  BY DEF Typing
<1>k. PICK k \in Nat : k = Len(frames)
  BY FrameShape
<1>1. CASE Start \/ InitialInfeasible \/ InitialSolved \/ Exhausted \/ Cleanup
  BY <1>1 DEF Start, InitialInfeasible, InitialSolved, Exhausted, Cleanup, FramesNest, Searching
<1>2. CASE InitialBranch
  <2>1. PICK x \in Open : NextCell(x) /\ Push(x)
    BY <1>2 DEF InitialBranch
  <2>2. frames = <<>>
    BY <1>2 DEF InitialBranch, Stages
  <2>3. frames' = <<[cell |-> x, nextValue |-> 0, token |-> 0]>>
    BY <2>1, <2>2 DEF Push
  <2>4. Len(frames') = 1
    BY <2>3
  <2>5. QED BY <2>4 DEF FramesNest
<1>3. CASE Pop
  <2>1. pc = "loop" /\ frames # <<>> /\ frames' = SubSeq(frames, 1, k - 1)
    BY <1>3, <1>k DEF Pop
  <2>2. /\ k \in 1..k /\ Len(frames') = k - 1 /\ \A i \in 1..(k - 1) : frames'[i] = frames[i]
    BY <1>k, <2>1, ButLast DEF Typing
  <2>3. QED BY <1>k, <2>1, <2>2 DEF FramesNest, Searching
<1>4. CASE Try
  <2>1. /\ pc = "loop" /\ frames # <<>>
        /\ frames' = [frames EXCEPT ![k] = [cell |-> frames[k].cell, nextValue |-> frames[k].nextValue + 1,
                                            token |-> Len(undoStack)]]
    BY <1>k, <1>4 DEF Try, Top
  <2>2. k \in 1..k
    BY <1>k, <2>1, FrameShape
  <2>3. /\ Len(frames') = k /\ \A i \in 1..k : i # k => frames'[i] = frames[i]
        /\ frames'[k] = [cell |-> frames[k].cell, nextValue |-> frames[k].nextValue + 1, token |-> Len(undoStack)]
    BY <1>k, <2>1, <2>2 DEF Typing
  <2>4. \A i \in 1..k : i < k => frames[i].token < Len(undoStack)
    <3>1. ASSUME NEW i \in 1..k, i < k PROVE frames[i].token < Len(undoStack)
      <4>1. Holds(i)
        BY <1>k, <2>1, <3>1 DEF FramesHold, Searching
      <4>2. frames[i].token \in Nat /\ Len(undoStack) \in Nat
        BY <1>0, <1>k, <3>1, FrameShape
      <4>3. QED BY <4>1, <4>2 DEF Holds
    <3>2. QED BY <3>1
  <2>5. QED BY <1>k, <2>1, <2>2, <2>3, <2>4 DEF FramesNest, Searching
<1>5. CASE Descend
  <2>1. PICK x \in Open : NextCell(x) /\ Push(x)
    BY <1>5 DEF Descend
  <2>2. x \in Cells /\ cells[x] = Unassigned
    BY <2>1 DEF Open
  <2>3. /\ Len(frames') = k + 1 /\ frames'[k + 1] = [cell |-> x, nextValue |-> 0, token |-> 0]
        /\ \A i \in 1..k : frames'[i] = frames[i]
    <3> DEFINE f == [cell |-> x, nextValue |-> 0, token |-> 0]
    <3>1. frames' = Append(frames, f)
      BY <2>1 DEF Push
    <3> HIDE DEF f
    <3>2. /\ Len(frames') = k + 1 /\ frames'[k + 1] = f
          /\ \A i \in 1..k : frames'[i] = frames[i]
      BY <1>k, <3>1 DEF Typing
    <3>3. QED BY <3>2 DEF f
  <2>4. \A i \in 1..k : Before(frames[i].cell, x)
    <3>1. ASSUME NEW i \in 1..k PROVE Before(frames[i].cell, x)
      <4>1. frames[i].cell \in Cells
        BY <1>k, <3>1, FrameShape
      <4>2. cells[frames[i].cell] # Unassigned
        BY <1>5, <1>k, <3>1 DEF Descend, FramesHold, Searching, Holds, Unassigned
      <4>3. ~Before(x, frames[i].cell)
        BY <1>5, <1>k, <2>2, <3>1 DEF Descend, PathClosed, Searching
      <4>4. QED BY <2>2, <4>1, <4>2, <4>3, BeforeOrder
    <3>2. QED BY <3>1
  <2>5. \A i, j \in 1..(k + 1) : i < j => j \in 1..k \/ (j = k + 1 /\ i \in 1..k)
    OBVIOUS
  <2>6. \A i, j \in 1..k : i < j => /\ Before(frames[i].cell, frames[j].cell)
                                    /\ frames[j].nextValue > 0 => frames[i].token < frames[j].token
    BY <1>5, <1>k DEF Descend, FramesNest, Searching
  <2>7. ASSUME NEW i \in 1..(k + 1), NEW j \in 1..(k + 1), i < j
        PROVE  /\ Before(frames'[i].cell, frames'[j].cell)
               /\ frames'[j].nextValue > 0 => frames'[i].token < frames'[j].token
    <3>1. CASE j \in 1..k
      <4>1. i \in 1..k
        BY <2>7, <3>1
      <4>2. QED BY <2>3, <2>6, <2>7, <3>1, <4>1
    <3>2. CASE j = k + 1
      <4>1. i \in 1..k
        BY <2>7, <3>2
      <4>2. QED BY <2>3, <2>4, <3>2, <4>1
    <3>3. QED BY <3>1, <3>2
  <2>8. QED BY <2>3, <2>7 DEF FramesNest
<1>6. CASE Undo \/ TryPropagate \/ Contradiction \/ HashMismatch \/ Submit \/ Propagating \/ UNCHANGED vars
  <2>1. frames' = frames /\ (Searching' => Searching)
    BY <1>6 DEF Undo, TryPropagate, Contradiction, HashMismatch, Submit, Propagating, Searching
  <2>2. QED BY <2>1 DEF FramesNest
<1>7. QED
  BY <1>1, <1>2, <1>3, <1>4, <1>5, <1>6 DEF Next

\* Each step keeps the cells before a frame's cell assigned.
LEMMA PathClosedStep ==
  ASSUME Typing, Typing', Stages, PropagationPlaces, StoreTypeOK, StatsExact, Recorded, FramesHold,
         FramesNest, PathClosed, HintSound, [Next]_vars
  PROVE  PathClosed'
<1> USE DEF vars, engine, input, brancher, output
<1>0. undoStack \in Seq(Cells) /\ frames \in Seq(Frame) /\ Trail \in Seq(Cells) /\ Len(Trail) \in Nat
  BY TrailShape DEF Typing
<1>k. PICK k \in Nat, n \in Nat : k = Len(frames) /\ n = Len(Trail)
  BY <1>0, FrameShape
<1>s. /\ \A i \in 1..k : frames[i].cell \in Cells /\ frames[i].token \in Nat /\ frames[i].nextValue \in 0..2
      /\ frames # <<>> => k \in 1..k
  BY <1>k, FrameShape
<1>1. CASE ~Searching'
  BY <1>1 DEF PathClosed
<1>2. CASE InitialBranch \/ Descend
  <2>1. PICK x \in Open : NextCell(x) /\ Push(x)
    BY <1>2 DEF InitialBranch, Descend
  <2>2. x \in Cells /\ \A y \in Cells : Before(y, x) => cells[y] # Unassigned
    BY <2>1, FirstOpen DEF Open, NextCell, Typing
  <2>3. cells' = cells /\ Trail' = Trail
    <3>1. /\ pc \in {"initial", "result"} /\ pc' \notin {"initial", "result"}
          /\ undoStack' = undoStack \o forced /\ UNCHANGED store
      BY <1>2 DEF InitialBranch, Descend, RecordForced
    <3>2. Trail = undoStack \o forced /\ Trail' = undoStack \o forced
      BY <1>0, <3>1 DEF Trail, Fresh, Typing
    <3>3. QED BY <3>1, <3>2 DEF store
  <2>4. /\ Len(frames') = k + 1 /\ frames'[k + 1] = [cell |-> x, nextValue |-> 0, token |-> 0]
        /\ \A i \in 1..k : frames'[i] = frames[i]
    <3> DEFINE f == [cell |-> x, nextValue |-> 0, token |-> 0]
    <3>1. frames' = Append(frames, f)
      BY <2>1 DEF Push
    <3> HIDE DEF f
    <3>2. /\ Len(frames') = k + 1 /\ frames'[k + 1] = f
          /\ \A i \in 1..k : frames'[i] = frames[i]
      BY <1>0, <1>k, <3>1
    <3>3. QED BY <3>2 DEF f
  <2>5. k = 0 \/ Searching
    BY <1>2, <1>k DEF InitialBranch, Descend, Stages, Searching
  <2>6. ASSUME NEW i \in 1..(k + 1)
        PROVE  /\ \A y \in Cells : Before(y, frames'[i].cell) => cells'[y] # Unassigned
               /\ frames'[i].nextValue > 0 =>
                    \A p \in (frames'[i].token + 1)..Len(Trail') : ~Before(Trail'[p], frames'[i].cell)
    <3>1. CASE i = k + 1
      BY <2>2, <2>3, <2>4, <3>1
    <3>2. CASE i \in 1..k
      BY <1>k, <2>3, <2>4, <2>5, <3>2 DEF PathClosed
    <3>3. QED BY <2>6, <3>1, <3>2
  <2>7. QED BY <2>4, <2>6 DEF PathClosed
<1>3. CASE Undo
  <2>1. pc = "loop" /\ pc' = "loop" /\ frames' = frames /\ frames # <<>> /\ frames[k].nextValue > 0
        /\ n > frames[k].token /\ Trail = undoStack
    BY <1>3, <1>k, TrailShape DEF Undo, ToUndo, Top, Fresh
  <2>2. /\ Trail # <<>> /\ Unassign(Trail[n]) /\ undoStack' = SubSeq(Trail, 1, n - 1)
    <3>1. Trail # <<>>
      BY <1>0, <1>k, <1>s, <2>1
    <3>2. QED BY <1>3, <1>k, <2>1, <3>1 DEF Undo, UndoLast
  <2>3. n \in 1..n /\ Len(Trail') = n - 1 /\ \A p \in 1..(n - 1) : Trail'[p] = Trail[p]
    <3>1. Trail' = undoStack'
      BY <2>1 DEF Trail, Fresh, Typing
    <3>2. QED BY <1>0, <1>k, <2>2, <3>1, ButLast
  <2>4. Trail[n] \in Cells /\ \A y \in Cells \ {Trail[n]} : cells'[y] = cells[y]
    BY <1>0, <1>k, <2>2, <2>3, UnassignEffect
  <2>5. ASSUME NEW i \in 1..k PROVE frames[i].nextValue > 0 /\ n > frames[i].token
    <3>1. CASE i = k
      BY <2>1, <3>1
    <3>2. CASE i # k
      <4>1. k \in 1..k /\ i < k
        BY <1>s, <2>1, <2>5, <3>2
      <4>2. Holds(i) /\ frames[i].token < frames[k].token
        BY <1>k, <2>1, <2>5, <4>1 DEF FramesHold, FramesNest, Searching
      <4>3. QED BY <1>s, <2>1, <2>5, <4>1, <4>2 DEF Holds
    <3>3. QED BY <3>1, <3>2
  <2>6. ASSUME NEW i \in 1..k
        PROVE  /\ \A y \in Cells : Before(y, frames[i].cell) => cells'[y] # Unassigned
               /\ \A p \in (frames[i].token + 1)..Len(Trail') : ~Before(Trail'[p], frames[i].cell)
    <3>1. \A p \in (frames[i].token + 1)..n : ~Before(Trail[p], frames[i].cell)
      BY <1>k, <2>1, <2>5, <2>6 DEF PathClosed, Searching
    <3>2. n \in (frames[i].token + 1)..n
      BY <1>s, <2>3, <2>5, <2>6
    <3>3. \A y \in Cells : Before(y, frames[i].cell) => cells[y] # Unassigned
      BY <1>k, <2>1, <2>6 DEF PathClosed, Searching
    <3>4. \A p \in (frames[i].token + 1)..(n - 1) : p \in 1..(n - 1) /\ p \in (frames[i].token + 1)..n
      BY <1>s, <2>6
    <3>5. QED BY <2>3, <2>4, <3>1, <3>2, <3>3, <3>4
  <2>7. QED BY <1>k, <2>1, <2>6 DEF PathClosed
<1>4. CASE Pop
  <2>1. pc = "loop" /\ frames # <<>> /\ frames' = SubSeq(frames, 1, k - 1) /\ cells' = cells /\ Trail' = Trail
    BY <1>4, <1>k DEF Pop, Trail, Fresh, store
  <2>2. /\ k \in 1..k /\ Len(frames') = k - 1 /\ \A i \in 1..(k - 1) : frames'[i] = frames[i]
    BY <1>0, <1>k, <2>1, ButLast
  <2>3. \A i \in 1..(k - 1) : i \in 1..Len(frames)
    BY <1>k
  <2>4. QED BY <2>1, <2>2, <2>3 DEF PathClosed, Searching
<1>5. CASE Try
  <2>1. /\ pc = "loop" /\ pc' = "try" /\ frames # <<>> /\ Trail = undoStack
        /\ undoStack' = Append(Trail, frames[k].cell) /\ Assign(frames[k].cell, frames[k].nextValue)
        /\ frames' = [frames EXCEPT ![k] = [cell |-> frames[k].cell, nextValue |-> frames[k].nextValue + 1,
                                            token |-> n]]
        /\ frames[k].nextValue < 2
    BY <1>k, <1>5, TrailShape DEF Try, Top, Fresh
  <2>2. k \in 1..k /\ frames[k].cell \in Cells /\ frames[k].nextValue \in {0, 1}
    BY <1>s, <2>1
  <2>3. /\ Len(frames') = k /\ \A i \in 1..k : i # k => frames'[i] = frames[i]
        /\ frames'[k] = [cell |-> frames[k].cell, nextValue |-> frames[k].nextValue + 1, token |-> n]
    BY <1>0, <1>k, <2>1, <2>2
  <2>4. Len(Trail') = n + 1 /\ Trail'[n + 1] = frames[k].cell /\ \A p \in 1..n : Trail'[p] = Trail[p]
    <3>1. Trail' = Append(Trail, frames[k].cell)
      BY <2>1 DEF Trail, Fresh, Typing
    <3>2. QED BY <1>0, <1>k, <2>2, <3>1
  <2>5. \A y \in Cells : cells[y] # Unassigned => cells'[y] # Unassigned
    BY <2>1, <2>2, AssignEffect DEF Unassigned
  <2>6. ASSUME NEW i \in 1..k, NEW p \in (frames'[i].token + 1)..(n + 1)
        PROVE  frames'[i].nextValue > 0 => ~Before(Trail'[p], frames'[i].cell)
    <3>1. CASE i = k
      <4>1. p = n + 1
        BY <1>k, <2>3, <2>6, <3>1
      <4>2. QED BY <2>2, <2>3, <2>4, <3>1, <4>1, BeforeOrder
    <3>2. CASE i # k
      <4>1. i < k /\ frames'[i] = frames[i]
        BY <2>2, <2>3, <2>6, <3>2
      <4>2. Before(frames[i].cell, frames[k].cell)
        BY <1>k, <2>1, <2>2, <2>6, <4>1 DEF FramesNest, Searching
      <4>3. CASE p = n + 1
        BY <1>s, <2>2, <2>4, <2>6, <4>1, <4>2, <4>3, BeforeOrder
      <4>4. CASE p # n + 1
        <5>1. p \in (frames[i].token + 1)..n /\ p \in 1..n
          BY <1>s, <2>6, <4>1, <4>4
        <5>2. QED BY <1>k, <2>1, <2>4, <2>6, <4>1, <5>1 DEF PathClosed, Searching
      <4>5. QED BY <4>3, <4>4
    <3>3. QED BY <3>1, <3>2
  <2>7. ASSUME NEW i \in 1..k, NEW y \in Cells, Before(y, frames'[i].cell)
        PROVE  cells'[y] # Unassigned
    <3>1. frames'[i].cell = frames[i].cell
      BY <2>3, <2>7
    <3>2. QED BY <1>k, <2>1, <2>5, <2>7, <3>1 DEF PathClosed, Searching
  <2>8. QED BY <2>3, <2>4, <2>6, <2>7 DEF PathClosed
<1>6. CASE ForceCell /\ Propagating /\ Searching
  <2>1. PICK x \in Cells : IsFirst(x, ToForce) /\ Assign(x, forcing.value) /\ forced' = Append(forced, x)
    BY <1>6 DEF ForceCell
  <2>2. cells[x] = Unassigned /\ forcing.value \in {0, 1}
    BY <2>1 DEF IsFirst, ToForce, UnknownOn, Typing, CellState, Unassigned
  <2>3. pc \in {"initial", "result"} /\ pc' = pc /\ undoStack' = undoStack /\ frames' = frames
    BY <1>6 DEF Propagating, ForceCell, PropagationPlaces
  <2>4. Trail' = Append(Trail, x)
    BY <1>0, <2>1, <2>3 DEF Trail, Fresh, Typing
  <2>5. Len(Trail') = n + 1 /\ Trail'[n + 1] = x /\ \A p \in 1..n : Trail'[p] = Trail[p]
    BY <1>0, <1>k, <2>4
  <2>6. \A y \in Cells : cells[y] # Unassigned => cells'[y] # Unassigned
    BY <2>1, <2>2, AssignEffect DEF Unassigned
  <2>7. ASSUME NEW i \in 1..k, NEW p \in (frames[i].token + 1)..(n + 1), frames[i].nextValue > 0
        PROVE  ~Before(Trail'[p], frames[i].cell)
    <3>1. CASE p = n + 1
      BY <1>6, <1>k, <2>2, <2>5, <2>7, <3>1 DEF PathClosed
    <3>2. CASE p # n + 1
      <4>1. p \in (frames[i].token + 1)..n /\ p \in 1..n
        BY <1>s, <2>7, <3>2
      <4>2. QED BY <1>6, <1>k, <2>5, <2>7, <4>1 DEF PathClosed
    <3>3. QED BY <3>1, <3>2
  <2>8. \A i \in 1..k : \A y \in Cells : Before(y, frames[i].cell) => cells'[y] # Unassigned
    BY <1>6, <1>k, <2>6 DEF PathClosed
  <2>9. QED BY <1>k, <2>3, <2>5, <2>7, <2>8 DEF PathClosed
<1>7. CASE Searching /\ frames' = frames /\ cells' = cells /\ Keep
  <2>1. Trail' \in Seq(Cells) /\ Len(Trail') \in Nat
    BY DEF Trail, Fresh, Typing
  <2>2. ASSUME NEW i \in 1..k, NEW p \in (frames[i].token + 1)..Len(Trail')
        PROVE  Trail'[p] = Trail[p] /\ p \in (frames[i].token + 1)..Len(Trail)
    BY <1>0, <1>s, <1>7, <2>1, <2>2 DEF Keep
  <2>3. QED BY <1>k, <1>7, <2>2 DEF PathClosed
<1>8. ASSUME TryPropagate \/ Contradiction \/ HashMismatch \/ Submit \/ (Propagating /\ ~ForceCell) \/ UNCHANGED vars,
             Searching'
      PROVE  Searching /\ frames' = frames /\ cells' = cells /\ Keep
  <2>1. Searching /\ frames' = frames /\ UNCHANGED store
    BY <1>8 DEF TryPropagate, Contradiction, HashMismatch, Submit, Propagating, EngineStep, PopViolated,
       PopLine, Quiesce, Searching
  <2>2. ~Grow /\ ~Shrink
    <3>1. \A x \in Cells, v \in {0, 1} : cells[x] = Unassigned => ~Assign(x, v)
      BY <2>1, AssignEffect DEF Unassigned, store
    <3>2. ~Shrink
      BY <2>1, ShrinkCell, UnassignEffect DEF store
    <3>3. QED BY <3>1, <3>2 DEF Grow
  <2>3. QED BY <2>1, <2>2, Moves DEF store
<1>9. CASE Propagating /\ ~Searching
  BY <1>9 DEF Propagating, PathClosed, Searching
<1>10. CASE Start \/ InitialInfeasible \/ InitialSolved \/ Exhausted \/ Cleanup
  BY <1>1, <1>10 DEF Start, InitialInfeasible, InitialSolved, Exhausted, Cleanup, Searching
<1>11. QED
  BY <1>1, <1>2, <1>3, <1>4, <1>5, <1>6, <1>7, <1>8, <1>9, <1>10 DEF Next

\* Each step keeps the rows above the hint complete.
LEMMA HintStep ==
  ASSUME Typing, Typing', Stages, PropagationPlaces, StoreTypeOK, StatsExact, Recorded, FramesHold,
         HintSound, [Next]_vars
  PROVE  HintSound'
<1> USE DEF vars, engine, input, brancher, output
<1>0. minUnassignedRow \in Int /\ \A x \in Cells : x[1] \in Int
  BY CellParts, kSAssumption DEF Typing, Index
<1>1. CASE InitialBranch \/ Descend
  <2>1. PICK x \in Open : NextCell(x) /\ Push(x)
    BY <1>1 DEF InitialBranch, Descend
  <2>2. x \in Cells /\ \A y \in Cells : Before(y, x) => cells[y] # Unassigned
    BY <2>1, FirstOpen DEF Open, NextCell, Typing
  <2>3. cells' = cells /\ minUnassignedRow' = x[1]
    BY <1>1, <2>1 DEF InitialBranch, Descend, NextCell, store
  <2>4. QED BY <2>2, <2>3 DEF HintSound, Before
<1>2. CASE UndoLast /\ undoStack # <<>>
  <2>1. PICK x \in Cells : x = undoStack[Len(undoStack)]
    BY <1>2, ButLast DEF Typing
  <2>2. \A y \in Cells \ {x} : cells'[y] = cells[y]
    BY <1>2, <2>1, UnassignEffect DEF UndoLast
  <2>3. minUnassignedRow' = IF x[1] < minUnassignedRow THEN x[1] ELSE minUnassignedRow
    BY <1>2, <2>1 DEF UndoLast
  <2>4. QED BY <1>0, <2>1, <2>2, <2>3 DEF HintSound
<1>3. CASE (Grow \/ UNCHANGED store) /\ minUnassignedRow' = minUnassignedRow
  <2>1. \A y \in Cells : cells[y] # Unassigned => cells'[y] # Unassigned
    BY <1>3, AssignEffect DEF Grow, Unassigned, store
  <2>2. QED BY <1>3, <2>1 DEF HintSound
<1>4. CASE Undo
  <2>1. Top \in Frame
    BY <1>4 DEF Undo, ToUndo, Top, Typing
  <2>2. UndoLast /\ undoStack # <<>>
    BY <1>4, <2>1 DEF Undo, ToUndo, Frame, Typing
  <2>3. QED BY <1>2, <2>2
<1>5. CASE Cleanup
  <2>1. Head(frames) \in Frame
    BY <1>5 DEF Cleanup, Stages, Typing
  <2>2. CASE Len(undoStack) > Head(frames).token
    <3>1. UndoLast /\ undoStack # <<>>
      BY <1>5, <2>1, <2>2 DEF Cleanup, Frame, Typing
    <3>2. QED BY <1>2, <3>1
  <2>3. CASE ~(Len(undoStack) > Head(frames).token)
    BY <1>3, <1>5, <2>3 DEF Cleanup
  <2>4. QED BY <2>2, <2>3
<1>6. CASE Try \/ (Propagating /\ ForceCell)
  <2>1. minUnassignedRow' = minUnassignedRow
    BY <1>6 DEF Try, Propagating
  <2>3. \A y \in Cells : cells[y] # Unassigned => cells'[y] # Unassigned
    <3>1. CASE Try
      <4>1. Top \in Frame
        BY <3>1 DEF Try, Top, Typing
      <4>2. Top.cell \in Cells /\ Top.nextValue \in {0, 1} /\ Assign(Top.cell, Top.nextValue)
        BY <3>1, <4>1 DEF Frame, Try
      <4>3. QED BY <4>2, AssignEffect DEF Unassigned
    <3>2. CASE ForceCell
      <4>1. PICK x \in Cells : IsFirst(x, ToForce) /\ Assign(x, forcing.value)
        BY <3>2 DEF ForceCell
      <4>2. cells[x] = Unassigned
        BY <4>1 DEF IsFirst, ToForce, UnknownOn
      <4>3. forcing.value \in {0, 1}
        BY <4>1 DEF IsFirst, ToForce, Typing, CellState
      <4>4. QED BY <4>1, <4>3, AssignEffect DEF Unassigned
    <3>3. QED BY <1>6, <3>1, <3>2
  <2>4. QED BY <2>1, <2>3 DEF HintSound
<1>7. CASE Start \/ InitialInfeasible \/ InitialSolved \/ Pop \/ TryPropagate \/ Contradiction
           \/ HashMismatch \/ Submit \/ Exhausted \/ (Propagating /\ ~ForceCell) \/ UNCHANGED vars
  <2>1. minUnassignedRow' = minUnassignedRow /\ UNCHANGED store
    BY <1>7 DEF Start, InitialInfeasible, InitialSolved, Pop, TryPropagate, Contradiction, HashMismatch,
       Submit, Exhausted, Propagating, EngineStep, PopViolated, PopLine, Quiesce
  <2>2. QED BY <1>3, <2>1
<1>8. QED
  BY <1>1, <1>4, <1>5, <1>6, <1>7 DEF Next

\* How many values of frame i are done with, and a candidate m that the search
\* has left behind at frame i: it agrees with the store before the frame's cell
\* and has there a value that is done with.
Tried(i) == IF i = Len(frames) /\ pc = "loop" THEN frames[i].nextValue ELSE frames[i].nextValue - 1

Behind(m, i) ==
  /\ \A x \in Cells : Before(x, frames[i].cell) => (x \in m <=> cells[x] = 1)
  /\ Tried(i) = 2 \/ (Tried(i) = 1 /\ frames[i].cell \notin m)

\* The search has left every candidate it submitted behind at some frame.
Outrun ==
  Searching /\ frames # <<>> =>
    \A s \in 1..Len(submitted) : \E i \in 1..Len(frames) : Behind(submitted[s], i)

\* While a frame is on the stack the cells before its cell do not change.
LEMMA PrefixStays ==
  ASSUME Typing, Stages, PropagationPlaces, StoreTypeOK, Recorded, FramesHold, PathClosed, PathClosed',
         Searching, Searching', [Next]_vars, NEW i \in 1..Len(frames), i \in 1..Len(frames'),
         frames'[i].cell = frames[i].cell, NEW x \in Cells, Before(x, frames[i].cell)
  PROVE  cells'[x] = cells[x]
<1>1. cells[x] # Unassigned /\ cells'[x] # Unassigned
  BY DEF PathClosed
<1>2. CASE Grow
  BY <1>1, <1>2, AssignEffect DEF Grow
<1>3. CASE Shrink
  BY <1>1, <1>3, ShrinkCell, UnassignEffect
<1>4. CASE Keep
  BY <1>4 DEF Keep, store
<1>5. QED BY <1>2, <1>3, <1>4, Moves

\* Each step leaves the candidates behind; a frame that is popped hands them to
\* the frame below it.
LEMMA OutrunStep ==
  ASSUME Typing, Typing', Stages, PropagationPlaces, StoreTypeOK, StatsExact, Recorded, FramesHold,
         FramesNest, PathClosed, PathClosed', Outrun, [Next]_vars
  PROVE  Outrun'
<1> USE DEF vars, engine, input, brancher, output
<1>0. frames \in Seq(Frame) /\ submitted \in Seq(SUBSET Cells)
  BY DEF Typing
<1>k. PICK k \in Nat, n \in Nat : k = Len(frames) /\ n = Len(submitted)
  BY <1>0, FrameShape
<1>s. /\ \A i \in 1..k : frames[i].cell \in Cells /\ frames[i].nextValue \in 0..2
      /\ frames # <<>> => k \in 1..k
  BY <1>k, FrameShape
<1>1. CASE ~Searching'
  BY <1>1 DEF Outrun
<1>2. CASE ~Searching
  <2>1. CASE InitialBranch
    <3>1. submitted' = <<>>
      BY <2>1 DEF InitialBranch, Stages
    <3>2. Len(submitted') = 0
      BY <3>1
    <3>3. QED BY <3>2 DEF Outrun
  <2>2. CASE ~InitialBranch
    <3>1. ~Searching'
      BY <1>2, <2>2 DEF Next, Searching, Start, InitialInfeasible, InitialSolved, Undo, Pop, Try, TryPropagate,
         Contradiction, HashMismatch, Descend, Submit, Cleanup, Exhausted, Propagating
    <3>2. QED BY <1>1, <3>1
  <2>3. QED BY <2>1, <2>2
<1>3. CASE Pop
  <2>1. /\ pc = "loop" /\ pc' = "loop" /\ frames # <<>> /\ frames' = SubSeq(frames, 1, k - 1)
        /\ UNCHANGED <<store, submitted>>
    BY <1>k, <1>3 DEF Pop
  <2>2. /\ k \in 1..k /\ Len(frames') = k - 1 /\ \A i \in 1..(k - 1) : frames'[i] = frames[i]
    BY <1>0, <1>k, <2>1, ButLast
  <2>3. ASSUME NEW s \in 1..n, frames' # <<>> PROVE \E i \in 1..(k - 1) : Behind(submitted[s], i)'
    <3>1. PICK i \in 1..k : Behind(submitted[s], i)
      BY <1>k, <2>1, <2>3 DEF Outrun, Searching
    <3>2. CASE i \in 1..(k - 1)
      <4>1. Holds(i) /\ i < k
        BY <1>k, <2>1, <3>2 DEF FramesHold, Searching
      <4>2. Behind(submitted[s], i)'
        BY <1>k, <2>1, <2>2, <3>1, <3>2, <4>1 DEF Behind, Tried, Holds, store
      <4>3. QED BY <3>2, <4>2
    <3>3. CASE i \notin 1..(k - 1)
      <4>0. k - 1 \in 1..(k - 1)
        BY <2>2, <2>3 DEF Typing
      <4>1. i = k /\ k - 1 \in 1..k
        BY <3>1, <3>3, <4>0
      <4>2. Holds(k - 1) /\ Before(frames[k - 1].cell, frames[k].cell)
        BY <1>k, <2>1, <4>0, <4>1 DEF FramesHold, FramesNest, Searching
      <4>3. frames[k - 1].cell \in Cells /\ frames[k].cell \in Cells
        BY <1>s, <4>1, <2>2
      <4>4. \A x \in Cells : Before(x, frames[k - 1].cell) => Before(x, frames[k].cell)
        BY <4>2, <4>3, BeforeOrder
      <4>5. frames[k - 1].cell \in submitted[s] <=> cells[frames[k - 1].cell] = 1
        BY <3>1, <4>1, <4>2, <4>3 DEF Behind
      <4>6. PICK j \in 1..(k - 1) : j = k - 1
        BY <4>0
      <4>7. Tried(j)' = frames[j].nextValue /\ frames'[j] = frames[j]
        BY <2>1, <2>2, <4>6 DEF Tried
      <4>8. Behind(submitted[s], j)'
        BY <2>1, <3>1, <4>1, <4>2, <4>4, <4>5, <4>6, <4>7 DEF Behind, Holds, store
      <4>9. QED BY <4>8
    <3>4. QED BY <3>2, <3>3
  <2>4. QED BY <1>k, <2>1, <2>2, <2>3 DEF Outrun
<1>4. CASE Searching /\ Searching' /\ ~Pop
  <2>1. /\ \A i \in 1..k : i \in 1..Len(frames') /\ frames'[i].cell = frames[i].cell
        /\ \A i \in 1..k : Tried(i)' >= Tried(i)
        /\ \A s \in 1..n : s \in 1..Len(submitted') /\ submitted'[s] = submitted[s]
        /\ submitted' = submitted \/ Submit
    <3>1. CASE Try
      <4>1. /\ pc = "loop" /\ pc' = "try" /\ frames # <<>> /\ submitted' = submitted
            /\ frames' = [frames EXCEPT ![k] = [cell |-> frames[k].cell, nextValue |-> frames[k].nextValue + 1,
                                                token |-> Len(undoStack)]]
        BY <1>k, <3>1 DEF Try, Top
      <4>2. k \in 1..k
        BY <1>s, <4>1
      <4>3. /\ Len(frames') = k /\ \A i \in 1..k : i # k => frames'[i] = frames[i]
            /\ frames'[k] = [cell |-> frames[k].cell, nextValue |-> frames[k].nextValue + 1, token |-> Len(undoStack)]
        BY <1>0, <1>k, <4>1, <4>2
      <4>4. ASSUME NEW i \in 1..k PROVE Tried(i)' = Tried(i)
        <5>1. CASE i = k
          BY <1>k, <1>s, <4>1, <4>2, <4>3, <5>1 DEF Tried
        <5>2. CASE i # k
          BY <1>k, <1>s, <4>1, <4>3, <4>4, <5>2 DEF Tried
        <5>3. QED BY <5>1, <5>2
      <4>5. \A i \in 1..k : Tried(i) \in Int
        BY <1>s DEF Tried
      <4>6. \A i \in 1..k : Tried(i)' >= Tried(i)
        BY <4>4, <4>5
      <4>7. \A i \in 1..k : i \in 1..Len(frames') /\ frames'[i].cell = frames[i].cell
        BY <4>3
      <4>8. QED BY <1>k, <4>1, <4>6, <4>7
    <3>2. CASE Descend
      <4>1. PICK x \in Open : Push(x)
        BY <3>2 DEF Descend
      <4>2. Len(frames') = k + 1 /\ \A i \in 1..k : frames'[i] = frames[i]
        BY <1>0, <1>k, <4>1 DEF Push
      <4>3. pc = "result" /\ submitted' = submitted
        BY <3>2 DEF Descend
      <4>4. \A i \in 1..k : Tried(i)' = Tried(i) /\ Tried(i) \in Int
        BY <1>k, <1>s, <4>2, <4>3 DEF Tried
      <4>5. \A i \in 1..k : Tried(i)' >= Tried(i)
        BY <4>4
      <4>6. QED BY <1>k, <4>2, <4>3, <4>5
    <3>3. CASE Undo \/ TryPropagate \/ Contradiction \/ HashMismatch \/ Submit \/ Propagating \/ UNCHANGED vars
      <4>1. frames' = frames /\ (pc = "loop" => pc' = "loop")
        BY <3>3 DEF Undo, TryPropagate, Contradiction, HashMismatch, Submit, Propagating
      <4>2. \A i \in 1..k : Tried(i)' >= Tried(i)
        BY <1>s, <4>1 DEF Tried
      <4>3. submitted' = submitted \/ (Submit /\ submitted' = Append(submitted, rowBits))
        BY <3>3 DEF Undo, TryPropagate, Contradiction, HashMismatch, Submit, Propagating
      <4>4. rowBits \in SUBSET Cells
        BY DEF StoreTypeOK
      <4>5. \A s \in 1..n : s \in 1..Len(submitted') /\ submitted'[s] = submitted[s]
        BY <1>0, <1>k, <4>3, <4>4
      <4>6. QED BY <1>k, <4>1, <4>2, <4>3, <4>5
    <3>4. ~Start /\ ~InitialInfeasible /\ ~InitialSolved /\ ~InitialBranch /\ ~Exhausted /\ ~Cleanup
      BY <1>4 DEF Start, InitialInfeasible, InitialSolved, InitialBranch, Exhausted, Cleanup, Searching
    <3>5. QED BY <1>4, <3>1, <3>2, <3>3, <3>4 DEF Next
  <2>2. ASSUME NEW s \in 1..n, NEW i \in 1..k, Behind(submitted[s], i) PROVE Behind(submitted[s], i)'
    <3>1. ASSUME NEW x \in Cells, Before(x, frames'[i].cell)
          PROVE  x \in submitted'[s] <=> cells'[x] = 1
      <4>1. cells'[x] = cells[x]
        BY <1>4, <1>k, <2>1, <2>2, <3>1, PrefixStays
      <4>2. QED BY <2>1, <2>2, <3>1, <4>1 DEF Behind
    <3>2. Tried(i)' \in Int /\ Tried(i)' <= 2 /\ Tried(i)' >= Tried(i) /\ Tried(i) \in Int
      <4>1. i \in 1..Len(frames')
        BY <2>1, <2>2
      <4>2. frames'[i] \in Frame
        BY <4>1 DEF Typing
      <4>3. frames'[i].nextValue \in 0..2
        BY <4>2 DEF Frame
      <4>4. QED BY <1>s, <2>1, <2>2, <4>3 DEF Tried
    <3>3. frames'[i].cell = frames[i].cell /\ submitted'[s] = submitted[s]
      BY <2>1, <2>2
    <3>4. Tried(i)' = 2 \/ (Tried(i)' = 1 /\ frames'[i].cell \notin submitted'[s])
      BY <2>2, <3>2, <3>3 DEF Behind
    <3>5. QED BY <3>1, <3>4 DEF Behind
  <2>3. ASSUME frames' # <<>>, NEW s \in 1..n PROVE \E i \in 1..Len(frames') : Behind(submitted[s], i)'
    <3>1. frames # <<>>
      BY <1>4, <2>3 DEF Next, Searching, Start, InitialInfeasible, InitialSolved, InitialBranch,
         Undo, Try, TryPropagate, Contradiction, HashMismatch, Descend, Submit, Cleanup, Exhausted,
         Propagating, Stages
    <3>2. PICK i \in 1..k : Behind(submitted[s], i)
      BY <1>4, <1>k, <2>3, <3>1 DEF Outrun
    <3>3. QED BY <2>1, <2>2, <2>3, <3>2
  <2>4. CASE submitted' = submitted
    BY <1>k, <2>3, <2>4 DEF Outrun
  <2>5. CASE Submit
    <3>1. /\ submitted' = Append(submitted, rowBits) /\ frames' = frames /\ cells' = cells
          /\ pc = "result" /\ pc' = "loop"
      BY <1>4, <2>5 DEF Submit, Searching, store
    <3>2. rowBits \in SUBSET Cells /\ rowBits = {x \in Cells : cells[x] = 1}
      BY DEF StoreTypeOK, StatsExact
    <3>3. Len(submitted') = n + 1 /\ submitted'[n + 1] = rowBits
      BY <1>0, <1>k, <3>1, <3>2
    <3>4. k \in 1..k /\ Holds(k)
      BY <1>k, <1>s, <3>1 DEF Stages, FramesHold, Searching
    <3>5. Tried(k)' = frames[k].nextValue /\ frames'[k] = frames[k]
      BY <1>k, <3>1 DEF Tried
    <3>7. PICK m : m = rowBits
      OBVIOUS
    <3>8. Behind(m, k)'
      BY <1>s, <3>1, <3>2, <3>4, <3>5, <3>7 DEF Behind, Holds
    <3>9. submitted'[n + 1] = m
      BY <3>3, <3>7
    <3>10. Behind(submitted[n + 1], k)'
      BY <3>8, <3>9 DEF Behind
    <3>11. ASSUME NEW s \in 1..(n + 1), frames' # <<>> PROVE \E i \in 1..Len(frames') : Behind(submitted[s], i)'
      <4>1. CASE s = n + 1
        BY <1>k, <3>1, <3>4, <3>10, <4>1
      <4>2. CASE s \in 1..n
        BY <2>3, <3>11, <4>2
      <4>3. QED BY <3>11, <4>1, <4>2
    <3>12. QED BY <3>3, <3>11 DEF Outrun
  <2>6. QED BY <2>1, <2>4, <2>5
<1>5. QED BY <1>1, <1>2, <1>3, <1>4

\* A candidate comes after those the search has left behind.
LEMMA LexOrderStep ==
  ASSUME Typing, Typing', StoreTypeOK, StatsExact, Stages, FramesHold, Outrun, LexOrder, [Next]_vars
  PROVE  LexOrder'
<1> USE DEF vars, engine, input, brancher, output
<1>0. submitted \in Seq(SUBSET Cells)
  BY DEF Typing
<1>1. CASE submitted' = submitted
  BY <1>1 DEF LexOrder
<1>2. CASE Submit
  <2>1. PICK n \in Nat : n = Len(submitted)
    BY <1>0
  <2>2. rowBits \in SUBSET Cells /\ rowBits = {x \in Cells : cells[x] = 1}
    BY DEF StoreTypeOK, StatsExact
  <2>3. submitted' = Append(submitted, rowBits) /\ pc = "result" /\ frames # <<>>
    BY <1>2 DEF Submit, Stages
  <2>4. /\ DOMAIN submitted = 1..n /\ DOMAIN submitted' = 1..(n + 1)
        /\ submitted'[n + 1] = rowBits /\ \A s \in 1..n : submitted'[s] = submitted[s]
    BY <1>0, <2>1, <2>2, <2>3
  <2>5. ASSUME NEW s \in 1..n PROVE LexLess(submitted[s], rowBits)
    <3>1. PICK i \in 1..Len(frames) : Behind(submitted[s], i)
      BY <2>1, <2>3, <2>5 DEF Outrun, Searching
    <3>2. frames[i].cell \in Cells /\ Holds(i)
      BY <2>3, FrameShape DEF FramesHold, Searching
    <3>3. Tried(i) = frames[i].nextValue - 1
      BY <2>3 DEF Tried
    <3>4. frames[i].nextValue = 2 /\ frames[i].cell \notin submitted[s]
      BY <3>1, <3>2, <3>3 DEF Behind, Holds
    <3>5. frames[i].cell \in rowBits
      BY <2>2, <3>2, <3>4 DEF Holds
    <3>6. submitted[s] \in SUBSET Cells
      BY <1>0, <2>1, <2>5
    <3>7. ASSUME NEW y \in ((submitted[s] \ rowBits) \cup (rowBits \ submitted[s])) \ {frames[i].cell}
          PROVE  Before(frames[i].cell, y)
      <4>1. y \in Cells /\ (y \in submitted[s]) # (y \in rowBits)
        BY <2>2, <3>6, <3>7
      <4>2. ~Before(y, frames[i].cell)
        BY <2>2, <3>1, <4>1 DEF Behind
      <4>3. QED BY <3>2, <3>7, <4>1, <4>2, BeforeOrder
    <3>8. IsFirst(frames[i].cell, (submitted[s] \ rowBits) \cup (rowBits \ submitted[s]))
      BY <3>4, <3>5, <3>7 DEF IsFirst
    <3>9. QED BY <3>5, <3>8 DEF LexLess
  <2>6. ASSUME NEW s \in 1..(n + 1), NEW t \in 1..(n + 1), s < t
        PROVE  LexLess(submitted'[s], submitted'[t])
    <3>1. s \in 1..n
      BY <2>6
    <3>2. CASE t = n + 1
      BY <2>4, <2>5, <3>1, <3>2
    <3>3. CASE t # n + 1
      <4>1. t \in 1..n
        BY <2>6, <3>3
      <4>2. QED BY <2>4, <2>6, <3>1, <4>1 DEF LexOrder
    <3>4. QED BY <3>2, <3>3
  <2>7. QED BY <2>4, <2>6 DEF LexOrder
<1>3. QED
  BY <1>1, <1>2 DEF Next, Start, InitialInfeasible, InitialSolved, InitialBranch, Undo, Pop, Try, TryPropagate,
     Contradiction, HashMismatch, Descend, Cleanup, Exhausted, Propagating

-------------------------------------------------------------------------------
\* The lines that wait and the line that is forced are lines.
LinesTyped ==
  /\ original \in Matrices
  /\ work \in Seq(Lines)
  /\ forcing.value # Unassigned => forcing.line \in Lines
  /\ prop \in {"idle", "run", "feasible", "infeasible"}

\* Propagation only ever sees lines.
LEMMA LinesTypedStep == Typing /\ Stages /\ LinesTyped /\ [Next]_vars => LinesTyped'
<1> SUFFICES ASSUME Typing, Stages, LinesTyped, [Next]_vars PROVE LinesTyped'
  OBVIOUS
<1> USE DEF LinesTyped, vars, engine, input, brancher, output
<1>1. CASE Start
  <2>1. BasicLines \in Seq(Lines) /\ BasicLines \o LinesOfType("ltp1") \o LinesOfType("ltp2") \in Seq(Lines)
    BY LinesInOrder DEF BasicLines, LineTypes
  <2>2. /\ work' \in Seq(Lines) /\ forcing' = NotForcing /\ prop' = "run" /\ original' = original
    BY <1>1, <2>1 DEF Start, Propagate
  <2>3. QED BY <2>2 DEF NotForcing
<1>2. CASE TryPropagate
  <2>1. Top.cell \in Cells
    BY <1>2, FrameShape DEF TryPropagate, Top, Stages
  <2>2. \/ work' = work /\ forcing' = forcing
        \/ work' = LinesForCell(Top.cell) /\ forcing' = NotForcing
    BY <1>2 DEF TryPropagate, TryPropagateCell, Propagate
  <2>3. prop' \in {"idle", "run", "feasible", "infeasible"} /\ original' = original
    BY <1>2 DEF TryPropagate, TryPropagateCell, Propagate
  <2>4. QED BY <2>1, <2>2, <2>3, LinesForCellTyped DEF NotForcing
<1>3. CASE Propagating
  <2>1. CASE PopViolated
    BY <1>3, <2>1 DEF Propagating, PopViolated, NotForcing
  <2>2. CASE PopLine
    <3>1. Head(work) \in Lines /\ Tail(work) \in Seq(Lines)
      BY <2>2 DEF PopLine
    <3>2. forcing'.value # Unassigned => forcing'.line \in Lines
      BY <2>2, <3>1 DEF PopLine, NotForcing
    <3>3. QED BY <1>3, <2>2, <3>1, <3>2 DEF Propagating, PopLine
  <2>3. CASE ForceCell
    <3> DEFINE unlessQueued(l) == IF l \in queued THEN <<>> ELSE <<l>>
    <3>1. PICK x \in Cells :
            work' = work \o unlessQueued(LinesForCell(x)[1]) \o unlessQueued(LinesForCell(x)[2])
                         \o unlessQueued(LinesForCell(x)[3]) \o unlessQueued(LinesForCell(x)[4])
                         \o unlessQueued(LinesForCell(x)[5]) \o unlessQueued(LinesForCell(x)[6])
      BY <2>3 DEF ForceCell
    <3>2. \A i \in 1..6 : unlessQueued(LinesForCell(x)[i]) \in Seq(Lines)
      BY LinesForCellTyped
    <3> HIDE DEF unlessQueued
    <3>3. work' \in Seq(Lines)
      BY <3>1, <3>2
    <3>4. QED BY <1>3, <2>3, <3>3 DEF Propagating, ForceCell
  <2>4. CASE Quiesce
    BY <1>3, <2>4 DEF Propagating, Quiesce, NotForcing
  <2>5. QED BY <1>3, <2>1, <2>2, <2>3, <2>4 DEF Propagating, EngineStep
<1>4. ASSUME InitialInfeasible \/ InitialSolved \/ InitialBranch \/ Undo \/ Pop \/ Try \/ Contradiction
             \/ HashMismatch \/ Descend \/ Submit \/ Cleanup \/ Exhausted \/ UNCHANGED vars
      PROVE  UNCHANGED <<original, work, forcing, prop>>
  BY <1>4 DEF InitialInfeasible, InitialSolved, InitialBranch, Undo, Pop, Try, Contradiction, HashMismatch,
     Descend, Submit, Cleanup, Exhausted
<1>5. CASE UNCHANGED <<original, work, forcing, prop>>
  BY <1>5
<1>6. QED BY <1>1, <1>2, <1>3, <1>4, <1>5 DEF Next

\* While a line's cells are forced, its residual still says to force them.
ForcingRight ==
  GenuineSums /\ prop = "run" /\ forcing.value # Unassigned =>
    Residual(forcing.line) = IF forcing.value = 0 THEN 0 ELSE unknown[forcing.line]

\* The cross-sums of a genuine payload count the compressed matrix.
LEMMA GenuineTarget ==
  ASSUME GenuineSums, NEW l \in Lines
  PROVE  target[l] = Cardinality({x \in CellsOn[l] : original[x] = 1})
BY DEF GenuineSums, BlockOf

\* What a line's residual says of the compressed matrix, when the store agrees
\* with it.
LEMMA ResidualSays ==
  ASSUME StatsExact, StoreTypeOK, LinesTyped, GenuineSums, AgreesOn(original, Cells), NEW l \in Lines
  PROVE  /\ ~Violated(l)
         /\ Residual(l) = 0 => \A x \in UnknownOn(l) : original[x] = 0
         /\ Residual(l) = unknown[l] => \A x \in UnknownOn(l) : original[x] = 1
<1>1. original \in [Cells -> {0, 1}]
  BY DEF LinesTyped, Matrices
<1>2. \A x \in CellsOn[l] : cells[x] \in {original[x], Unassigned}
  BY DEF AgreesOn, CellsOn
<1>3. PICK rest : rest = Cardinality({x \in CellsOn[l] : original[x] = 1}) - ones[l]
  OBVIOUS
<1>4. Residual(l) = rest
  BY <1>3, GenuineTarget DEF Residual
<1>5. /\ rest \in 0..unknown[l]
      /\ rest = 0 => \A x \in UnknownOn(l) : original[x] = 0
      /\ rest = unknown[l] => \A x \in UnknownOn(l) : original[x] = 1
  BY <1>1, <1>2, <1>3, AgreeingCounts
<1>6. unknown[l] \in Nat
  BY DEF StoreTypeOK
<1>7. ~Violated(l)
  BY <1>4, <1>5, <1>6 DEF Violated
<1>8. QED BY <1>4, <1>5, <1>7

\* The search waits for the result of propagation.
Waiting == pc \in {"initial", "result"}

\* A forced cell is what the compressed matrix has there, and no line the matrix
\* extends is called violated.
LEMMA SoundForcingStep ==
  ASSUME Typing, Typing', Stages, PropagationPlaces, StoreTypeOK, StatsExact, LinesTyped, LinesTyped',
         ForcingRight, SoundForcing, [Next]_vars
  PROVE  (ForcingRight /\ SoundForcing)'
<1> USE DEF vars, engine, input, brancher, output
<1>0. GenuineSums' = GenuineSums /\ target' = target /\ original' = original
  <2>1. target' = target /\ original' = original /\ hash' = hash
    BY DEF Next, Start, InitialInfeasible, InitialSolved, InitialBranch, Undo, Pop, Try, TryPropagate,
       Contradiction, HashMismatch, Descend, Submit, Cleanup, Exhausted, Propagating
  <2>2. QED BY <2>1 DEF GenuineSums, BlockOf
<1>1. CASE ~GenuineSums
  BY <1>0, <1>1 DEF ForcingRight, SoundForcing
<1>2. CASE GenuineSums /\ (Start \/ TryPropagate)
  <2>1. forced' = <<>> /\ cells' = cells /\ (prop' = "run" => forcing' = NotForcing)
    BY <1>2 DEF Start, TryPropagate, TryPropagateCell, Propagate, store
  <2>2. ForcingRight'
    BY <2>1 DEF ForcingRight, NotForcing
  <2>3. Range(forced') = {}
    BY <2>1 DEF Range
  <2>4. ASSUME AgreesOn(original, Cells), prop' = "infeasible" PROVE FALSE
    <3>1. TryPropagate /\ Top.cell \in Cells
      BY <1>2, <2>4, FrameShape DEF Start, Propagate, TryPropagate, Top, Stages
    <3>2. \E l \in Range(LinesForCell(Top.cell)) : Violated(l)
      BY <2>4, <3>1 DEF TryPropagate, TryPropagateCell, Propagate
    <3>3. \A l \in Range(LinesForCell(Top.cell)) : l \in Lines
      BY <3>1, LinesForCellTyped
    <3>4. QED BY <1>2, <2>4, <3>2, <3>3, ResidualSays
  <2>5. SoundFor(original)'
    BY <1>0, <2>1, <2>3, <2>4 DEF SoundFor, AgreesOn
  <2>6. QED BY <1>0, <2>2, <2>5 DEF SoundForcing
<1>3. CASE GenuineSums /\ Propagating /\ ForceCell
  <2>1. PICK x \in Cells : IsFirst(x, ToForce) /\ Assign(x, forcing.value) /\ forced' = Append(forced, x)
    BY <1>3 DEF ForceCell
  <2>2. /\ x \in UnknownOn(forcing.line) /\ cells[x] = Unassigned /\ forcing.value \in {0, 1}
        /\ forcing.line \in Lines /\ x \in CellsOn[forcing.line]
    BY <2>1 DEF IsFirst, ToForce, UnknownOn, Typing, LinesTyped, CellState, Unassigned
  <2>3. prop = "run" /\ prop' = "run" /\ forcing' = forcing /\ Waiting /\ pc' = pc
    BY <1>3 DEF ForceCell, Propagating, PropagationPlaces, Waiting
  <2>4. Residual(forcing.line) = IF forcing.value = 0 THEN 0 ELSE unknown[forcing.line]
    BY <1>3, <2>2, <2>3 DEF ForcingRight, Unassigned
  <2>5. ForcingRight'
    <3>1. PICK l \in Lines : l = forcing.line
      BY <2>2
    <3>2. /\ unknown'[l] = unknown[l] - 1
          /\ ones'[l] = IF forcing.value # 0 THEN ones[l] + 1 ELSE ones[l]
      BY <2>1, <2>2, <3>1 DEF Assign
    <3>3. unknown[l] \in Nat /\ ones[l] \in Nat
      BY <3>1 DEF StoreTypeOK
    <3>4. target[l] \in Int
      <4>1. target[l] = Cardinality({y \in CellsOn[l] : original[y] = 1})
        BY <1>3, GenuineTarget
      <4>2. IsFiniteSet({y \in CellsOn[l] : original[y] = 1})
        BY FiniteCells
      <4>3. QED BY <4>1, <4>2, FS_CardinalityType
    <3>5. target[l] - ones[l] = IF forcing.value = 0 THEN 0 ELSE unknown[l]
      BY <2>4, <3>1 DEF Residual
    <3>6. target[l] - ones'[l] = IF forcing.value = 0 THEN 0 ELSE unknown'[l]
      BY <2>2, <3>2, <3>3, <3>4, <3>5
    <3>7. QED BY <1>0, <2>3, <3>1, <3>6 DEF ForcingRight, Residual
  <2>6. cells'[x] = forcing.value /\ \A y \in Cells \ {x} : cells'[y] = cells[y]
    BY <2>1, <2>2, AssignEffect
  <2>7. Range(forced') = Range(forced) \cup {x}
    <3>1. PICK n \in Nat : n = Len(forced)
      BY DEF Typing
    <3>2. /\ DOMAIN forced = 1..n /\ DOMAIN forced' = 1..(n + 1)
          /\ forced'[n + 1] = x /\ \A p \in 1..n : forced'[p] = forced[p]
      BY <2>1, <3>1 DEF Typing
    <3>3. \A p \in 1..(n + 1) : p \in 1..n \/ p = n + 1
      BY <3>1
    <3>4. \A p \in 1..n : p \in 1..(n + 1)
      BY <3>1
    <3>5. n + 1 \in 1..(n + 1)
      BY <3>1
    <3>6. \A y : y \in Range(forced') <=> y \in Range(forced) \cup {x}
      BY <3>2, <3>3, <3>4, <3>5 DEF Range
    <3>7. QED BY <3>6
  <2>8. ASSUME AgreesOn(original, Cells \ Range(forced))' PROVE AgreesOn(original, Cells)'
    <3>1. AgreesOn(original, Cells \ Range(forced))
      BY <1>0, <2>2, <2>6, <2>7, <2>8 DEF AgreesOn
    <3>2. AgreesOn(original, Cells)
      BY <1>3, <2>3, <3>1 DEF SoundForcing, SoundFor, Waiting
    <3>3. original[x] = forcing.value
      BY <1>3, <2>2, <2>4, <3>2, ResidualSays
    <3>4. QED BY <1>0, <2>6, <3>2, <3>3 DEF AgreesOn
  <2>9. SoundForcing'
    BY <2>3, <2>8 DEF SoundForcing, SoundFor
  <2>10. QED BY <2>5, <2>9
<1>4. CASE GenuineSums /\ Propagating /\ (PopViolated \/ PopLine \/ Quiesce)
  <2>1. prop = "run" /\ Waiting /\ pc' = pc /\ forced' = forced /\ UNCHANGED store
    BY <1>4 DEF Propagating, PopViolated, PopLine, Quiesce, PropagationPlaces, Waiting
  <2>2. ForcingRight'
    <3>1. CASE PopViolated \/ Quiesce
      BY <3>1 DEF PopViolated, Quiesce, ForcingRight
    <3>2. CASE PopLine
      <4>1. CASE ~Forces(Head(work))
        BY <3>2, <4>1 DEF PopLine, ForcingRight, NotForcing
      <4>2. CASE Forces(Head(work))
        <5>1. PICK l : l = Head(work)
          OBVIOUS
        <5>2. forcing' = [line |-> l, value |-> IF Residual(l) = 0 THEN 0 ELSE 1]
          BY <3>2, <4>2, <5>1 DEF PopLine
        <5>3. Residual(l)' = Residual(l) /\ unknown' = unknown
          BY <1>0, <2>1 DEF Residual, store
        <5>4. Residual(l) = 0 \/ Residual(l) = unknown[l]
          BY <4>2, <5>1 DEF Forces
        <5>5. forcing'.line = l /\ forcing'.value = IF Residual(l) = 0 THEN 0 ELSE 1
          BY <5>2
        <5>6. target'[l] - ones'[l] = IF forcing'.value = 0 THEN 0 ELSE unknown'[l]
          BY <5>3, <5>4, <5>5 DEF Residual
        <5>7. QED BY <5>5, <5>6 DEF ForcingRight, Residual
      <4>3. QED BY <4>1, <4>2
    <3>3. QED BY <1>4, <3>1, <3>2
  <2>3. ASSUME AgreesOn(original, Cells), prop' = "infeasible" PROVE FALSE
    <3>1. PopViolated
      BY <1>4, <2>1, <2>3 DEF PopLine, Quiesce
    <3>2. Head(work) \in Lines /\ Violated(Head(work))
      BY <3>1 DEF PopViolated, LinesTyped
    <3>3. QED BY <1>4, <2>3, <3>2, ResidualSays
  <2>4. AgreesOn(original, Cells \ Range(forced)) => AgreesOn(original, Cells)
    BY <1>4, <2>1 DEF SoundForcing, SoundFor, Waiting
  <2>5. SoundFor(original)'
    BY <1>0, <2>1, <2>3, <2>4 DEF SoundFor, AgreesOn, store
  <2>6. QED BY <2>2, <2>5 DEF SoundForcing
<1>5. CASE Undo \/ Pop \/ Try \/ Contradiction \/ HashMismatch \/ Descend \/ Submit \/ Cleanup \/ Exhausted
           \/ InitialInfeasible \/ InitialSolved \/ InitialBranch
  <2>1. pc' \notin {"initial", "result"} /\ prop' # "run"
    <3>1. pc' \notin {"initial", "result"}
      BY <1>5 DEF InitialInfeasible, InitialSolved, InitialBranch, Undo, Pop, Try, Contradiction, HashMismatch,
         Descend, Submit, Cleanup, Exhausted
    <3>2. prop' # "run"
      BY <3>1, StageStep DEF PropagationPlaces
    <3>3. QED BY <3>1, <3>2
  <2>2. QED BY <2>1 DEF ForcingRight, SoundForcing
<1>6. CASE UNCHANGED vars
  BY <1>0, <1>6 DEF ForcingRight, SoundForcing, SoundFor, AgreesOn, Residual, store
<1>7. QED
  BY <1>1, <1>2, <1>3, <1>4, <1>5, <1>6 DEF Next, Propagating, EngineStep

-------------------------------------------------------------------------------
\* The inductive invariant of the search.
Invariant ==
  /\ Typing /\ Stages /\ PropagationPlaces
  /\ StoreTypeOK /\ StatsExact
  /\ Recorded /\ HintSound
  /\ FramesHold /\ FramesNest /\ PathClosed
  /\ Outrun /\ LexOrder
  /\ LinesTyped /\ ForcingRight /\ SoundForcing

\* The invariant holds at the start and is kept by every step.
LEMMA InvariantInit == Init => Invariant
<1> SUFFICES ASSUME Init PROVE Invariant
  OBVIOUS
<1> USE DEF Init, EngineInit, BranchingInit
<1>1. StoreTypeOK /\ StatsExact
  BY InitExact
<1>2. Typing
  BY kSAssumption DEF Typing, NotForcing, CellState, Index
<1>3. Stages /\ PropagationPlaces /\ ~Searching
  BY DEF Stages, PropagationPlaces, Searching
<1>4. Recorded
  <2>1. Trail = <<>>
    BY DEF Trail, Fresh
  <2>2. Len(Trail) = 0
    BY <2>1
  <2>3. QED BY <2>2 DEF Recorded
<1>5. HintSound
  <2>1. \A x \in Cells : ~(x[1] < 0)
    BY CellParts, kSAssumption DEF Index
  <2>2. QED BY <2>1 DEF HintSound
<1>6. FramesHold /\ FramesNest /\ PathClosed /\ Outrun
  BY <1>3 DEF FramesHold, FramesNest, PathClosed, Outrun
<1>7. LexOrder
  <2>1. DOMAIN submitted = {}
    <3>1. submitted = <<>>
      OBVIOUS
    <3>2. QED BY <3>1
  <2>2. QED BY <2>1 DEF LexOrder
<1>8. LinesTyped
  BY BlocksAssumption DEF LinesTyped, NotForcing
<1>9. ForcingRight /\ SoundForcing
  BY DEF ForcingRight, SoundForcing
<1>10. QED BY <1>1, <1>2, <1>3, <1>4, <1>5, <1>6, <1>7, <1>8, <1>9 DEF Invariant

LEMMA InvariantStep == Invariant /\ [Next]_vars => Invariant'
<1> SUFFICES ASSUME Invariant, [Next]_vars PROVE Invariant'
  OBVIOUS
<1> USE DEF Invariant
<1>1. Typing'               BY TypingStep
<1>2. (Stages /\ PropagationPlaces)' BY StageStep
<1>3. (StoreTypeOK /\ StatsExact /\ Recorded)' BY StoreStep
<1>4. FramesHold'           BY <1>1, FramesHoldStep
<1>5. FramesNest'           BY FramesNestStep
<1>6. PathClosed'           BY <1>1, PathClosedStep
<1>7. HintSound'            BY <1>1, HintStep
<1>8. Outrun'               BY <1>1, <1>6, OutrunStep
<1>9. LexOrder'             BY <1>1, LexOrderStep
<1>10. LinesTyped'          BY LinesTypedStep
<1>11. (ForcingRight /\ SoundForcing)' BY <1>1, <1>10, SoundForcingStep
<1>12. QED BY <1>1, <1>2, <1>3, <1>4, <1>5, <1>6, <1>7, <1>8, <1>9, <1>10, <1>11

LEMMA AlwaysInvariant == Spec => []Invariant
BY InvariantInit, InvariantStep, PTL DEF Spec

\* At every moment of every search, through all undos and leaks, the incremental
\* counters and the row bits say what the cells say.
THEOREM CountsExact == Spec => []StatsExact
<1>1. Invariant => StatsExact
  BY DEF Invariant
<1>2. QED BY <1>1, AlwaysInvariant, PTL

\* The search implements the store's discipline: it assigns only unassigned cells
\* and unassigns only assigned ones.
THEOREM SearchUsesStore == Spec => StoreSpec
<1>1. Init => StoreInit
  BY DEF Init
<1>2. Invariant /\ [Next]_vars => [StoreAssign \/ StoreUnassign]_store
  <2>1. ASSUME Invariant, [Next]_vars PROVE StoreAssign \/ StoreUnassign \/ UNCHANGED store
    BY <2>1, StoreStep DEF Invariant
  <2>2. QED BY <2>1
<1>3. QED BY <1>1, <1>2, AlwaysInvariant, PTL DEF Spec, StoreSpec

\* Hint, undo stack and frames agree with the store: backtracking restores what
\* it left.
THEOREM BacktrackingExact == Spec => []BacktrackingSound
<1>1. ASSUME Invariant PROVE BacktrackingSound
  <2> USE <1>1 DEF Invariant
  <2>1. UndoStackSound
    <3>1. undoStack \in Seq(Cells) /\ Trail \in Seq(Cells) /\ DOMAIN undoStack = 1..Len(undoStack)
      BY TrailShape DEF Typing
    <3>2. \A p \in 1..Len(undoStack) : p \in 1..Len(Trail) /\ Trail[p] = undoStack[p]
      BY <3>1, TrailShape
    <3>3. \A p \in 1..Len(undoStack) : cells[undoStack[p]] # Unassigned
      BY <3>2 DEF Recorded
    <3>4. \A p, q \in 1..Len(undoStack) : p # q => undoStack[p] # undoStack[q]
      BY <3>2 DEF Recorded
    <3>5. QED BY <3>1, <3>3, <3>4 DEF UndoStackSound, Range
  <2>2. FramesMatchStore
    <3>1. ASSUME Searching, NEW i \in 1..(Len(frames) - 1)
          PROVE  /\ cells[frames[i].cell] = frames[i].nextValue - 1
                 /\ undoStack[frames[i].token + 1] = frames[i].cell
                 /\ Before(frames[i].cell, frames[i + 1].cell)
      <4>1. i \in 1..Len(frames) /\ i + 1 \in 1..Len(frames) /\ i < i + 1 /\ i < Len(frames)
        BY <3>1, FrameShape
      <4>2. Holds(i)
        BY <3>1, <4>1 DEF FramesHold
      <4>3. QED BY <3>1, <4>1, <4>2 DEF Holds, FramesNest
    <3>2. pc = "loop" /\ frames # <<>> /\ ~ToUndo => cells[Top.cell] = Unassigned
      BY DEF FramesHold, Searching
    <3>3. QED BY <3>1, <3>2 DEF FramesMatchStore, Searching
  <2>3. QED BY <2>1, <2>2 DEF BacktrackingSound
<1>2. QED BY <1>1, AlwaysInvariant, PTL

\* The candidates come in strictly increasing lexicographic order, none twice: a
\* DI names the same matrix for the compressor and the decompressor.
THEOREM Lexicographic == Spec => []LexOrder
<1>1. Invariant => LexOrder
  BY DEF Invariant
<1>2. QED BY <1>1, AlwaysInvariant, PTL

\* Propagation from an assignment the compressed matrix extends forces only that
\* matrix's values and never calls the assignment infeasible.
THEOREM PropagationNeverLies == Spec => []SoundForcing
<1>1. Invariant => SoundForcing
  BY DEF Invariant
<1>2. QED BY <1>1, AlwaysInvariant, PTL
-------------------------------------------------------------------------------

\* The leaked cells are the assigned ones that are not on the trail.
OffTrail ==
  \A y : y \in Leaked <=> y \in Cells /\ cells[y] # Unassigned /\ \A p \in 1..Len(Trail) : Trail[p] # y

LEMMA TrailLeaked == Typing => OffTrail
<1> SUFFICES ASSUME Typing, NEW y
             PROVE  y \in Leaked <=>
                      y \in Cells /\ cells[y] # Unassigned /\ \A p \in 1..Len(Trail) : Trail[p] # y
  BY DEF OffTrail
<1>1. undoStack \in Seq(Cells) /\ Fresh \in Seq(Cells) /\ forced \in Seq(Cells)
  BY DEF Typing, Fresh
<1>2. y \in Range(undoStack) <=> \E p \in 1..Len(undoStack) : undoStack[p] = y
  BY <1>1, RangeOf
<1>3. y \in (IF pc \in {"initial", "result"} THEN Range(forced) ELSE {}) <=> \E p \in 1..Len(Fresh) : Fresh[p] = y
  <2>1. CASE pc \in {"initial", "result"}
    BY <1>1, <2>1, RangeOf DEF Fresh
  <2>2. CASE pc \notin {"initial", "result"}
    <3>1. Fresh = <<>> /\ Len(Fresh) = 0
      BY <2>2 DEF Fresh
    <3>2. QED BY <2>2, <3>1
  <2>3. QED BY <2>1, <2>2
<1>4. PICK n \in Nat, k \in Nat : n = Len(undoStack) /\ k = Len(Fresh)
  BY <1>1
<1>5. /\ Len(Trail) = n + k
      /\ \A p \in 1..n : Trail[p] = undoStack[p]
      /\ \A p \in 1..k : Trail[n + p] = Fresh[p]
  BY <1>1, <1>4 DEF Trail
<1>6. ASSUME NEW p \in 1..(n + k) PROVE p \in 1..n \/ \E q \in 1..k : p = n + q
  <2>1. CASE p > n
    <3>1. p - n \in 1..k /\ p = n + (p - n)
      BY <2>1
    <3>2. QED BY <3>1
  <2>2. QED BY <2>1
<1>7. (\E p \in 1..(n + k) : Trail[p] = y) <=> (\E p \in 1..n : undoStack[p] = y) \/ (\E p \in 1..k : Fresh[p] = y)
  <2>1. \A p \in 1..n : p \in 1..(n + k)
    OBVIOUS
  <2>2. \A p \in 1..k : n + p \in 1..(n + k)
    OBVIOUS
  <2>3. QED BY <1>5, <1>6, <2>1, <2>2
<1>8. QED BY <1>2, <1>3, <1>4, <1>5, <1>7 DEF Leaked

LEMMA TrailLeakedNext == Typing' => OffTrail'
BY TrailLeaked, PTL

\* What leaked stays: only the trail is taken back, and only a free cell joins it.
LEMMA LeakedStays ==
  ASSUME Typing, Typing', Stages, PropagationPlaces, FramesHold, Recorded, StoreTypeOK, [Next]_vars
  PROVE  Leaked \subseteq Leaked'
<1>0. Trail \in Seq(Cells) /\ Trail' \in Seq(Cells)
  <2>1. Trail \in Seq(Cells)
    BY TrailShape
  <2>2. Trail' \in Seq(Cells)
    BY DEF Typing, Trail, Fresh
  <2>3. QED BY <2>1, <2>2
<1>1. SUFFICES ASSUME NEW y \in Cells, cells[y] # Unassigned, \A p \in 1..Len(Trail) : Trail[p] # y,
                      y \notin Leaked'
               PROVE  FALSE
  BY TrailLeaked DEF OffTrail
<1>2. ASSUME cells'[y] # Unassigned, \A p \in 1..Len(Trail') : Trail'[p] # y PROVE FALSE
  BY <1>1, <1>2, TrailLeakedNext DEF OffTrail
<1>3. CASE Grow
  <2>1. PICK x \in Cells, v \in {0, 1} : cells[x] = Unassigned /\ Assign(x, v) /\ Trail' = Append(Trail, x)
    BY <1>3 DEF Grow
  <2>2. y # x /\ cells'[y] = cells[y]
    BY <1>1, <2>1, AssignEffect
  <2>3. \A p \in 1..Len(Trail') : Trail'[p] = x \/ (p \in 1..Len(Trail) /\ Trail'[p] = Trail[p])
    BY <1>0, <2>1
  <2>4. QED BY <1>1, <1>2, <2>2, <2>3
<1>4. CASE Shrink
  <2>1. Trail' = SubSeq(Trail, 1, Len(Trail) - 1) /\ Trail # <<>>
    BY <1>4 DEF Shrink
  <2>2. PICK n \in Nat : n = Len(Trail)
    BY <1>0
  <2>3. n \in 1..n /\ Len(Trail') = n - 1 /\ \A p \in 1..(n - 1) : Trail'[p] = Trail[p]
    BY <1>0, <2>1, <2>2, ButLast
  <2>4. cells'[y] = cells[y]
    BY <1>1, <1>4, <2>2, <2>3, ShrinkCell, UnassignEffect
  <2>5. QED BY <1>1, <1>2, <2>2, <2>3, <2>4
<1>5. CASE Keep
  <2>1. \A p \in 1..Len(Trail') : p \in 1..Len(Trail) /\ Trail'[p] = Trail[p]
    BY <1>0, <1>5 DEF Keep
  <2>2. QED BY <1>1, <1>2, <1>5, <2>1 DEF Keep, store
<1>6. QED BY <1>3, <1>4, <1>5, Moves

-------------------------------------------------------------------------------
\* Between a value's assignment and the result of its propagation the undo stack
\* ends with the frame's own cell.
TopLast == pc \in {"try", "result"} => Len(undoStack) = Top.token + 1

\* Nothing is recorded before the search proper; matrices are given out.
Beginning ==
  /\ pc \in {"start", "initial"} => undoStack = <<>>
  /\ yielded \in Seq(SUBSET Cells)

LEMMA BeginningStep ==
  ASSUME Typing, StoreTypeOK, Stages, PropagationPlaces, TopLast, Beginning, [Next]_vars
  PROVE  (TopLast /\ Beginning)'
<1> USE DEF vars, engine, input, brancher, output
<1>1. CASE Try
  <2>1. PICK k \in Nat : k = Len(frames)
    BY FrameShape
  <2>2. k \in 1..k /\ frames \in Seq(Frame) /\ undoStack \in Seq(Cells)
    BY <1>1, <2>1, FrameShape DEF Try, Typing
  <2>3. frames' = [frames EXCEPT ![k] = [cell |-> frames[k].cell, nextValue |-> frames[k].nextValue + 1,
                                         token |-> Len(undoStack)]]
    BY <1>1, <2>1 DEF Try, Top
  <2>4. Len(frames') = k /\ frames'[k].token = Len(undoStack)
    BY <2>1, <2>2, <2>3
  <2>5. undoStack' = Append(undoStack, Top.cell) /\ pc' = "try" /\ yielded' = yielded
    BY <1>1 DEF Try
  <2>6. Len(undoStack') = Len(undoStack) + 1
    BY <2>2, <2>5
  <2>7. QED BY <2>4, <2>5, <2>6 DEF TopLast, Beginning, Top
<1>2. CASE TryPropagate \/ Propagating
  <2>1. /\ UNCHANGED <<undoStack, frames, yielded>>
        /\ pc' = pc \/ (pc = "try" /\ pc' = "result")
    BY <1>2 DEF TryPropagate, Propagating
  <2>2. QED BY <2>1 DEF TopLast, Beginning, Top
<1>3. CASE Start
  BY <1>3 DEF Start, TopLast, Beginning
<1>4. CASE InitialSolved
  BY <1>4 DEF InitialSolved, StoreTypeOK, TopLast, Beginning
<1>5. CASE InitialInfeasible \/ InitialBranch \/ Undo \/ Pop \/ Contradiction \/ HashMismatch \/ Descend
           \/ Submit \/ Cleanup \/ Exhausted
  <2>1. yielded' = yielded
    BY <1>5 DEF InitialInfeasible, InitialBranch, Undo, Pop, Contradiction, HashMismatch, Descend, Submit,
       Cleanup, Exhausted
  <2>2. pc' \notin {"try", "result", "start", "initial"}
    BY <1>5 DEF InitialInfeasible, InitialBranch, Undo, Pop, Contradiction, HashMismatch, Descend, Submit,
       Cleanup, Exhausted
  <2>3. QED BY <2>1, <2>2 DEF TopLast, Beginning
<1>6. CASE UNCHANGED vars
  BY <1>6 DEF TopLast, Beginning, Top
<1>7. QED BY <1>1, <1>2, <1>3, <1>4, <1>5, <1>6 DEF Next

\* The parts of the search's invariant that follow use, of the state and of the
\* next one.
Ground ==
  /\ Typing /\ Stages /\ PropagationPlaces /\ StoreTypeOK /\ StatsExact /\ Recorded /\ HintSound
  /\ FramesHold /\ FramesNest /\ LinesTyped /\ SoundForcing /\ TopLast /\ Beginning

\* How much of the undo stack was there before frame i's value in force, and
\* how many values of frame i the search has turned to and left.
Base(i) == IF frames[i].nextValue = 0 THEN Len(undoStack) ELSE frames[i].token
Left(i) == IF i = Len(frames) /\ pc # "loop" THEN frames[i].nextValue - 1 ELSE frames[i].nextValue

\* The compressed matrix lies ahead of the search at frame i: it extends what was
\* assigned below the frame, and its value of the frame's cell is still to come.
AheadAt(i) ==
  /\ Base(i) <= Len(undoStack)
  /\ \A p \in 1..Base(i) : cells[undoStack[p]] = original[undoStack[p]]
  /\ original[frames[i].cell] >= Left(i)

\* Unless something leaked, a search for a genuine block has found the compressed
\* matrix or has it ahead.
FoundOrAhead ==
  \/ Found
  \/ pc \in {"start", "initial"}
  \/ Searching /\ \E i \in 1..Len(frames) : AheadAt(i)
  \/ pc \in {"cleanup", "ended"} /\ frames # <<>>

Complete == Genuine /\ Leaked = {} => FoundOrAhead

\* When nothing leaked and the undo stack agrees with the compressed matrix,
\* propagation cannot fail, and leaves a store that agrees with it.
LEMMA AgreeingResult ==
  ASSUME Ground, Genuine, Leaked = {}, Waiting,
         \A p \in 1..Len(undoStack) : cells[undoStack[p]] = original[undoStack[p]]
  PROVE  AgreesOn(original, Cells) /\ prop # "infeasible"
<1>1. ASSUME NEW x \in Cells \ Range(forced), cells[x] # Unassigned PROVE cells[x] = original[x]
  <2>1. undoStack \in Seq(Cells) /\ Range(forced) = (IF pc \in {"initial", "result"} THEN Range(forced) ELSE {})
    BY DEF Ground, Typing, Waiting
  <2>2. x \in Range(undoStack)
    BY <1>1, <2>1 DEF Leaked
  <2>3. QED BY <2>1, <2>2, RangeOf
<1>2. AgreesOn(original, Cells \ Range(forced))
  BY <1>1 DEF AgreesOn
<1>3. GenuineSums
  BY DEF Genuine, GenuineSums
<1>4. QED BY <1>2, <1>3 DEF Ground, SoundForcing, SoundFor, Waiting

\* A row that is complete and agrees with the compressed matrix has its hash.
LEMMA AgreeingRow ==
  ASSUME Ground, Genuine, AgreesOn(original, Cells), NEW r \in Index, unknown[RowOf(r)] = 0
  PROVE  verifyRow(r)
<1>1. RowOf(r) \in Lines /\ \A c \in Index : <<r, c>> \in Cells /\ <<r, c>> \in CellsOn[RowOf(r)]
  <2>1. ASSUME NEW c \in Index PROVE <<r, c>> \in Cells /\ RowOf(r) \in Lines /\ <<r, c>> \in CellsOn[RowOf(r)]
    <3>1. <<r, c>> \in Cells
      BY DEF Cells
    <3>2. RowOf(r) = Line("row", LineIndex(<<r, c>>)["row"]) /\ "row" \in LineTypes
      BY DEF RowOf, LineIndex, LineTypes
    <3>3. QED BY <3>1, <3>2, LinesOfCell
  <2>2. 0 \in Index
    BY kSAssumption DEF Index
  <2>3. QED BY <2>1, <2>2
<1>2. UnknownOn(RowOf(r)) = {}
  <2>1. IsFiniteSet(UnknownOn(RowOf(r))) /\ Cardinality(UnknownOn(RowOf(r))) = 0
    BY <1>1, FiniteCells DEF UnknownOn, Ground, StatsExact
  <2>2. QED BY <2>1, FS_EmptySet
<1>3. \A c \in Index : cells[<<r, c>>] = original[<<r, c>>]
  BY <1>1, <1>2 DEF UnknownOn, AgreesOn
<1>4. RowBits(r) = RowOfMatrix(original, r)
  BY <1>1, <1>3 DEF RowBits, RowOfMatrix, Ground, StatsExact
<1>5. lh[r] = Digest(hash, RowOfMatrix(original, r))
  BY DEF Genuine, BlockOf
<1>6. QED BY <1>4, <1>5 DEF verifyRow

\* With nothing open every cell is assigned.
LEMMA NothingOpen ==
  ASSUME Ground, Open = {}, NEW y \in Cells PROVE cells[y] # Unassigned
<1> SUFFICES ASSUME cells[y] = Unassigned PROVE FALSE
  OBVIOUS
<1>1. RowOf(y[1]) \in Lines /\ y \in CellsOn[RowOf(y[1])]
  <2>1. RowOf(y[1]) = Line("row", LineIndex(y)["row"]) /\ "row" \in LineTypes
    BY DEF RowOf, LineIndex, LineTypes
  <2>2. QED BY <2>1, LinesOfCell
<1>2. UnknownOn(RowOf(y[1])) # {} /\ IsFiniteSet(UnknownOn(RowOf(y[1])))
  BY <1>1, FiniteCells DEF UnknownOn
<1>3. unknown[RowOf(y[1])] # 0
  BY <1>1, <1>2, FS_EmptySet DEF Ground, StatsExact
<1>4. y[1] >= minUnassignedRow
  BY kSAssumption, CellParts DEF HintSound, Index, Ground, Typing
<1>5. QED BY <1>3, <1>4 DEF Open

\* A leaf that agrees with the compressed matrix is that matrix.
LEMMA AgreeingLeaf ==
  ASSUME Ground, Open = {}, AgreesOn(original, Cells) PROVE rowBits = Bits(original)
<1>1. \A x \in Cells : cells[x] = original[x]
  BY NothingOpen DEF AgreesOn
<1>2. QED BY <1>1 DEF Ground, StatsExact, Bits

\* The block solved never changes, and what was given out stays given out.
LEMMA InputStays ==
  ASSUME [Next]_vars PROVE UNCHANGED <<original, target, hash, lh, api>> /\ Genuine' = Genuine
<1>1. UNCHANGED <<original, target, hash, lh, api>>
  BY DEF vars, input, Next, Start, InitialInfeasible, InitialSolved, InitialBranch, Undo, Pop, Try, TryPropagate,
     Contradiction, HashMismatch, Descend, Submit, Cleanup, Exhausted, Propagating
<1>2. QED BY <1>1 DEF Genuine, BlockOf

LEMMA FoundStays ==
  ASSUME Ground, Found, [Next]_vars PROVE Found'
<1>0. original' = original /\ submitted \in Seq(SUBSET Cells) /\ yielded \in Seq(SUBSET Cells)
  BY InputStays DEF Ground, Typing, Beginning
<1>1. submitted' = submitted \/ submitted' = Append(submitted, rowBits)
  BY DEF vars, output, Next, Start, InitialInfeasible, InitialSolved, InitialBranch, Undo, Pop, Try, TryPropagate,
     Contradiction, HashMismatch, Descend, Submit, Cleanup, Exhausted, Propagating
<1>2. yielded' = yielded \/ yielded' = Append(yielded, rowBits)
  BY DEF vars, output, Next, Start, InitialInfeasible, InitialSolved, InitialBranch, Undo, Pop, Try, TryPropagate,
     Contradiction, HashMismatch, Descend, Submit, Cleanup, Exhausted, Propagating
<1>3. ASSUME NEW S, NEW s \in Seq(S), NEW x PROVE Range(s) \subseteq Range(Append(s, x))
  <2>1. \A p \in 1..Len(s) : p \in 1..Len(Append(s, x)) /\ Append(s, x)[p] = s[p]
    OBVIOUS
  <2>2. DOMAIN s = 1..Len(s) /\ DOMAIN Append(s, x) = 1..Len(Append(s, x))
    OBVIOUS
  <2>3. QED BY <2>1, <2>2 DEF Range
<1>4. Range(submitted) \subseteq Range(submitted') /\ Range(yielded) \subseteq Range(yielded')
  BY <1>0, <1>1, <1>2, <1>3
<1>5. Bits(original)' = Bits(original)
  BY <1>0 DEF Bits
<1>6. QED BY <1>4, <1>5 DEF Found

\* A frame keeps the compressed matrix ahead while what was assigned below it
\* stays and no more of its values are left.
LEMMA AheadStays ==
  ASSUME Ground, original' = original, NEW i \in 1..Len(frames), AheadAt(i),
         frames'[i].cell = frames[i].cell, Base(i)' = Base(i), Left(i)' \in Int, Left(i)' <= Left(i),
         Base(i) <= Len(undoStack'),
         \A p \in 1..Base(i) : undoStack'[p] = undoStack[p] /\ cells'[undoStack[p]] = cells[undoStack[p]]
  PROVE  AheadAt(i)'
<1>1. frames[i].cell \in Cells /\ frames[i].nextValue \in 0..2
  BY FrameShape DEF Ground
<1>2. original[frames[i].cell] \in {0, 1}
  BY <1>1 DEF Ground, LinesTyped, Matrices
<1>3. Left(i) \in Int
  BY <1>1 DEF Left
<1>4. original[frames[i].cell] >= Left(i)
  BY DEF AheadAt
<1>5. original'[frames'[i].cell] >= Left(i)'
  BY <1>2, <1>3, <1>4
<1>6. Base(i)' <= Len(undoStack')
  OBVIOUS
<1>7. \A p \in 1..Base(i)' : cells'[undoStack'[p]] = original'[undoStack'[p]]
  BY DEF AheadAt
<1>8. QED BY <1>5, <1>6, <1>7 DEF AheadAt

\* The result of a value's propagation is no contradiction when the compressed
\* matrix has that value there: all that is assigned agrees with it.
LEMMA ResultAgrees ==
  ASSUME Ground, Genuine, Leaked = {}, pc = "result", frames # <<>>, AheadAt(Len(frames)),
         original[Top.cell] = Top.nextValue - 1
  PROVE  AgreesOn(original, Cells) /\ prop # "infeasible"
<1>1. PICK k \in Nat : k = Len(frames)
  BY FrameShape DEF Ground
<1>2. k \in 1..k /\ Top = frames[k] /\ Top.cell \in Cells /\ Top.nextValue \in 0..2 /\ Top.token \in Nat
  BY <1>1, FrameShape DEF Ground, Top
<1>3. Holds(k) /\ Len(undoStack) = Top.token + 1
  BY <1>1, <1>2 DEF Ground, FramesHold, Searching, TopLast
<1>4. Base(k) = Top.token
  BY <1>2, <1>3 DEF Base, Holds
<1>5. ASSUME NEW p \in 1..Len(undoStack) PROVE cells[undoStack[p]] = original[undoStack[p]]
  <2>1. CASE p = Len(undoStack)
    BY <1>2, <1>3, <2>1 DEF Holds
  <2>2. CASE p # Len(undoStack)
    <3>1. p \in 1..Base(k)
      BY <1>2, <1>3, <1>4, <2>2
    <3>2. QED BY <1>1, <3>1 DEF AheadAt
  <2>3. QED BY <2>1, <2>2
<1>6. QED BY <1>5, AgreeingResult DEF Waiting

\* Each step of a search that leaks nothing keeps the compressed matrix ahead,
\* or gives it out.
LEMMA CompleteStep ==
  ASSUME Ground, Ground', Complete, [Next]_vars
  PROVE  Complete'
<1> USE DEF vars, engine, input, brancher, output
<1>1. SUFFICES ASSUME Genuine', Leaked' = {}, ~Found' PROVE FoundOrAhead'
  BY DEF Complete, FoundOrAhead
<1>2. Genuine /\ Leaked = {} /\ ~Found /\ original' = original
  <2>1. Leaked \subseteq Leaked'
    BY LeakedStays DEF Ground
  <2>2. QED BY <1>1, <2>1, InputStays, FoundStays
<1>3. FoundOrAhead
  BY <1>2 DEF Complete
<1>4. /\ frames \in Seq(Frame) /\ undoStack \in Seq(Cells) /\ forced \in Seq(Cells) /\ submitted \in Seq(SUBSET Cells)
      /\ yielded \in Seq(SUBSET Cells) /\ frames' \in Seq(Frame)
  BY DEF Ground, Typing, Beginning
<1>k. PICK k \in Nat, n \in Nat : k = Len(frames) /\ n = Len(undoStack)
  BY <1>4
<1>5. /\ \A i \in 1..k : frames[i].cell \in Cells /\ frames[i].nextValue \in 0..2 /\ frames[i].token \in Nat
      /\ frames # <<>> => k \in 1..k
  BY <1>k, FrameShape DEF Ground
<1>6. \A p \in 1..n : undoStack[p] \in Cells /\ cells[undoStack[p]] # Unassigned
  <2>1. \A p \in 1..n : undoStack[p] \in Cells
    BY <1>k, <1>4
  <2>2. \A p \in 1..n : p \in 1..Len(Trail) /\ Trail[p] = undoStack[p]
    BY <1>k, TrailShape DEF Ground
  <2>3. QED BY <2>1, <2>2 DEF Ground, Recorded
<1>7. \A x \in Cells : original[x] \in {0, 1}
  BY DEF Ground, LinesTyped, Matrices
<1>8. CASE Start \/ UNCHANGED vars
  <2>1. CASE Start
    BY <2>1 DEF Start, FoundOrAhead
  <2>2. CASE UNCHANGED vars
    BY <1>3, <2>2 DEF FoundOrAhead, Found, Bits, Searching, AheadAt, Base, Left, store
  <2>3. QED BY <1>8, <2>1, <2>2
<1>9. CASE pc = "initial"
  <2>1. AgreesOn(original, Cells) /\ prop # "infeasible"
    <3>1. n = 0
      BY <1>k, <1>9 DEF Ground, Beginning
    <3>2. \A p \in 1..Len(undoStack) : cells[undoStack[p]] = original[undoStack[p]]
      BY <1>k, <3>1
    <3>3. QED BY <1>2, <1>9, <3>2, AgreeingResult DEF Waiting
  <2>2. CASE InitialSolved
    <3>1. rowBits = Bits(original) /\ yielded' = Append(yielded, rowBits)
      BY <2>1, <2>2, AgreeingLeaf DEF InitialSolved
    <3>2. Bits(original) \in Range(yielded')
      <4>1. /\ Len(yielded) + 1 \in DOMAIN Append(yielded, rowBits)
            /\ Append(yielded, rowBits)[Len(yielded) + 1] = rowBits
        BY <1>4
      <4>2. QED BY <3>1, <4>1 DEF Range
    <3>3. Found'
      BY <1>2, <3>2 DEF Found, Bits
    <3>4. QED BY <1>1, <3>3
  <2>3. CASE InitialBranch
    <3>1. PICK x \in Open : NextCell(x) /\ Push(x)
      BY <2>3 DEF InitialBranch
    <3>2. frames = <<>> /\ frames' = <<[cell |-> x, nextValue |-> 0, token |-> 0]>> /\ pc' = "loop"
          /\ cells' = cells /\ undoStack' = undoStack \o forced /\ x \in Cells
      BY <2>3, <3>1 DEF InitialBranch, Stages, Ground, Push, RecordForced, Open, store
    <3>3. Len(frames') = 1 /\ frames'[1].nextValue = 0 /\ frames'[1].cell = x
      BY <3>2
    <3>4. undoStack' \in Seq(Cells)
      BY <1>4, <3>2
    <3>5. \A p \in 1..Len(undoStack') : undoStack'[p] \in Cells /\ cells'[undoStack'[p]] # Unassigned
      <4>1. Trail' = undoStack'
        BY <3>2, <3>4 DEF Trail, Fresh
      <4>2. \A p \in 1..Len(undoStack') : cells'[undoStack'[p]] # Unassigned
        BY <4>1 DEF Ground, Recorded
      <4>3. QED BY <3>4, <4>2
    <3>6. \A p \in 1..Len(undoStack') : cells'[undoStack'[p]] = original'[undoStack'[p]]
      BY <1>2, <2>1, <3>2, <3>5 DEF AgreesOn
    <3>7. PICK m \in Nat : m = Len(undoStack')
      BY <3>4
    <3>8. Base(1)' = m /\ Left(1)' = 0
      BY <3>2, <3>3, <3>7 DEF Base, Left
    <3>9. AheadAt(1)'
      BY <1>2, <1>7, <3>2, <3>3, <3>6, <3>7, <3>8 DEF AheadAt
    <3>10. QED BY <3>2, <3>3, <3>9 DEF FoundOrAhead, Searching
  <2>4. CASE ~InitialSolved /\ ~InitialBranch
    <3>1. pc' = "initial"
      BY <1>9, <2>1, <2>4 DEF Next, Start, InitialInfeasible, Undo, Pop, Try, TryPropagate, Contradiction,
         HashMismatch, Descend, Submit, Cleanup, Exhausted, Propagating
    <3>2. QED BY <3>1 DEF FoundOrAhead
  <2>5. QED BY <2>2, <2>3, <2>4
<1>10. CASE pc \in {"cleanup", "ended"}
  <2>1. frames # <<>>
    BY <1>2, <1>3, <1>10 DEF FoundOrAhead, Searching
  <2>2. frames' = frames /\ pc' \in {"cleanup", "ended"}
    BY <1>10 DEF Next, Start, InitialInfeasible, InitialSolved, InitialBranch, Undo, Pop, Try, TryPropagate,
       Contradiction, HashMismatch, Descend, Submit, Cleanup, Exhausted, Propagating
  <2>3. QED BY <2>1, <2>2 DEF FoundOrAhead
<1>11. CASE Searching
  <2>0. PICK i \in 1..k : AheadAt(i)
    BY <1>k, <1>2, <1>3, <1>11 DEF FoundOrAhead, Searching
  <2>a. /\ k \in 1..k /\ frames # <<>> /\ Top = frames[k]
        /\ frames[i].cell \in Cells /\ frames[i].nextValue \in 0..2 /\ frames[i].token \in Nat
        /\ i < k => Holds(i)
        /\ pc # "loop" => Holds(k)
        /\ Base(i) \in 0..n
        /\ Left(i) \in Int
    <3>1. 1 <= k
      BY <1>k
    <3>2. k \in 1..k
      BY <3>1
    <3>3. frames # <<>>
      BY <1>k, <3>1
    <3>4. (i < k => Holds(i)) /\ (pc # "loop" => Holds(k))
      BY <1>k, <1>11, <3>2 DEF Ground, FramesHold
    <3>b. frames[i].nextValue \in 0..2 /\ frames[i].token \in Nat
      BY <1>5
    <3>c. Base(i) \in Nat /\ Base(i) <= n
      BY <1>k, <2>0, <3>b DEF AheadAt, Base
    <3>d. Left(i) \in Int
      BY <3>b DEF Left
    <3>5. Base(i) \in 0..n /\ Left(i) \in Int
      BY <3>c, <3>d
    <3>6. QED BY <1>k, <1>5, <3>2, <3>3, <3>4, <3>5 DEF Top
  <2>1. CASE Undo
    <3>1. /\ frames' = frames /\ pc = "loop" /\ pc' = "loop" /\ Top.nextValue > 0 /\ n > Top.token
          /\ Unassign(undoStack[n]) /\ undoStack' = SubSeq(undoStack, 1, n - 1)
      BY <1>k, <2>1 DEF Undo, ToUndo, UndoLast
    <3>2. n \in 1..n /\ Len(undoStack') = n - 1 /\ \A p \in 1..(n - 1) : undoStack'[p] = undoStack[p]
      <4>1. undoStack # <<>>
        <5>1. Top.token \in Nat /\ n # 0
          BY <1>5, <2>0, <2>a, <3>1
        <5>2. QED BY <1>k, <5>1
      <4>2. QED BY <1>k, <1>4, <3>1, <4>1, ButLast
    <3>3. Base(i) <= n - 1 /\ Base(i) = frames[i].token /\ frames[i].nextValue # 0
      <4>1. CASE i = k
        BY <1>k, <2>0, <2>a, <3>1, <3>2, <4>1 DEF Base
      <4>2. CASE i < k
        <5>1. frames[i].token < frames[k].token
          BY <1>k, <1>11, <2>0, <2>a, <3>1, <4>2 DEF Ground, FramesNest
        <5>2. frames[i].nextValue # 0
          BY <2>0, <2>a, <4>2 DEF Holds
        <5>3. QED BY <1>5, <2>0, <2>a, <3>1, <3>2, <5>1, <5>2 DEF Base
      <4>3. QED BY <2>0, <2>a, <4>1, <4>2
    <3>4. \A p \in 1..(n - 1) : cells'[undoStack[p]] = cells[undoStack[p]]
      <4>1. undoStack[n] \in Cells
        BY <1>6, <3>2
      <4>2. \A y \in Cells \ {undoStack[n]} : cells'[y] = cells[y]
        BY <3>1, <4>1, UnassignEffect DEF Ground
      <4>3. \A p \in 1..(n - 1) : undoStack[p] # undoStack[n]
        <5>1. \A p \in 1..n : p \in 1..Len(Trail) /\ Trail[p] = undoStack[p]
          BY <1>k, TrailShape DEF Ground
        <5>2. QED BY <3>2, <5>1 DEF Ground, Recorded
      <4>4. QED BY <1>6, <4>2, <4>3
    <3>5. Base(i)' = Base(i) /\ Left(i)' = Left(i)
      BY <3>1, <3>3, <2>0, <2>a DEF Base, Left
    <3>6. AheadAt(i)'
      BY <1>k, <1>2, <2>0, <2>a, <3>1, <3>2, <3>3, <3>4, <3>5, AheadStays
    <3>7. QED BY <1>k, <3>1, <3>6 DEF FoundOrAhead, Searching
  <2>2. CASE Pop
    <3>1. /\ pc = "loop" /\ pc' = "loop" /\ frames' = SubSeq(frames, 1, k - 1) /\ frames[k].nextValue >= 2
          /\ UNCHANGED <<store, undoStack>>
      BY <1>k, <2>0, <2>a, <2>2 DEF Pop
    <3>2. Len(frames') = k - 1 /\ \A j \in 1..(k - 1) : frames'[j] = frames[j]
      BY <1>k, <1>4, <2>0, <2>a, <3>1, ButLast
    <3>3. i # k
      <4>1. ASSUME i = k PROVE FALSE
        <5>1. Left(i) >= 2
          BY <1>k, <3>1, <4>1 DEF Left
        <5>2. original[frames[i].cell] \in {0, 1} /\ original[frames[i].cell] >= Left(i)
          BY <1>7, <2>0, <2>a DEF AheadAt
        <5>3. QED BY <2>0, <2>a, <5>1, <5>2
      <4>2. QED BY <4>1
    <3>4. i \in 1..(k - 1) /\ frames'[i] = frames[i] /\ frames[i].nextValue # 0
      BY <2>0, <2>a, <3>2, <3>3 DEF Holds
    <3>5. Base(i)' = Base(i) /\ Left(i)' = Left(i)
      BY <1>k, <3>1, <3>2, <3>4 DEF Base, Left
    <3>6. AheadAt(i)'
      BY <1>k, <1>2, <2>0, <2>a, <3>1, <3>4, <3>5, AheadStays DEF store
    <3>7. QED BY <3>1, <3>2, <3>4, <3>6 DEF FoundOrAhead, Searching
  <2>3. CASE Try
    <3>1. /\ pc = "loop" /\ pc' = "try" /\ frames[k].nextValue < 2 /\ ~ToUndo
          /\ Assign(frames[k].cell, frames[k].nextValue) /\ undoStack' = Append(undoStack, frames[k].cell)
          /\ frames' = [frames EXCEPT ![k] = [cell |-> frames[k].cell, nextValue |-> frames[k].nextValue + 1, token |-> n]]
      BY <1>k, <2>0, <2>a, <2>3 DEF Try, Top
    <3>2. /\ Len(frames') = k /\ \A j \in 1..k : j # k => frames'[j] = frames[j]
          /\ frames'[k] = [cell |-> frames[k].cell, nextValue |-> frames[k].nextValue + 1, token |-> n]
      BY <1>k, <1>4, <2>0, <2>a, <3>1
    <3>3. Len(undoStack') = n + 1 /\ \A p \in 1..n : undoStack'[p] = undoStack[p]
      BY <1>k, <1>4, <3>1
    <3>4. \A p \in 1..n : cells'[undoStack[p]] = cells[undoStack[p]]
      <4>1. cells[frames[k].cell] = Unassigned
        BY <1>11, <2>0, <2>a, <3>1 DEF Ground, FramesHold
      <4>2. frames[k].nextValue \in {0, 1} /\ frames[k].cell \in Cells
        BY <1>5, <2>0, <2>a, <3>1
      <4>3. \A y \in Cells \ {frames[k].cell} : cells'[y] = cells[y]
        BY <3>1, <4>2, AssignEffect DEF Ground
      <4>4. QED BY <1>6, <4>1, <4>3
    <3>5. Base(i)' = Base(i) /\ Left(i)' = Left(i) /\ frames'[i].cell = frames[i].cell
      <4>1. CASE i = k
        <5>1. Base(k) = n
          <6>1. CASE frames[k].nextValue = 0
            BY <1>k, <6>1 DEF Base
          <6>2. CASE frames[k].nextValue # 0
            <7>1. ~(n > frames[k].token)
              BY <1>k, <2>0, <2>a, <3>1, <1>5, <6>2 DEF ToUndo
            <7>2. frames[k].token <= n
              BY <1>k, <1>11, <1>5, <2>0, <2>a, <3>1, <6>2 DEF Ground, FramesHold
            <7>3. QED BY <1>5, <2>0, <2>a, <6>2, <7>1, <7>2 DEF Base
          <6>3. QED BY <6>1, <6>2
        <5>2. frames'[k].nextValue # 0 /\ frames'[k].token = n /\ frames'[k].nextValue - 1 = frames[k].nextValue
          BY <1>5, <2>0, <2>a, <3>2
        <5>3. Base(k)' = n /\ Left(k)' = Left(k)
          BY <1>k, <3>1, <3>2, <5>2 DEF Base, Left
        <5>4. QED BY <3>2, <4>1, <5>1, <5>3
      <4>2. CASE i # k
        BY <1>k, <2>0, <2>a, <3>1, <3>2, <4>2 DEF Base, Left, Holds
      <4>3. QED BY <4>1, <4>2
    <3>6. AheadAt(i)'
      BY <1>k, <1>2, <2>0, <2>a, <3>3, <3>4, <3>5, AheadStays
    <3>7. QED BY <3>1, <3>2, <3>6 DEF FoundOrAhead, Searching
  <2>4. CASE TryPropagate \/ Propagating
    <3>1. /\ UNCHANGED <<frames, undoStack>>
          /\ (pc = "loop") = (pc' = "loop") /\ Searching'
      BY <1>11, <2>4 DEF TryPropagate, Propagating, Searching
    <3>2. \A p \in 1..n : cells'[undoStack[p]] = cells[undoStack[p]]
      <4>1. CASE Propagating /\ ForceCell
        <5>1. PICK x \in Cells : IsFirst(x, ToForce) /\ Assign(x, forcing.value)
          BY <4>1 DEF ForceCell
        <5>2. cells[x] = Unassigned /\ forcing.value \in {0, 1}
          BY <5>1 DEF IsFirst, ToForce, UnknownOn, Ground, Typing, CellState, Unassigned
        <5>3. \A y \in Cells \ {x} : cells'[y] = cells[y]
          BY <5>1, <5>2, AssignEffect DEF Ground
        <5>4. QED BY <1>6, <5>2, <5>3
      <4>2. CASE TryPropagate \/ (Propagating /\ ~ForceCell)
        BY <4>2 DEF TryPropagate, Propagating, EngineStep, PopViolated, PopLine, Quiesce, store
      <4>3. QED BY <2>4, <4>1, <4>2
    <3>3. Base(i)' = Base(i) /\ Left(i)' = Left(i)
      BY <3>1 DEF Base, Left
    <3>4. AheadAt(i)'
      BY <1>k, <1>2, <2>0, <2>a, <3>1, <3>2, <3>3, AheadStays
    <3>5. QED BY <1>k, <3>1, <3>4 DEF FoundOrAhead
  <2>5. CASE Contradiction \/ HashMismatch \/ Descend \/ Submit
    <3>1. /\ pc = "result" /\ UNCHANGED store
          /\ undoStack' = undoStack \/ undoStack' = undoStack \o forced
      BY <2>5 DEF Contradiction, HashMismatch, Descend, Submit, RecordForced
    <3>2. n <= Len(undoStack') /\ \A p \in 1..n : undoStack'[p] = undoStack[p]
      BY <1>k, <1>4, <3>1
    <3>3. \A j \in 1..k : frames'[j] = frames[j] /\ j \in 1..Len(frames')
      <4>1. CASE Descend
        <5>1. PICK x \in Open : Push(x)
          BY <4>1 DEF Descend
        <5>2. QED BY <1>k, <1>4, <5>1 DEF Push
      <4>2. CASE Contradiction \/ HashMismatch \/ Submit
        BY <1>k, <4>2 DEF Contradiction, HashMismatch, Submit
      <4>3. QED BY <2>5, <4>1, <4>2
    <3>4. frames[i].nextValue # 0
      BY <2>0, <2>a, <3>1 DEF Holds
    <3>5. CASE pc' = "cleanup"
      <4>1. frames' # <<>>
        BY <2>0, <2>a, <2>5, <3>5 DEF Contradiction, HashMismatch, Descend, Submit
      <4>2. QED BY <3>5, <4>1 DEF FoundOrAhead
    <3>6. CASE pc' = "loop" /\ (i # k \/ original[frames[k].cell] # frames[k].nextValue - 1)
      <4>1. Base(i)' = Base(i)
        BY <2>0, <2>a, <3>3, <3>4 DEF Base
      <4>2. Left(i)' = frames[i].nextValue
        BY <3>3, <3>6 DEF Left
      <4>3. original[frames[i].cell] >= frames[i].nextValue
        <5>1. CASE i # k
          BY <1>k, <2>0, <5>1 DEF AheadAt, Left
        <5>2. CASE i = k
          BY <1>k, <1>7, <2>0, <2>a, <3>1, <3>6, <5>2 DEF AheadAt, Left
        <5>3. QED BY <5>1, <5>2
      <4>4. \A p \in 1..Base(i)' : cells'[undoStack'[p]] = original'[undoStack'[p]]
        BY <1>k, <1>2, <2>0, <2>a, <3>1, <3>2, <4>1 DEF AheadAt, store
      <4>5. Base(i)' <= Len(undoStack')
        BY <1>k, <1>4, <2>0, <2>a, <3>1, <3>2, <4>1
      <4>6. AheadAt(i)'
        BY <1>2, <3>3, <4>2, <4>3, <4>4, <4>5 DEF AheadAt
      <4>7. QED BY <3>3, <3>6, <4>6 DEF FoundOrAhead, Searching
    <3>7. CASE pc' = "loop" /\ i = k /\ original[frames[k].cell] = frames[k].nextValue - 1
      <4>1. AgreesOn(original, Cells) /\ prop # "infeasible"
        BY <1>k, <1>2, <2>0, <2>a, <3>1, <3>7, ResultAgrees
      <4>2. \A r \in CompletedRows : verifyRow(r)
        <5>1. ASSUME NEW r \in CompletedRows PROVE r \in Index /\ unknown[RowOf(r)] = 0
          <6>1. PICK x \in {Top.cell} \cup Range(forced) : r = x[1]
            BY <5>1 DEF CompletedRows
          <6>2. x \in Cells
            <7>1. Range(forced) \subseteq Cells
              BY <1>4, RangeOf
            <7>2. Top.cell \in Cells
              BY <1>5, <2>a
            <7>3. QED BY <6>1, <7>1, <7>2
          <6>3. QED BY <5>1, <6>1, <6>2, CellParts DEF CompletedRows
        <5>2. QED BY <1>2, <4>1, <5>1, AgreeingRow
      <4>3. CASE Submit
        <5>1. rowBits = Bits(original) /\ submitted' = Append(submitted, rowBits)
          BY <4>1, <4>3, AgreeingLeaf DEF Submit
        <5>2. Bits(original) \in Range(submitted')
          <6>1. /\ Len(submitted) + 1 \in DOMAIN Append(submitted, rowBits)
                /\ Append(submitted, rowBits)[Len(submitted) + 1] = rowBits
            BY <1>4
          <6>2. QED BY <5>1, <6>1 DEF Range
        <5>3. Found'
          BY <1>2, <5>2 DEF Found, Bits
        <5>4. QED BY <1>1, <5>3
      <4>4. CASE Descend
        <5>1. PICK x \in Open : Push(x)
          BY <4>4 DEF Descend
        <5>2. x \in Cells
          BY DEF Open
        <5>3. frames' = Append(frames, [cell |-> x, nextValue |-> 0, token |-> 0])
          BY <5>1 DEF Push
        <5>4. Len(frames') = k + 1 /\ frames'[k + 1].nextValue = 0 /\ frames'[k + 1].cell = x
          BY <1>k, <1>4, <5>3
        <5>5. undoStack' \in Seq(Cells)
          BY DEF Ground, Typing
        <5>6. \A p \in 1..Len(undoStack') : undoStack'[p] \in Cells /\ cells'[undoStack'[p]] # Unassigned
          <6>1. Trail' = undoStack'
            BY <3>7, <5>5 DEF Trail, Fresh
          <6>2. \A p \in 1..Len(undoStack') : cells'[undoStack'[p]] # Unassigned
            BY <6>1 DEF Ground, Recorded
          <6>3. QED BY <5>5, <6>2
        <5>7. \A p \in 1..Len(undoStack') : cells'[undoStack'[p]] = original'[undoStack'[p]]
          BY <1>2, <3>1, <4>1, <5>6 DEF AgreesOn, store
        <5>8. PICK m \in Nat : m = Len(undoStack')
          BY <5>5
        <5>9. Base(k + 1)' = m /\ Left(k + 1)' = 0
          BY <3>7, <5>4, <5>8 DEF Base, Left
        <5>10. AheadAt(k + 1)'
          BY <1>2, <1>7, <5>2, <5>4, <5>7, <5>8, <5>9 DEF AheadAt
        <5>11. k + 1 \in 1..(k + 1)
          OBVIOUS
        <5>12. QED BY <3>7, <5>4, <5>10, <5>11 DEF FoundOrAhead, Searching
      <4>5. CASE Contradiction
        BY <4>1, <4>5 DEF Contradiction
      <4>6. CASE HashMismatch
        BY <4>2, <4>6 DEF HashMismatch
      <4>7. QED BY <2>5, <4>3, <4>4, <4>5, <4>6
    <3>8. pc' \in {"loop", "cleanup"}
      BY <2>5 DEF Contradiction, HashMismatch, Descend, Submit
    <3>9. QED BY <3>5, <3>6, <3>7, <3>8
  <2>6. CASE Start \/ InitialInfeasible \/ InitialSolved \/ InitialBranch \/ Cleanup \/ Exhausted
    BY <1>11, <2>0, <2>a, <2>6 DEF Start, InitialInfeasible, InitialSolved, InitialBranch, Cleanup, Exhausted, Searching
  <2>7. QED BY <1>8, <2>1, <2>2, <2>3, <2>4, <2>5, <2>6 DEF Next
<1>12. CASE pc = "start"
  <2>1. Start \/ UNCHANGED vars
    BY <1>12 DEF Next, InitialInfeasible, InitialSolved, InitialBranch, Undo, Pop, Try, TryPropagate,
       Contradiction, HashMismatch, Descend, Submit, Cleanup, Exhausted, Propagating, Ground, PropagationPlaces,
       EngineStep, PopViolated, PopLine, ForceCell, Quiesce
  <2>2. QED BY <1>8, <2>1
<1>13. pc \in {"start", "initial", "loop", "try", "result", "cleanup", "ended"}
  BY DEF Ground, Typing
<1>14. QED BY <1>9, <1>10, <1>11, <1>12, <1>13 DEF Searching

-------------------------------------------------------------------------------
\* The search's invariant, with what completeness adds.
Reach == Invariant /\ TopLast /\ Beginning /\ Complete

LEMMA AlwaysReach == Spec => []Reach
<1>1. Init => Reach
  <2> SUFFICES ASSUME Init PROVE Reach
    OBVIOUS
  <2>1. pc = "start" /\ undoStack = <<>> /\ yielded = <<>>
    BY DEF Init, BranchingInit
  <2>2. QED BY <2>1, InvariantInit DEF Reach, TopLast, Beginning, Complete, FoundOrAhead
<1>2. Reach /\ [Next]_vars => Reach'
  <2> SUFFICES ASSUME Reach, [Next]_vars PROVE Reach'
    OBVIOUS
  <2>1. Invariant'
    BY InvariantStep DEF Reach
  <2>2. (TopLast /\ Beginning)'
    BY BeginningStep DEF Reach, Invariant
  <2>3. Ground /\ Ground'
    BY <2>1, <2>2 DEF Reach, Invariant, Ground
  <2>4. Complete'
    BY <2>3, CompleteStep DEF Reach
  <2>5. QED BY <2>1, <2>2, <2>4 DEF Reach
<1>3. QED BY <1>1, <1>2, PTL DEF Spec

\* While nothing leaks, a search that is not stopped early finds the compressed
\* matrix: inline hashing, pruning and backtracking lose no solution.
THEOREM SearchComplete == Spec => []FoundUnlessLeaked
<1>1. ASSUME Reach PROVE FoundUnlessLeaked
  BY <1>1 DEF Reach, Complete, FoundOrAhead, Searching, FoundUnlessLeaked
<1>2. QED BY <1>1, AlwaysReach, PTL

-------------------------------------------------------------------------------
\* Marking lines overruns dirtyWords_ when a fresh word finds it full.
Overruns(lines, bits, dirty) ==
  \E i \in 1..Len(lines) :
    IsFresh(lines, bits, i) /\ Len(DirtyAfter(lines, bits, dirty)[i - 1]) >= DirtyRoom

\* As long as there is room, every word with a marked line is noted.
LEMMA MarkNotes ==
  ASSUME NEW lines \in Seq(Lines), NEW bits \in SUBSET Lines, NEW dirty \in Seq(Int),
         ~Overruns(lines, bits, dirty), \A l \in bits : WordOf(l) \in Range(dirty)
  PROVE  /\ DirtyAfter(lines, bits, dirty)[Len(lines)] \in Seq(Int)
         /\ \A l \in bits \cup Range(lines) : WordOf(l) \in Range(DirtyAfter(lines, bits, dirty)[Len(lines)])
<1> DEFINE after == DirtyAfter(lines, bits, dirty)
           Noted(i) == /\ after[i] \in Seq(Int)
                       /\ Range(dirty) \subseteq Range(after[i])
                       /\ \A j \in 1..i : WordOf(lines[j]) \in Range(after[i])
           G == {i \in Nat : Noted(i)}
<1>1. PICK n \in Nat : n = Len(lines)
  OBVIOUS
<1>2. /\ after[0] = dirty
      /\ \A i \in 1..n : after[i] = IF IsFresh(lines, bits, i) THEN NoteDirty(after[i - 1], WordOf(lines[i]))
                                    ELSE after[i - 1]
  BY <1>1, DirtyUnfolds
<1>3. \A i \in 1..n : IsFresh(lines, bits, i) => ~(Len(after[i - 1]) >= DirtyRoom)
  BY <1>1 DEF Overruns
<1> HIDE DEF after
<1>4. 0 \in G
  BY <1>2
<1>5. ASSUME NEW i \in 0..(n - 1), i \in G PROVE i + 1 \in G
  <2>1. Noted(i) /\ i + 1 \in 1..n /\ (i + 1) - 1 = i
    BY <1>5
  <2>2. lines[i + 1] \in Lines /\ WordOf(lines[i + 1]) \in Int
    BY <1>1, <2>1, WordTyped
  <2>3. CASE IsFresh(lines, bits, i + 1)
    <3>1. after[i + 1] = NoteDirty(after[i], WordOf(lines[i + 1]))
      BY <1>2, <2>1, <2>3
    <3>2. Len(after[i]) < DirtyRoom
      BY <1>3, <2>1, <2>3, QueueAssumption
    <3>3. after[i + 1] = Append(after[i], WordOf(lines[i + 1]))
      BY <3>1, <3>2 DEF NoteDirty
    <3>4. Range(after[i + 1]) = Range(after[i]) \cup {WordOf(lines[i + 1])}
      BY <2>1, <3>3, AppendRange
    <3>5. \A j \in 1..(i + 1) : j \in 1..i \/ j = i + 1
      OBVIOUS
    <3>6. after[i + 1] \in Seq(Int)
      BY <2>1, <2>2, <3>3
    <3>7. QED BY <2>1, <3>4, <3>5, <3>6
  <2>4. CASE ~IsFresh(lines, bits, i + 1)
    <3>1. after[i + 1] = after[i]
      BY <1>2, <2>1, <2>4
    <3>2. PICK l \in bits \cup {lines[j] : j \in 1..i} : WordOf(l) = WordOf(lines[i + 1])
      BY <2>1, <2>4 DEF IsFresh
    <3>3. WordOf(l) \in Range(after[i])
      BY <2>1, <3>2
    <3>4. \A j \in 1..(i + 1) : j \in 1..i \/ j = i + 1
      OBVIOUS
    <3>5. QED BY <2>1, <3>1, <3>2, <3>3, <3>4
  <2>5. QED BY <2>3, <2>4
<1> HIDE DEF G
<1>6. n \in G
  <2>1. \A i \in 0..n : i \in G
    BY <1>4, <1>5, InductionUpTo
  <2>2. QED BY <2>1
<1>7. Noted(n)
  BY <1>6 DEF G
<1>8. ASSUME NEW l \in bits \cup Range(lines) PROVE WordOf(l) \in Range(after[n])
  <2>1. CASE l \in bits
    BY <1>7, <2>1
  <2>2. CASE l \in Range(lines)
    <3>1. PICK j \in 1..n : lines[j] = l
      BY <1>1, <2>2, RangeOf
    <3>2. QED BY <1>7, <3>1
  <2>3. QED BY <2>1, <2>2
<1>9. QED BY <1>1, <1>7, <1>8 DEF after

\* A call that finds the queue empty notes each word at most once, for which
\* there is room.
LEMMA FirstMarksFit ==
  ASSUME NEW lines \in Seq(Lines) PROVE ~Overruns(lines, {}, <<>>)
<1> DEFINE after == DirtyAfter(lines, {}, <<>>)
           words(i) == {WordOf(lines[j]) : j \in 1..i}
           Once(i) == /\ after[i] \in Seq(Int)
                      /\ IsFiniteSet(words(i)) /\ Cardinality(words(i)) = Len(after[i])
           G == {i \in Nat : Once(i)}
<1>1. PICK n \in Nat : n = Len(lines)
  OBVIOUS
<1>2. /\ after[0] = <<>>
      /\ \A i \in 1..n : after[i] = IF IsFresh(lines, {}, i) THEN NoteDirty(after[i - 1], WordOf(lines[i]))
                                    ELSE after[i - 1]
  BY <1>1, DirtyUnfolds
<1> HIDE DEF after
<1>3. 0 \in G
  <2>1. words(0) = {} /\ <<>> \in Seq(Int) /\ Len(<<>>) = 0
    OBVIOUS
  <2>2. QED BY <1>2, <2>1, FS_EmptySet
<1>w. ASSUME NEW i \in Nat PROVE words(i + 1) = words(i) \cup {WordOf(lines[i + 1])}
  <2>1. \A j \in 1..(i + 1) : j \in 1..i \/ j = i + 1
    OBVIOUS
  <2>2. (\A j \in 1..i : j \in 1..(i + 1)) /\ i + 1 \in 1..(i + 1)
    OBVIOUS
  <2>3. QED BY <2>1, <2>2
<1>4. ASSUME NEW i \in 0..(n - 1), Once(i), IsFresh(lines, {}, i + 1) PROVE Len(after[i]) < DirtyRoom
  <2>1. i + 1 \in 1..n /\ (i + 1) - 1 = i /\ \A j \in 1..(i + 1) : lines[j] \in Lines
    BY <1>1
  <2>2. words(i + 1) \subseteq 0..(kQueuedWords - 1)
    BY <2>1, WordBound
  <2>3. words(i + 1) = words(i) \cup {WordOf(lines[i + 1])}
    BY <1>w
  <2>4. WordOf(lines[i + 1]) \notin words(i)
    BY <1>4, <2>1 DEF IsFresh
  <2> DEFINE w == words(i)
             v == words(i + 1)
  <2>5. IsFiniteSet(w) /\ Cardinality(w) = Len(after[i]) /\ Len(after[i]) \in Nat
    BY <1>4
  <2>6. v = w \cup {WordOf(lines[i + 1])} /\ WordOf(lines[i + 1]) \notin w /\ v \subseteq 0..(kQueuedWords - 1)
    BY <2>2, <2>3, <2>4
  <2> HIDE DEF w, v
  <2>7. IsFiniteSet(v) /\ Cardinality(v) = Len(after[i]) + 1
    BY <2>5, <2>6, FS_AddElement
  <2>8. kQueuedWords \in Int
    BY QueueAssumption, kSAssumption DEF kQueuedWords
  <2>9. IsFiniteSet(0..(kQueuedWords - 1)) /\
        Cardinality(0..(kQueuedWords - 1)) = IF 0 > kQueuedWords - 1 THEN 0 ELSE kQueuedWords - 1 - 0 + 1
    BY <2>8, FS_Interval
  <2>10. Cardinality(v) <= Cardinality(0..(kQueuedWords - 1))
    BY <2>6, <2>9, FS_Subset
  <2>11. QED BY <2>5, <2>7, <2>8, <2>9, <2>10, RoomAssumption, QueueAssumption
<1>5. ASSUME NEW i \in 0..(n - 1), i \in G PROVE i + 1 \in G
  <2>1. Once(i) /\ i + 1 \in 1..n /\ (i + 1) - 1 = i /\ lines[i + 1] \in Lines
    BY <1>1, <1>5
  <2>2. words(i + 1) = words(i) \cup {WordOf(lines[i + 1])}
    BY <1>w
  <2> DEFINE w == words(i)
             v == words(i + 1)
  <2>3. CASE IsFresh(lines, {}, i + 1)
    <3>1. after[i + 1] = Append(after[i], WordOf(lines[i + 1]))
      <4>1. Len(after[i]) < DirtyRoom
        BY <1>4, <2>1, <2>3
      <4>2. QED BY <1>2, <2>1, <2>3, <4>1 DEF NoteDirty
    <3>2. WordOf(lines[i + 1]) \notin w
      BY <2>1, <2>3 DEF IsFresh
    <3>3. WordOf(lines[i + 1]) \in Int /\ after[i] \in Seq(Int) /\ Len(after[i]) \in Nat
      BY <2>1, WordTyped
    <3>4. after[i + 1] \in Seq(Int) /\ Len(after[i + 1]) = Len(after[i]) + 1
      BY <3>1, <3>3
    <3>5. IsFiniteSet(w) /\ Cardinality(w) = Len(after[i]) /\ v = w \cup {WordOf(lines[i + 1])}
      BY <2>1, <2>2
    <3> HIDE DEF w, v
    <3>6. IsFiniteSet(v) /\ Cardinality(v) = Cardinality(w) + 1
      BY <3>2, <3>5, FS_AddElement
    <3>a. Cardinality(v) = Len(after[i + 1])
      BY <3>4, <3>5, <3>6
    <3>7. QED BY <3>4, <3>6, <3>a DEF v
  <2>4. CASE ~IsFresh(lines, {}, i + 1)
    <3>1. after[i + 1] = after[i]
      BY <1>2, <2>1, <2>4
    <3>2. PICK j \in 1..i : WordOf(lines[j]) = WordOf(lines[i + 1])
      BY <2>1, <2>4 DEF IsFresh
    <3>3. words(i + 1) = words(i)
      BY <2>2, <3>2
    <3> HIDE DEF words
    <3>4. QED BY <2>1, <3>1, <3>3
  <2>5. QED BY <2>3, <2>4
<1> HIDE DEF G
<1>6. \A i \in 0..n : i \in G
  BY <1>3, <1>5, InductionUpTo
<1>7. ASSUME NEW i \in 1..n, IsFresh(lines, {}, i) PROVE Len(after[i - 1]) < DirtyRoom
  <2>1. i - 1 \in 0..(n - 1) /\ i - 1 \in G /\ (i - 1) + 1 = i
    BY <1>6
  <2>2. Once(i - 1)
    BY <2>1 DEF G
  <2>3. QED BY <1>4, <1>7, <2>1, <2>2
<1>8. \A i \in 1..n : IsFresh(lines, {}, i) => ~(Len(after[i - 1]) >= DirtyRoom)
  <2>1. ASSUME NEW i \in 1..n, IsFresh(lines, {}, i) PROVE ~(Len(after[i - 1]) >= DirtyRoom)
    <3>1. Len(after[i - 1]) < DirtyRoom
      BY <1>7, <2>1
    <3>2. i - 1 \in 0..n /\ Len(after[i - 1]) \in Nat
      <4>1. i - 1 \in 0..n
        OBVIOUS
      <4>2. QED BY <1>6, <4>1 DEF G
    <3>3. QED BY <3>1, <3>2, QueueAssumption
  <2>2. QED BY <2>1
<1>9. QED BY <1>1, <1>8 DEF Overruns, after

-------------------------------------------------------------------------------
\* A sequence that holds nothing twice.
Distinct(s) == \A i, j \in 1..Len(s) : i # j => s[i] # s[j]

\* Two such sequences with nothing in common make one.
LEMMA DistinctConcat ==
  ASSUME NEW S, NEW s \in Seq(S), NEW t \in Seq(S), Distinct(s), Distinct(t), Range(s) \cap Range(t) = {}
  PROVE  s \o t \in Seq(S) /\ Distinct(s \o t) /\ Range(s \o t) = Range(s) \cup Range(t)
<1>1. PICK m \in Nat, n \in Nat : m = Len(s) /\ n = Len(t)
  OBVIOUS
<1>2. /\ s \o t \in Seq(S) /\ Len(s \o t) = m + n
      /\ \A i \in 1..m : (s \o t)[i] = s[i]
      /\ \A i \in 1..n : (s \o t)[m + i] = t[i]
  BY <1>1
<1> DEFINE u == s \o t
<1>3. \A i \in 1..(m + n) : i \in 1..m \/ (i - m \in 1..n /\ i = m + (i - m))
  OBVIOUS
<1>4. \A i \in 1..m, j \in 1..n : s[i] # t[j]
  BY <1>1 DEF Range
<1> HIDE DEF u
<1>5. ASSUME NEW i \in 1..(m + n), NEW j \in 1..(m + n), i # j PROVE u[i] # u[j]
  <2>1. CASE i \in 1..m /\ j \in 1..m
    BY <1>1, <1>2, <1>5, <2>1 DEF Distinct, u
  <2>2. CASE i \notin 1..m /\ j \notin 1..m
    <3>1. i - m \in 1..n /\ j - m \in 1..n /\ u[i] = t[i - m] /\ u[j] = t[j - m]
      BY <1>2, <1>3, <2>2 DEF u
    <3>2. i - m # j - m
      BY <1>5
    <3>3. QED BY <1>1, <3>1, <3>2 DEF Distinct
  <2>3. CASE i \in 1..m /\ j \notin 1..m
    <3>1. j - m \in 1..n /\ u[i] = s[i] /\ u[j] = t[j - m]
      BY <1>2, <1>3, <2>3 DEF u
    <3>2. QED BY <1>4, <2>3, <3>1
  <2>4. CASE i \notin 1..m /\ j \in 1..m
    <3>1. i - m \in 1..n /\ u[j] = s[j] /\ u[i] = t[i - m]
      BY <1>2, <1>3, <2>4 DEF u
    <3>2. QED BY <1>4, <2>4, <3>1
  <2>5. QED BY <2>1, <2>2, <2>3, <2>4
<1>6. Distinct(s \o t)
  BY <1>2, <1>5 DEF Distinct, u
<1>7. QED BY <1>2, <1>6, RangeConcatenation

\* Adding a line to the queue unless it is there.
UnlessIn(Q, l) == IF l \in Q THEN <<>> ELSE <<l>>

\* A queue that holds the lines of Q and of E, each once.
Queues(s, Q, E) == s \in Seq(Lines) /\ Distinct(s) /\ Range(s) = Q \cup E

LEMMA QueueLine ==
  ASSUME NEW s, NEW Q, NEW E, Queues(s, Q, E), NEW l \in Lines, l \notin E
  PROVE  Queues(s \o UnlessIn(Q, l), Q, E \cup {l})
<1> USE DEF Queues
<1>1. CASE l \in Q
  <2>1. s \o <<>> = s
    OBVIOUS
  <2>2. s \in Seq(Lines) /\ Distinct(s) /\ Range(s) = Q \cup (E \cup {l})
    BY <1>1
  <2>3. QED BY <1>1, <2>1, <2>2 DEF UnlessIn
<1>2. CASE l \notin Q
  <2> DEFINE t == <<l>>
  <2>1. t \in Seq(Lines) /\ Len(t) = 1 /\ t[1] = l
    OBVIOUS
  <2>2. UnlessIn(Q, l) = t
    BY <1>2 DEF UnlessIn
  <2> HIDE DEF t
  <2>3. Distinct(t) /\ Range(t) = {l}
    <3>1. \A y : y \in Range(t) <=> \E p \in 1..1 : t[p] = y
      BY <2>1, RangeOf
    <3>2. \A p \in 1..1 : p = 1
      OBVIOUS
    <3>3. QED BY <2>1, <3>1, <3>2 DEF Distinct
  <2>4. Range(s) \cap Range(t) = {}
    BY <1>2, <2>3
  <2>a. s \in Seq(Lines) /\ Distinct(s)
    OBVIOUS
  <2>5. s \o t \in Seq(Lines) /\ Distinct(s \o t) /\ Range(s \o t) = Range(s) \cup Range(t)
    BY <2>1, <2>a, <2>3, <2>4, DistinctConcat
  <2>b. Range(s \o t) = Q \cup (E \cup {l})
    BY <2>3, <2>5
  <2>6. QED BY <2>2, <2>5, <2>b
<1>3. QED BY <1>1, <1>2

\* The six lines of a cell are six, and those of a cell marked after the queue's.
LEMMA SixLines ==
  ASSUME NEW x \in Cells
  PROVE  LET on == LinesForCell(x)
         IN  /\ on \in Seq(Lines) /\ Len(on) = 6 /\ Distinct(on)
             /\ Range(on) = {on[1], on[2], on[3], on[4], on[5], on[6]}
             /\ \A i \in 1..6 : on[i] \in Lines
             /\ \A l \in Lines : l \in Range(on) <=> x \in CellsOn[l]
<1> DEFINE on == LinesForCell(x)
<1>1. /\ on \in Seq(Lines) /\ \A i \in 1..6 : on[i] \in Lines
  BY LinesForCellTyped
<1>2. /\ Len(on) = 6
      /\ on[1] = <<"row", LineIndex(x)["row"]>> /\ on[2] = <<"column", LineIndex(x)["column"]>>
      /\ on[3] = <<"diagonal", LineIndex(x)["diagonal"]>>
      /\ on[4] = <<"antiDiagonal", LineIndex(x)["antiDiagonal"]>>
      /\ on[5] = <<"ltp1", LineIndex(x)["ltp1"]>> /\ on[6] = <<"ltp2", LineIndex(x)["ltp2"]>>
  BY DEF LinesForCell, Line
<1> HIDE DEF on
<1>3. Distinct(on)
  BY <1>2 DEF Distinct
<1>4. Range(on) = {on[1], on[2], on[3], on[4], on[5], on[6]}
  <2>1. \A y : y \in Range(on) <=> \E p \in 1..6 : on[p] = y
    BY <1>1, <1>2, RangeOf
  <2>2. \A p \in 1..6 : p \in {1, 2, 3, 4, 5, 6}
    OBVIOUS
  <2>3. QED BY <2>1, <2>2
<1>5. ASSUME NEW l \in Lines PROVE l \in Range(on) <=> x \in CellsOn[l]
  <2>1. l = <<l[1], l[2]>> /\ l[1] \in LineTypes
    BY LineParts
  <2>2. x \in CellsOn[l] <=> LineIndex(x)[l[1]] = l[2]
    BY DEF CellsOn
  <2>3. QED BY <1>2, <1>4, <2>1, <2>2 DEF LineTypes
<1>6. QED BY <1>1, <1>2, <1>3, <1>4, <1>5 DEF on

OfTypes(T) == {l \in Lines : l[1] \in T}

\* The lines of one type, each once.
LEMMA LinesOfOneType ==
  ASSUME NEW type \in LineTypes
  PROVE  /\ LinesOfType(type) \in Seq(Lines) /\ Distinct(LinesOfType(type))
         /\ Range(LinesOfType(type)) = OfTypes({type})
<1> DEFINE s == LinesOfType(type)
<1>1. s \in Seq(Lines)
  BY LinesInOrder
<1>2. PICK n \in Nat : n = LineCount[type]
  BY kSAssumption DEF LineCount, LineTypes
<1>3. Len(s) = n /\ \A i \in 1..n : s[i] = <<type, i - 1>>
  BY <1>1, <1>2 DEF LinesOfType, Line
<1> HIDE DEF s
<1>4. Distinct(s)
  BY <1>3 DEF Distinct
<1>5. ASSUME NEW y \in Range(s) PROVE y \in OfTypes({type})
  <2>1. PICK i \in 1..n : s[i] = y
    BY <1>1, <1>3, <1>5, RangeOf
  <2>2. y \in Lines
    BY <1>1, <1>5, RangeOf
  <2>3. QED BY <1>3, <2>1, <2>2 DEF OfTypes
<1>6. ASSUME NEW y \in OfTypes({type}) PROVE y \in Range(s)
  <2>1. y \in Lines /\ y[1] = type
    BY <1>6 DEF OfTypes
  <2>2. y = <<type, y[2]>> /\ y[2] \in Nat /\ y[2] < n
    BY <1>2, <2>1, LineParts
  <2>3. y[2] + 1 \in 1..n /\ s[y[2] + 1] = <<type, y[2] + 1 - 1>> /\ y[2] + 1 - 1 = y[2]
    BY <1>3, <2>2
  <2>4. s[y[2] + 1] = y
    BY <2>2, <2>3
  <2>5. QED BY <1>1, <1>3, <2>3, <2>4, RangeOf
<1>7. QED BY <1>1, <1>4, <1>5, <1>6 DEF s

\* A sequence that lists the lines of the types T, each once.
Lists(s, T) == s \in Seq(Lines) /\ Distinct(s) /\ Range(s) = OfTypes(T)

LEMMA LinesOfMoreTypes ==
  ASSUME NEW s \in Seq(Lines), NEW T \in SUBSET LineTypes, Distinct(s), Range(s) = OfTypes(T),
         NEW type \in LineTypes, type \notin T, NEW r, r = s \o LinesOfType(type)
  PROVE  r \in Seq(Lines) /\ Distinct(r) /\ Range(r) = OfTypes(T \cup {type})
<1>1. PICK t : t = LinesOfType(type)
  OBVIOUS
<1>2. t \in Seq(Lines) /\ Distinct(t) /\ Range(t) = OfTypes({type})
  BY <1>1, LinesOfOneType
<1>3. Range(s) \cap Range(t) = {}
  BY <1>2 DEF OfTypes
<1>a. s \in Seq(Lines) /\ t \in Seq(Lines) /\ Distinct(s) /\ Distinct(t)
  BY <1>2
<1>4. s \o t \in Seq(Lines) /\ Distinct(s \o t) /\ Range(s \o t) = Range(s) \cup Range(t)
  BY <1>a, <1>3, DistinctConcat
<1>5. OfTypes(T) \cup OfTypes({type}) = OfTypes(T \cup {type})
  BY DEF OfTypes
<1>6. QED BY <1>1, <1>2, <1>4, <1>5

LEMMA MoreTypesListed ==
  ASSUME NEW s, NEW T \in SUBSET LineTypes, Lists(s, T), NEW type \in LineTypes, type \notin T
  PROVE  Lists(s \o LinesOfType(type), T \cup {type})
<1>1. PICK r : r = s \o LinesOfType(type)
  OBVIOUS
<1>2. s \in Seq(Lines) /\ Distinct(s) /\ Range(s) = OfTypes(T)
  BY DEF Lists
<1>3. r \in Seq(Lines) /\ Distinct(r) /\ Range(r) = OfTypes(T \cup {type})
  BY <1>1, <1>2, LinesOfMoreTypes
<1>4. QED BY <1>1, <1>3 DEF Lists

\* What the first call of propagation queues.
AllLines == BasicLines \o LinesOfType("ltp1") \o LinesOfType("ltp2")

LEMMA FirstLines ==
  /\ BasicLines \in Seq(Lines) /\ Distinct(BasicLines)
  /\ Range(BasicLines) = OfTypes({"row", "column", "diagonal", "antiDiagonal"})
  /\ AllLines \in Seq(Lines) /\ Distinct(AllLines) /\ Range(AllLines) = Lines
<1>1. \A type \in {"row", "column", "diagonal", "antiDiagonal", "ltp1", "ltp2"} : type \in LineTypes
  BY DEF LineTypes
<1>2. PICK a, A : a = LinesOfType("row") /\ A = {"row"}
  OBVIOUS
<1>a. Lists(a, A)
  BY <1>1, <1>2, LinesOfOneType DEF Lists
<1>3. PICK b, B : b = a \o LinesOfType("column") /\ B = A \cup {"column"}
  OBVIOUS
<1>b. Lists(b, B)
  <2>1. A \in SUBSET LineTypes /\ "column" \in LineTypes /\ "column" \notin A
    BY <1>1, <1>2
  <2>2. QED BY ONLY <1>3, <1>a, <2>1, MoreTypesListed, Zenon
<1>4. PICK c, C : c = b \o LinesOfType("diagonal") /\ C = B \cup {"diagonal"}
  OBVIOUS
<1>c. Lists(c, C)
  <2>1. B \in SUBSET LineTypes /\ "diagonal" \in LineTypes /\ "diagonal" \notin B
    BY <1>1, <1>2, <1>3
  <2>2. QED BY ONLY <1>4, <1>b, <2>1, MoreTypesListed, Zenon
<1>5. PICK d, D : d = c \o LinesOfType("antiDiagonal") /\ D = C \cup {"antiDiagonal"}
  OBVIOUS
<1>d. Lists(d, D)
  <2>1. C \in SUBSET LineTypes /\ "antiDiagonal" \in LineTypes /\ "antiDiagonal" \notin C
    BY <1>1, <1>2, <1>3, <1>4
  <2>2. QED BY ONLY <1>5, <1>c, <2>1, MoreTypesListed, Zenon
<1>6. PICK e, E : e = d \o LinesOfType("ltp1") /\ E = D \cup {"ltp1"}
  OBVIOUS
<1>e. Lists(e, E)
  <2>1. D \in SUBSET LineTypes /\ "ltp1" \in LineTypes /\ "ltp1" \notin D
    BY <1>1, <1>2, <1>3, <1>4, <1>5
  <2>2. QED BY ONLY <1>6, <1>d, <2>1, MoreTypesListed, Zenon
<1>7. PICK f, F : f = e \o LinesOfType("ltp2") /\ F = E \cup {"ltp2"}
  OBVIOUS
<1>f. Lists(f, F)
  <2>1. E \in SUBSET LineTypes /\ "ltp2" \in LineTypes /\ "ltp2" \notin E
    BY <1>1, <1>2, <1>3, <1>4, <1>5, <1>6
  <2>2. QED BY ONLY <1>7, <1>e, <2>1, MoreTypesListed, Zenon
<1>9. BasicLines = d /\ AllLines = f
  BY <1>2, <1>3, <1>4, <1>5, <1>6, <1>7 DEF BasicLines, AllLines
<1>10. OfTypes(F) = Lines
  BY <1>2, <1>3, <1>4, <1>5, <1>6, <1>7, LineParts DEF OfTypes, LineTypes
<1>11. D = {"row", "column", "diagonal", "antiDiagonal"}
  BY <1>2, <1>3, <1>4, <1>5
<1>12. QED BY <1>d, <1>f, <1>9, <1>10, <1>11 DEF Lists

-------------------------------------------------------------------------------
\* Whenever a cell is about to be forced, dirtyWords_ has room for what marking
\* its lines notes.
HasRoom ==
  prop = "run" => \A x \in Cells : IsFirst(x, ToForce) => ~Overruns(LinesForCell(x), queued, dirtyWords)

\* Every queued line has its word noted, and while a call runs queued_ and the
\* queue hold the same lines, each once.
QueueRight ==
  /\ queued \subseteq Lines /\ dirtyWords \in Seq(Int)
  /\ \A l \in queued : WordOf(l) \in Range(dirtyWords)
  /\ prop = "run" => queued = Range(work) /\ Distinct(work)

\* A call of propagation finds the queue emptied and queues its lines.
LEMMA PropagateQueues ==
  ASSUME QueueRight, NEW lines \in Seq(Lines), Distinct(lines), Propagate(lines)
  PROVE  QueueRight' /\ queued' = Range(lines) /\ work' = lines
<1>1. AfterReset = {}
  BY DEF QueueRight, AfterReset
<1>2. /\ queued' = Range(lines) /\ work' = lines
      /\ dirtyWords' = DirtyAfter(lines, {}, <<>>)[Len(lines)]
  BY <1>1 DEF Propagate, MarkAll
<1>3. {} \in SUBSET Lines /\ <<>> \in Seq(Int) /\ ~Overruns(lines, {}, <<>>)
  BY FirstMarksFit
<1>4. /\ dirtyWords' \in Seq(Int)
      /\ \A l \in {} \cup Range(lines) : WordOf(l) \in Range(dirtyWords')
  BY <1>2, <1>3, MarkNotes
<1>5. Range(lines) \subseteq Lines
  BY RangeOf
<1>6. \A l \in queued' : WordOf(l) \in Range(dirtyWords')
  BY <1>2, <1>4
<1>7. QED BY <1>2, <1>4, <1>5, <1>6 DEF QueueRight

\* Forcing a cell queues the lines it is on that are not queued yet.
LEMMA ForceQueues ==
  ASSUME QueueRight, HasRoom, work \in Seq(Lines), NEW x \in Cells, IsFirst(x, ToForce), prop = "run",
         work' = work \o UnlessIn(queued, LinesForCell(x)[1]) \o UnlessIn(queued, LinesForCell(x)[2])
                      \o UnlessIn(queued, LinesForCell(x)[3]) \o UnlessIn(queued, LinesForCell(x)[4])
                      \o UnlessIn(queued, LinesForCell(x)[5]) \o UnlessIn(queued, LinesForCell(x)[6]),
         MarkAll(LinesForCell(x), queued, dirtyWords)
  PROVE  QueueRight' /\ queued' = queued \cup Range(LinesForCell(x))
<1>1. PICK on : on = LinesForCell(x)
  OBVIOUS
<1>2. /\ on \in Seq(Lines) /\ Distinct(on) /\ Len(on) = 6
      /\ Range(on) = {on[1], on[2], on[3], on[4], on[5], on[6]}
      /\ \A i \in 1..6 : on[i] \in Lines
  BY <1>1, SixLines
<1>3. \A i, j \in 1..6 : i # j => on[i] # on[j]
  BY <1>2 DEF Distinct
<1>4. PICK O : O = {}
  OBVIOUS
<1>w. Queues(work, queued, O)
  BY <1>4 DEF QueueRight, Queues
<1>5. PICK a, A : a = work \o UnlessIn(queued, on[1]) /\ A = O \cup {on[1]}
  OBVIOUS
<1>a. Queues(a, queued, A)
  <2>1. on[1] \in Lines /\ on[1] \notin O
    BY <1>2, <1>3, <1>4
  <2>2. QED BY <1>5, <1>w, <2>1, QueueLine
<1>6. PICK b, B : b = a \o UnlessIn(queued, on[2]) /\ B = A \cup {on[2]}
  OBVIOUS
<1>b. Queues(b, queued, B)
  <2>1. on[2] \in Lines /\ on[2] \notin A
    BY <1>2, <1>3, <1>4, <1>5
  <2>2. QED BY <1>6, <1>a, <2>1, QueueLine
<1>7. PICK c, C : c = b \o UnlessIn(queued, on[3]) /\ C = B \cup {on[3]}
  OBVIOUS
<1>c. Queues(c, queued, C)
  <2>1. on[3] \in Lines /\ on[3] \notin B
    BY <1>2, <1>3, <1>4, <1>5, <1>6
  <2>2. QED BY <1>7, <1>b, <2>1, QueueLine
<1>8. PICK d, D : d = c \o UnlessIn(queued, on[4]) /\ D = C \cup {on[4]}
  OBVIOUS
<1>d. Queues(d, queued, D)
  <2>1. on[4] \in Lines /\ on[4] \notin C
    BY <1>2, <1>3, <1>4, <1>5, <1>6, <1>7
  <2>2. QED BY <1>8, <1>c, <2>1, QueueLine
<1>9. PICK e, E : e = d \o UnlessIn(queued, on[5]) /\ E = D \cup {on[5]}
  OBVIOUS
<1>e. Queues(e, queued, E)
  <2>1. on[5] \in Lines /\ on[5] \notin D
    BY <1>2, <1>3, <1>4, <1>5, <1>6, <1>7, <1>8
  <2>2. QED BY <1>9, <1>d, <2>1, QueueLine
<1>10. PICK f, F : f = e \o UnlessIn(queued, on[6]) /\ F = E \cup {on[6]}
  OBVIOUS
<1>f. Queues(f, queued, F)
  <2>1. on[6] \in Lines /\ on[6] \notin E
    BY <1>2, <1>3, <1>4, <1>5, <1>6, <1>7, <1>8, <1>9
  <2>2. QED BY <1>10, <1>e, <2>1, QueueLine
<1>12. work' = f
  BY <1>1, <1>5, <1>6, <1>7, <1>8, <1>9, <1>10
<1>13. queued' = queued \cup Range(on) /\ dirtyWords' = DirtyAfter(on, queued, dirtyWords)[Len(on)]
  BY <1>1 DEF MarkAll
<1>14. Distinct(work)' /\ Range(work') = queued'
  <2>1. F = Range(on)
    BY <1>2, <1>4, <1>5, <1>6, <1>7, <1>8, <1>9, <1>10
  <2>2. QED BY <1>f, <1>12, <1>13, <2>1 DEF Distinct, Queues
<1>15. ~Overruns(on, queued, dirtyWords)
  BY <1>1 DEF HasRoom
<1>16. /\ dirtyWords' \in Seq(Int)
       /\ \A l \in queued \cup Range(on) : WordOf(l) \in Range(dirtyWords')
  BY <1>2, <1>13, <1>15, MarkNotes DEF QueueRight
<1>17. QED BY <1>1, <1>2, <1>13, <1>14, <1>16 DEF QueueRight

\* The queue stays right as long as there is room.
LEMMA QueueStep ==
  ASSUME Ground, QueueRight, HasRoom, [Next]_vars PROVE QueueRight'
<1> USE DEF vars, engine, input, brancher, output, queue
<1>0. work \in Seq(Lines)
  BY DEF Ground, LinesTyped
<1>1. CASE Start
  <2>1. Propagate(BasicLines) \/ Propagate(AllLines)
    BY <1>1 DEF Start, AllLines
  <2>2. QED BY <2>1, FirstLines, PropagateQueues
<1>2. CASE TryPropagate
  <2>1. Top.cell \in Cells
    BY <1>2, FrameShape DEF Ground, TryPropagate, Top, Stages
  <2>2. CASE Propagate(LinesForCell(Top.cell))
    BY <2>1, <2>2, SixLines, PropagateQueues
  <2>3. CASE ~Propagate(LinesForCell(Top.cell))
    <3>1. UNCHANGED <<work, queued, dirtyWords>> /\ prop' # "run"
      BY <1>2, <2>3 DEF TryPropagate, TryPropagateCell
    <3>2. QED BY <3>1 DEF QueueRight
  <2>4. QED BY <2>2, <2>3
<1>3. CASE Propagating
  <2>1. CASE PopViolated
    BY <2>1 DEF PopViolated, QueueRight
  <2>2. CASE PopLine
    <3>1. /\ prop = "run" /\ prop' = prop /\ work # <<>> /\ work' = Tail(work)
          /\ queued' = queued \ {Head(work)} /\ dirtyWords' = dirtyWords
      BY <2>2 DEF PopLine
    <3>2. PICK n \in Nat : Len(work) = n + 1
      <4>1. Len(work) \in Nat /\ Len(work) # 0
        BY <1>0, <3>1
      <4>2. Len(work) - 1 \in Nat /\ Len(work) = (Len(work) - 1) + 1
        BY <4>1
      <4>3. QED BY <4>2
    <3>3. Len(work') = n /\ (\A i \in 1..n : work'[i] = work[i + 1]) /\ Head(work) = work[1] /\ work' \in Seq(Lines)
      BY <1>0, <3>1, <3>2
    <3>4. \A i, j \in 1..(n + 1) : i # j => work[i] # work[j]
      BY <3>1, <3>2 DEF QueueRight, Distinct
    <3>5. Distinct(work)'
      BY <3>3, <3>4 DEF Distinct
    <3>6. \A y : y \in Range(work) <=> \E p \in 1..(n + 1) : work[p] = y
      BY <1>0, <3>2, RangeOf
    <3>7. \A y : y \in Range(work') <=> \E p \in 1..n : work'[p] = y
      BY <3>3, RangeOf
    <3>8. \A p \in 1..(n + 1) : p = 1 \/ (p - 1 \in 1..n /\ (p - 1) + 1 = p)
      OBVIOUS
    <3>9. \A p \in 1..n : p + 1 \in 1..(n + 1) /\ p + 1 # 1 /\ 1 \in 1..(n + 1)
      OBVIOUS
    <3>10. Range(work') = Range(work) \ {Head(work)}
      <4>1. ASSUME NEW y \in Range(work') PROVE y \in Range(work) \ {Head(work)}
        <5>1. PICK p \in 1..n : work'[p] = y
          BY <3>7, <4>1
        <5>2. work[p + 1] = y /\ work[p + 1] # work[1]
          BY <3>3, <3>4, <3>9, <5>1
        <5>3. QED BY <3>3, <3>6, <3>9, <5>2
      <4>2. ASSUME NEW y \in Range(work), y # Head(work) PROVE y \in Range(work')
        <5>1. PICK p \in 1..(n + 1) : work[p] = y
          BY <3>6, <4>2
        <5>2. p # 1
          BY <3>3, <4>2, <5>1
        <5>3. p - 1 \in 1..n /\ work'[p - 1] = work[(p - 1) + 1] /\ (p - 1) + 1 = p
          BY <3>3, <3>8, <5>2
        <5>4. QED BY <3>7, <5>1, <5>3
      <4>3. QED BY <4>1, <4>2
    <3>11. QED BY <3>1, <3>5, <3>10 DEF QueueRight
  <2>3. CASE ForceCell
    <3>1. PICK x \in Cells :
            /\ IsFirst(x, ToForce) /\ MarkAll(LinesForCell(x), queued, dirtyWords)
            /\ work' = work \o UnlessIn(queued, LinesForCell(x)[1]) \o UnlessIn(queued, LinesForCell(x)[2])
                            \o UnlessIn(queued, LinesForCell(x)[3]) \o UnlessIn(queued, LinesForCell(x)[4])
                            \o UnlessIn(queued, LinesForCell(x)[5]) \o UnlessIn(queued, LinesForCell(x)[6])
      BY <2>3 DEF ForceCell, UnlessIn
    <3>2. prop = "run"
      BY <2>3 DEF ForceCell
    <3>3. QED BY <1>0, <3>1, <3>2, ForceQueues
  <2>4. CASE Quiesce
    BY <2>4 DEF Quiesce, QueueRight
  <2>5. QED BY <1>3, <2>1, <2>2, <2>3, <2>4 DEF Propagating, EngineStep
<1>4. CASE InitialInfeasible \/ InitialSolved \/ InitialBranch \/ Undo \/ Pop \/ Try \/ Contradiction
           \/ HashMismatch \/ Descend \/ Submit \/ Cleanup \/ Exhausted \/ UNCHANGED vars
  <2>1. UNCHANGED <<work, queued, dirtyWords, prop>>
    BY <1>4 DEF InitialInfeasible, InitialSolved, InitialBranch, Undo, Pop, Try, Contradiction,
       HashMismatch, Descend, Submit, Cleanup, Exhausted
  <2>2. QED BY <2>1 DEF QueueRight, Distinct
<1>5. QED BY <1>1, <1>2, <1>3, <1>4 DEF Next

\* A sequence that holds nothing twice is as long as its range is big.
LEMMA DistinctCount ==
  ASSUME NEW S, NEW s \in Seq(S), Distinct(s) PROVE Cardinality(Range(s)) = Len(s)
<1>1. PICK n \in Nat : n = Len(s)
  OBVIOUS
<1>2. s \in [1..n -> Range(s)] /\ \A y \in Range(s) : \E p \in 1..n : s[p] = y
  BY <1>1 DEF Range
<1>3. \A i, j \in 1..n : s[i] = s[j] => i = j
  BY <1>1 DEF Distinct
<1>4. s \in Bijection(1..n, Range(s))
  BY <1>2, <1>3 DEF Bijection, Injection, Surjection, IsInjective
<1>5. ExistsBijection(1..n, Range(s))
  BY <1>4 DEF ExistsBijection
<1>6. IsFiniteSet(1..n) /\ Cardinality(1..n) = n
  BY FS_Interval
<1>7. QED BY <1>1, <1>5, <1>6, FS_Bijection

-------------------------------------------------------------------------------
LEMMA AlwaysQueueRight == Spec /\ []HasRoom => []QueueRight
<1>1. Init => QueueRight
  <2>1. Init => queued = {} /\ dirtyWords = <<>> /\ prop = "idle"
    BY DEF Init, EngineInit
  <2>2. QED BY <2>1 DEF QueueRight
<1>2. Reach => Ground
  BY DEF Reach, Invariant, Ground
<1>3. Ground /\ QueueRight /\ HasRoom /\ [Next]_vars => QueueRight'
  BY QueueStep
<1>4. QED BY <1>1, <1>2, <1>3, AlwaysReach, PTL DEF Spec

\* While a call runs, the bits of queued_ are those of the lines that wait, each
\* once, as long as dirtyWords_ has room.
THEOREM QueueExact == Spec /\ []HasRoom => []QueuedExact
<1>1. ASSUME Reach, QueueRight PROVE QueuedExact
  <2>1. work \in Seq(Lines)
    BY <1>1 DEF Reach, Invariant, LinesTyped
  <2>2. prop = "run" => queued = Range(work) /\ Distinct(work)
    BY <1>1 DEF QueueRight
  <2>3. QED BY <2>1, <2>2, DistinctCount DEF QueuedExact
<1>2. QED BY <1>1, AlwaysReach, AlwaysQueueRight, PTL
-------------------------------------------------------------------------------
\* A step leaves a frame and what was assigned below it, or pushes the frame on
\* what a call of propagation that succeeded has left.
LEMMA BasesStay ==
  ASSUME Ground, Ground', [Next]_vars, Searching', NEW i \in 1..Len(frames')
  PROVE  \/ /\ Searching /\ i \in 1..Len(frames) /\ Base(i)' = Base(i) /\ Base(i) \in 0..Len(undoStack)
            /\ \A p \in 1..Base(i) : undoStack'[p] = undoStack[p] /\ cells'[undoStack[p]] = cells[undoStack[p]]
         \/ /\ InitialBranch \/ Descend
            /\ undoStack' = undoStack \o forced /\ Base(i)' = Len(undoStack')
<1> USE DEF vars, engine, input, brancher, output
<1>1. /\ frames \in Seq(Frame) /\ undoStack \in Seq(Cells) /\ forced \in Seq(Cells) /\ frames' \in Seq(Frame)
      /\ undoStack' \in Seq(Cells)
  BY DEF Ground, Typing
<1>2. PICK k \in Nat, n \in Nat : k = Len(frames) /\ n = Len(undoStack)
  BY <1>1
<1>3. \A j \in 1..k : frames[j].cell \in Cells /\ frames[j].nextValue \in 0..2 /\ frames[j].token \in Nat
  BY <1>2, FrameShape DEF Ground
<1>4. \A p \in 1..n : undoStack[p] \in Cells /\ cells[undoStack[p]] # Unassigned
  <2>1. \A p \in 1..n : undoStack[p] \in Cells
    BY <1>1, <1>2
  <2>2. \A p \in 1..n : p \in 1..Len(Trail) /\ Trail[p] = undoStack[p]
    BY <1>2, TrailShape DEF Ground
  <2>3. QED BY <2>1, <2>2 DEF Ground, Recorded
<1>5. CASE InitialBranch
  <2>1. frames = <<>> /\ pc' = "loop" /\ undoStack' = undoStack \o forced
        /\ \E x : frames' = Append(frames, [cell |-> x, nextValue |-> 0, token |-> 0])
    BY <1>5 DEF InitialBranch, Stages, Ground, Push, RecordForced
  <2>2. Len(frames') = 1 /\ frames'[1].nextValue = 0
    BY <2>1
  <2>3. i = 1
    BY <2>2
  <2>4. Base(i)' = Len(undoStack')
    BY <2>2, <2>3 DEF Base
  <2>5. QED BY <1>5, <2>1, <2>4
<1>6. CASE Searching /\ i \in 1..k
  <2>0. k \in 1..k /\ frames # <<>> /\ Top = frames[k]
    <3>1. k \in 1..k
      BY <1>6
    <3>2. QED BY <1>2, <3>1 DEF Top
  <2>1. /\ i < k => Holds(i)
        /\ pc # "loop" => Holds(k)
        /\ Base(i) \in 0..n
    <3>1. (i < k => Holds(i)) /\ (pc # "loop" => Holds(k))
      BY <1>2, <1>6, <2>0 DEF Ground, FramesHold
    <3>2. pc = "loop" /\ frames[k].nextValue > 0 => frames[k].token <= n
      BY <1>2, <1>6, <2>0 DEF Ground, FramesHold
    <3>3. Base(i) \in 0..n
      <4>1. CASE frames[i].nextValue = 0
        BY <1>2, <4>1 DEF Base
      <4>2. CASE frames[i].nextValue # 0 /\ Holds(i)
        BY <1>2, <1>3, <1>6, <4>2 DEF Base, Holds
      <4>3. CASE frames[i].nextValue # 0 /\ ~Holds(i)
        <5>1. i = k /\ pc = "loop" /\ frames[k].nextValue > 0
          BY <1>3, <1>6, <3>1, <4>3
        <5>2. QED BY <1>2, <1>3, <1>6, <3>2, <4>3, <5>1 DEF Base
      <4>4. QED BY <4>1, <4>2, <4>3
    <3>4. QED BY <3>1, <3>3
  <2>2. SUFFICES /\ Base(i)' = Base(i)
                 /\ \A p \in 1..Base(i) : undoStack'[p] = undoStack[p] /\ cells'[undoStack[p]] = cells[undoStack[p]]
    BY <1>2, <1>6, <2>1
  <2>3. CASE Undo
    <3>1. /\ frames' = frames /\ pc = "loop" /\ Top.nextValue > 0 /\ n > Top.token
          /\ Unassign(undoStack[n]) /\ undoStack' = SubSeq(undoStack, 1, n - 1)
      BY <1>2, <2>3 DEF Undo, ToUndo, UndoLast
    <3>2. n \in 1..n /\ Len(undoStack') = n - 1 /\ \A p \in 1..(n - 1) : undoStack'[p] = undoStack[p]
      <4>1. undoStack # <<>>
        <5>1. Top.token \in Nat /\ n # 0
          BY <1>3, <2>0, <3>1
        <5>2. QED BY <1>2, <5>1
      <4>2. QED BY <1>1, <1>2, <3>1, <4>1, ButLast
    <3>3. Base(i) <= n - 1 /\ Base(i) = frames[i].token /\ frames[i].nextValue # 0
      <4>1. CASE i = k
        BY <1>2, <1>3, <2>0, <2>1, <3>1, <3>2, <4>1 DEF Base
      <4>2. CASE i < k
        <5>1. frames[i].token < frames[k].token
          BY <1>2, <1>6, <2>0, <2>1, <3>1, <4>2 DEF Ground, FramesNest
        <5>2. frames[i].nextValue # 0
          BY <2>1, <4>2 DEF Holds
        <5>3. QED BY <1>3, <1>6, <2>0, <2>1, <3>1, <3>2, <5>1, <5>2 DEF Base
      <4>3. QED BY <1>6, <4>1, <4>2
    <3>4. \A p \in 1..(n - 1) : cells'[undoStack[p]] = cells[undoStack[p]]
      <4>1. undoStack[n] \in Cells
        BY <1>4, <3>2
      <4>2. \A y \in Cells \ {undoStack[n]} : cells'[y] = cells[y]
        BY <3>1, <4>1, UnassignEffect DEF Ground
      <4>3. \A p \in 1..(n - 1) : undoStack[p] # undoStack[n]
        <5>1. \A p \in 1..n : p \in 1..Len(Trail) /\ Trail[p] = undoStack[p]
          BY <1>2, TrailShape DEF Ground
        <5>2. QED BY <3>2, <5>1 DEF Ground, Recorded
      <4>4. QED BY <1>4, <4>2, <4>3
    <3>5. Base(i)' = Base(i)
      BY <3>1, <3>3 DEF Base
    <3>6. QED BY <2>1, <3>2, <3>3, <3>4, <3>5
  <2>4. CASE Pop
    <3>1. /\ frames' = SubSeq(frames, 1, k - 1) /\ UNCHANGED <<store, undoStack>> /\ pc = "loop"
      BY <1>2, <2>4 DEF Pop
    <3>2. Len(frames') = k - 1 /\ \A j \in 1..(k - 1) : frames'[j] = frames[j]
      BY <1>1, <1>2, <2>0, <3>1, ButLast
    <3>3. i \in 1..(k - 1) /\ frames'[i] = frames[i]
      BY <3>2
    <3>4. Base(i)' = Base(i)
      BY <3>1, <3>3 DEF Base
    <3>5. QED BY <3>1, <3>4 DEF store
  <2>5. CASE Try
    <3>1. /\ pc = "loop" /\ frames[k].nextValue < 2 /\ ~ToUndo
          /\ Assign(frames[k].cell, frames[k].nextValue) /\ undoStack' = Append(undoStack, frames[k].cell)
          /\ frames' = [frames EXCEPT ![k] = [cell |-> frames[k].cell, nextValue |-> frames[k].nextValue + 1, token |-> n]]
      BY <1>2, <2>0, <2>5 DEF Try, Top
    <3>2. /\ \A j \in 1..k : j # k => frames'[j] = frames[j]
          /\ frames'[k] = [cell |-> frames[k].cell, nextValue |-> frames[k].nextValue + 1, token |-> n]
      BY <1>1, <1>2, <2>0, <3>1
    <3>3. Len(undoStack') = n + 1 /\ \A p \in 1..n : undoStack'[p] = undoStack[p]
      BY <1>1, <1>2, <3>1
    <3>4. \A p \in 1..n : cells'[undoStack[p]] = cells[undoStack[p]]
      <4>1. cells[frames[k].cell] = Unassigned
        BY <1>6, <2>0, <3>1 DEF Ground, FramesHold
      <4>2. frames[k].nextValue \in {0, 1} /\ frames[k].cell \in Cells
        BY <1>3, <2>0, <3>1
      <4>3. \A y \in Cells \ {frames[k].cell} : cells'[y] = cells[y]
        BY <3>1, <4>2, AssignEffect DEF Ground
      <4>4. QED BY <1>4, <4>1, <4>3
    <3>5. Base(i)' = Base(i)
      <4>1. CASE i = k
        <5>1. Base(k) = n
          <6>1. CASE frames[k].nextValue = 0
            BY <1>2, <6>1 DEF Base
          <6>2. CASE frames[k].nextValue # 0
            <7>1. ~(n > frames[k].token)
              BY <1>2, <2>0, <3>1, <1>3, <6>2 DEF ToUndo
            <7>2. frames[k].token <= n
              BY <1>2, <1>6, <1>3, <2>0, <3>1, <6>2 DEF Ground, FramesHold
            <7>3. QED BY <1>3, <2>0, <6>2, <7>1, <7>2 DEF Base
          <6>3. QED BY <6>1, <6>2
        <5>2. frames'[k].nextValue # 0 /\ frames'[k].token = n
          BY <1>3, <2>0, <3>2
        <5>3. QED BY <4>1, <5>1, <5>2 DEF Base
      <4>2. CASE i # k
        BY <1>6, <2>1, <3>2, <4>2 DEF Base, Holds
      <4>3. QED BY <4>1, <4>2
    <3>6. QED BY <2>1, <3>3, <3>4, <3>5
  <2>6. CASE TryPropagate \/ Propagating
    <3>1. UNCHANGED <<frames, undoStack>>
      BY <2>6 DEF TryPropagate, Propagating
    <3>2. \A p \in 1..n : cells'[undoStack[p]] = cells[undoStack[p]]
      <4>1. CASE Propagating /\ ForceCell
        <5>1. PICK x \in Cells : IsFirst(x, ToForce) /\ Assign(x, forcing.value)
          BY <4>1 DEF ForceCell
        <5>2. cells[x] = Unassigned /\ forcing.value \in {0, 1}
          BY <5>1 DEF IsFirst, ToForce, UnknownOn, Ground, Typing, CellState, Unassigned
        <5>3. \A y \in Cells \ {x} : cells'[y] = cells[y]
          BY <5>1, <5>2, AssignEffect DEF Ground
        <5>4. QED BY <1>4, <5>2, <5>3
      <4>2. CASE TryPropagate \/ (Propagating /\ ~ForceCell)
        BY <4>2 DEF TryPropagate, Propagating, EngineStep, PopViolated, PopLine, Quiesce, store
      <4>3. QED BY <2>6, <4>1, <4>2
    <3>3. Base(i)' = Base(i)
      BY <3>1 DEF Base
    <3>4. QED BY <2>1, <3>1, <3>2, <3>3
  <2>7. CASE Contradiction \/ HashMismatch \/ Descend \/ Submit
    <3>1. /\ pc = "result" /\ UNCHANGED store
          /\ undoStack' = undoStack \/ undoStack' = undoStack \o forced
      BY <2>7 DEF Contradiction, HashMismatch, Descend, Submit, RecordForced
    <3>2. \A p \in 1..n : undoStack'[p] = undoStack[p]
      BY <1>1, <1>2, <3>1
    <3>3. \A j \in 1..k : frames'[j] = frames[j]
      <4>1. CASE Descend
        <5>1. PICK x \in Open : Push(x)
          BY <4>1 DEF Descend
        <5>2. QED BY <1>1, <1>2, <5>1 DEF Push
      <4>2. CASE Contradiction \/ HashMismatch \/ Submit
        BY <1>2, <4>2 DEF Contradiction, HashMismatch, Submit
      <4>3. QED BY <2>7, <4>1, <4>2
    <3>4. frames[i].nextValue # 0
      <4>1. Holds(i)
        BY <1>6, <2>1, <3>1
      <4>2. QED BY <4>1 DEF Holds
    <3>5. Base(i)' = Base(i)
      BY <1>6, <3>3, <3>4 DEF Base
    <3>6. QED BY <2>1, <3>1, <3>2, <3>5 DEF store
  <2>8. CASE Start \/ InitialInfeasible \/ InitialSolved \/ InitialBranch \/ Cleanup \/ Exhausted
    BY <1>6, <2>0, <2>8 DEF Start, InitialInfeasible, InitialSolved, InitialBranch, Cleanup, Exhausted, Searching
  <2>9. CASE UNCHANGED vars
    BY <2>9 DEF Base, store
  <2>10. QED BY <2>3, <2>4, <2>5, <2>6, <2>7, <2>8, <2>9 DEF Next
<1>7. CASE Descend /\ i \notin 1..k
  <2>1. undoStack' = undoStack \o forced /\ \E x : frames' = Append(frames, [cell |-> x, nextValue |-> 0, token |-> 0])
    BY <1>7 DEF Descend, Push, RecordForced
  <2>2. Len(frames') = k + 1 /\ frames'[k + 1].nextValue = 0
    BY <1>1, <1>2, <2>1
  <2>3. i = k + 1
    BY <1>7, <2>2
  <2>4. Base(i)' = Len(undoStack')
    BY <2>2, <2>3 DEF Base
  <2>5. QED BY <1>7, <2>1, <2>4
<1>8. CASE ~InitialBranch /\ ~Descend
  <2>1. Searching
    BY <1>8 DEF Searching, Next, Start, InitialInfeasible, InitialSolved, Undo, Pop, Try, TryPropagate,
       Contradiction, HashMismatch, Submit, Cleanup, Exhausted, Propagating
  <2>2. Len(frames') <= k
    <3>1. CASE Pop
      <4>1. frames' = SubSeq(frames, 1, k - 1) /\ frames # <<>>
        BY <1>2, <3>1 DEF Pop
      <4>2. Len(frames') = k - 1
        BY <1>1, <1>2, <4>1, ButLast
      <4>3. QED BY <4>2
    <3>2. CASE Try
      <4>1. \E f : frames' = [frames EXCEPT ![Len(frames)] = f]
        BY <3>2 DEF Try
      <4>2. QED BY <1>1, <1>2, <4>1
    <3>3. CASE ~Pop /\ ~Try
      <4>1. frames' = frames
        BY <1>8, <3>3 DEF Next, Start, InitialInfeasible, InitialSolved, Undo, TryPropagate,
           Contradiction, HashMismatch, Submit, Cleanup, Exhausted, Propagating
      <4>2. QED BY <1>2, <4>1
    <3>4. QED BY <3>1, <3>2, <3>3
  <2>3. i \in 1..k
    <3>1. Len(frames') \in Nat
      BY <1>1
    <3>2. QED BY <1>2, <2>2, <3>1
  <2>4. QED BY <1>6, <2>1, <2>3
<1>9. CASE Descend /\ i \in 1..k
  <2>1. Searching
    BY <1>9 DEF Descend, Searching
  <2>2. QED BY <1>6, <1>9, <2>1
<1>10. QED BY <1>5, <1>7, <1>8, <1>9
-------------------------------------------------------------------------------
\* The cells of the first n entries of the undo stack, and what they leave of a
\* line: how many of its cells, and how many ones.
Below(n)     == {undoStack[p] : p \in 1..n}
FreeAt(n, l) == Cardinality(CellsOn[l] \ Below(n))
RestAt(n, l) == target[l] - Cardinality({x \in CellsOn[l] \cap Below(n) : cells[x] = 1})

\* A line with u unknown cells and r ones still to place neither contradicts nor
\* forces anything.
Balanced(r, u) == 0 <= r /\ r <= u /\ (u > 0 => r # 0 /\ r # u)

Quiet(l) == ~Violated(l) /\ ~Forces(l)

\* Every line was propagated at the start and nothing has leaked.
Clean == api = "generator" /\ Leaked = {}

\* Every cell of the line is assigned and can be taken back.
Whole(l) == \A x \in CellsOn[l] : \E p \in 1..Len(Trail) : Trail[p] = x

\* A line that is whole has its sum; in a clean search no line has anything to say.
Fine(l)      == (Whole(l) => Residual(l) = 0) /\ (Clean => Quiet(l))
FineAt(n, l) == /\ CellsOn[l] \subseteq Below(n) => RestAt(n, l) = 0
                /\ Clean => Balanced(RestAt(n, l), FreeAt(n, l))

\* The cross-sums are numbers.
TargetTyped == target \in [Lines -> Int]

LEMMA LineNumbers ==
  ASSUME Ground, TargetTyped, NEW l \in Lines
  PROVE  Residual(l) \in Int /\ unknown[l] \in Nat
BY DEF Ground, TargetTyped, StoreTypeOK, Residual

LEMMA QuietBalanced ==
  ASSUME Ground, TargetTyped, NEW l \in Lines PROVE Quiet(l) <=> Balanced(Residual(l), unknown[l])
BY LineNumbers DEF Quiet, Violated, Forces, Balanced

\* A whole line has no unknown cell.
LEMMA WholeKnown ==
  ASSUME Ground, NEW l \in Lines, Whole(l) PROVE UnknownOn(l) = {} /\ unknown[l] = 0
<1>1. \A x \in CellsOn[l] : cells[x] # Unassigned
  BY DEF Whole, Ground, Recorded
<1>2. UnknownOn(l) = {}
  BY <1>1 DEF UnknownOn
<1>3. QED BY <1>2, FS_EmptySet DEF Ground, StatsExact

\* A line that says nothing is fine.
LEMMA QuietFine ==
  ASSUME Ground, TargetTyped, NEW l \in Lines, Quiet(l) PROVE Fine(l)
<1>1. ASSUME Whole(l) PROVE Residual(l) = 0
  <2>1. unknown[l] = 0
    BY <1>1, WholeKnown
  <2>2. QED BY <2>1, LineNumbers DEF Quiet, Violated
<1>2. QED BY <1>1 DEF Fine

\* When the trail is the undo stack, the line's state is the one the whole undo
\* stack leaves.
LEMMA FineAtTop ==
  Ground /\ TargetTyped /\ Trail = undoStack => \A l \in Lines : Fine(l) <=> FineAt(Len(undoStack), l)
<1> SUFFICES ASSUME Ground, TargetTyped, Trail = undoStack, NEW l \in Lines
             PROVE  Fine(l) <=> FineAt(Len(undoStack), l)
  OBVIOUS
<1>1. PICK n \in Nat : n = Len(undoStack)
  BY DEF Ground, Typing
<1>2. \A x : x \in Below(n) <=> \E p \in 1..n : Trail[p] = x
  BY DEF Below
<1>3. Whole(l) <=> CellsOn[l] \subseteq Below(n)
  BY <1>1, <1>2 DEF Whole
<1>4. \A x \in Below(n) : cells[x] # Unassigned
  BY <1>1, <1>2 DEF Ground, Recorded
<1>5. ASSUME {x \in CellsOn[l] \cap Below(n) : cells[x] = 1} = OnesOn(l) PROVE RestAt(n, l) = Residual(l)
  BY <1>5 DEF RestAt, Residual, Ground, StatsExact
<1>6. ASSUME CellsOn[l] \subseteq Below(n) PROVE RestAt(n, l) = Residual(l)
  <2>1. {x \in CellsOn[l] \cap Below(n) : cells[x] = 1} = OnesOn(l)
    BY <1>6 DEF OnesOn
  <2>2. QED BY <1>5, <2>1
<1>7. ASSUME Clean PROVE RestAt(n, l) = Residual(l) /\ FreeAt(n, l) = unknown[l]
  <2>1. \A x \in Cells : cells[x] # Unassigned => x \in Below(n)
    BY <1>1, <1>2, <1>7, TrailLeaked DEF OffTrail, Clean, Ground
  <2>2. CellsOn[l] \subseteq Cells
    BY DEF CellsOn
  <2>3. {x \in CellsOn[l] \cap Below(n) : cells[x] = 1} = OnesOn(l)
    BY <2>1, <2>2 DEF OnesOn, Unassigned
  <2>4. CellsOn[l] \ Below(n) = UnknownOn(l)
    BY <1>4, <2>1, <2>2 DEF UnknownOn
  <2>5. QED BY <1>5, <2>3, <2>4 DEF FreeAt, Ground, StatsExact
<1>8. CASE Clean
  BY <1>1, <1>3, <1>7, <1>8, QuietBalanced DEF Fine, FineAt
<1>9. CASE ~Clean
  BY <1>1, <1>3, <1>6, <1>9 DEF Fine, FineAt
<1>10. QED BY <1>8, <1>9

LEMMA FineAtTopNext ==
  (Ground /\ TargetTyped /\ Trail = undoStack => \A l \in Lines : Fine(l) <=> FineAt(Len(undoStack), l))'
BY FineAtTop, PTL

\* What the first entries of the undo stack leave of a line stays while they do.
LEMMA FineAtStays ==
  ASSUME NEW n \in Nat, NEW l \in Lines, FineAt(n, l), target' = target, Clean' => Clean,
         \A p \in 1..n : undoStack'[p] = undoStack[p] /\ cells'[undoStack[p]] = cells[undoStack[p]]
  PROVE  FineAt(n, l)'
<1>1. Below(n)' = Below(n)
  BY DEF Below
<1>2. \A x \in Below(n) : cells'[x] = cells[x]
  BY DEF Below
<1>3. {x \in CellsOn[l] \cap Below(n)' : cells'[x] = 1} = {x \in CellsOn[l] \cap Below(n) : cells[x] = 1}
  BY <1>1, <1>2
<1>4. RestAt(n, l)' = RestAt(n, l) /\ FreeAt(n, l)' = FreeAt(n, l)
  BY <1>1, <1>3 DEF RestAt, FreeAt
<1>5. QED BY <1>1, <1>4 DEF FineAt

\* What a step does to a line it does not touch.
LEMMA FineStays ==
  ASSUME NEW l \in Lines, Fine(l), Whole(l)' => Whole(l), Clean' => Clean,
         target' = target, ones'[l] = ones[l], unknown'[l] = unknown[l]
  PROVE  Fine(l)'
BY DEF Fine, Quiet, Violated, Forces, Residual

\* Every line has a cell.
LEMMA LinesNotEmpty == ASSUME NEW l \in Lines PROVE CellsOn[l] # {}
<1>1. l[1] \in LineTypes /\ l[2] \in Nat /\ l[2] < LineCount[l[1]]
  BY LineParts
<1>2. ASSUME NEW x \in Cells, LineIndex(x)[l[1]] = l[2] PROVE CellsOn[l] # {}
  BY <1>2 DEF CellsOn
<1>3. ASSUME NEW r \in Index, NEW c \in Index PROVE <<r, c>> \in Cells
  BY DEF Cells
<1>4. CASE l[1] = "row" \/ l[1] = "column"
  <2>1. l[2] \in Index
    BY <1>1, <1>4, kSAssumption DEF LineCount, Index
  <2>2. <<l[2], l[2]>> \in Cells /\ LineIndex(<<l[2], l[2]>>)[l[1]] = l[2]
    BY <1>3, <1>4, <2>1 DEF LineIndex
  <2>3. QED BY <1>2, <2>2
<1>5. CASE l[1] = "diagonal"
  <2>0. l[2] < 2 * kS - 1
    BY <1>1, <1>5 DEF LineCount
  <2>1. CASE l[2] <= kS - 1
    <3>1. kS - 1 - l[2] \in Index /\ 0 \in Index
      BY <1>1, <2>1, kSAssumption DEF Index
    <3>2. LineIndex(<<kS - 1 - l[2], 0>>)[l[1]] = 0 - (kS - 1 - l[2]) + (kS - 1)
      BY <1>5 DEF LineIndex
    <3>3. 0 - (kS - 1 - l[2]) + (kS - 1) = l[2]
      BY <1>1, kSAssumption
    <3>4. QED BY <1>2, <1>3, <3>1, <3>2, <3>3
  <2>2. CASE ~(l[2] <= kS - 1)
    <3>1. l[2] - (kS - 1) \in Index /\ 0 \in Index
      BY <1>1, <2>0, <2>2, kSAssumption DEF Index
    <3>2. LineIndex(<<0, l[2] - (kS - 1)>>)[l[1]] = (l[2] - (kS - 1)) - 0 + (kS - 1)
      BY <1>5 DEF LineIndex
    <3>3. (l[2] - (kS - 1)) - 0 + (kS - 1) = l[2]
      BY <1>1, kSAssumption
    <3>4. QED BY <1>2, <1>3, <3>1, <3>2, <3>3
  <2>3. QED BY <2>1, <2>2
<1>6. CASE l[1] = "antiDiagonal"
  <2>0. l[2] < 2 * kS - 1
    BY <1>1, <1>6 DEF LineCount
  <2>1. CASE l[2] <= kS - 1
    <3>1. l[2] \in Index /\ 0 \in Index
      BY <1>1, <2>1, kSAssumption DEF Index
    <3>2. LineIndex(<<l[2], 0>>)[l[1]] = l[2] + 0
      BY <1>6 DEF LineIndex
    <3>4. QED BY <1>1, <1>2, <1>3, <3>1, <3>2
  <2>2. CASE ~(l[2] <= kS - 1)
    <3>1. l[2] - (kS - 1) \in Index /\ kS - 1 \in Index
      BY <1>1, <2>0, <2>2, kSAssumption DEF Index
    <3>2. LineIndex(<<kS - 1, l[2] - (kS - 1)>>)[l[1]] = (kS - 1) + (l[2] - (kS - 1))
      BY <1>6 DEF LineIndex
    <3>3. (kS - 1) + (l[2] - (kS - 1)) = l[2]
      BY <1>1, kSAssumption
    <3>4. QED BY <1>2, <1>3, <3>1, <3>2, <3>3
  <2>3. QED BY <2>1, <2>2
<1>7. CASE l[1] = "ltp1" \/ l[1] = "ltp2"
  <2>1. l[2] \in Index
    BY <1>1, <1>7, kSAssumption DEF LineCount, Index
  <2>2. PICK x \in Cells, y \in Cells : ltp1[x] = l[2] /\ ltp2[y] = l[2]
    BY <2>1, ltpCoversAssumption
  <2>3. LineIndex(x)["ltp1"] = l[2] /\ LineIndex(y)["ltp2"] = l[2]
    BY <2>2 DEF LineIndex
  <2>4. QED BY <1>2, <1>7, <2>3
<1>8. QED BY <1>1, <1>4, <1>5, <1>6, <1>7 DEF LineTypes
-------------------------------------------------------------------------------
\* A line whose cells are being forced still says so.
InForce(l) ==
  /\ forcing.value # Unassigned /\ l = forcing.line
  /\ Residual(l) = IF forcing.value = 0 THEN 0 ELSE unknown[l]

\* While a call runs, a line that is not fine waits or is being forced; after a
\* value is tried only the lines of its cell may not be; after a call that
\* succeeded all are; and below every frame all were.
LinesWait   == prop = "run" => \A l \in Lines : l \in Range(work) \/ Fine(l) \/ InForce(l)
OthersFine  == pc = "try" => \A l \in Lines : Top.cell \in CellsOn[l] \/ Fine(l)
ResultFine  == Waiting /\ prop = "feasible" => \A l \in Lines : Fine(l)
FramesFine  == Searching => \A i \in 1..Len(frames) : \A l \in Lines : FineAt(Base(i), l)

LinesFine == LinesWait /\ OthersFine /\ ResultFine /\ FramesFine

\* A line that has been forced through says nothing more.
LEMMA ForcedThrough ==
  ASSUME Ground, TargetTyped, NEW l \in Lines, InForce(l), ToForce = {} PROVE Fine(l)
<1>1. UnknownOn(l) = {}
  BY DEF InForce, ToForce
<1>2. unknown[l] = 0
  BY <1>1, FS_EmptySet DEF Ground, StatsExact
<1>3. Residual(l) = 0
  BY <1>2 DEF InForce
<1>4. Quiet(l)
  BY <1>2, <1>3 DEF Quiet, Violated, Forces
<1>5. QED BY <1>4, QuietFine

LEMMA CleanBefore ==
  ASSUME Ground, Ground', [Next]_vars
  PROVE  target' = target /\ api' = api /\ (Clean' => Clean)
<1>1. Leaked \subseteq Leaked'
  BY LeakedStays DEF Ground
<1>2. target' = target /\ api' = api
  BY InputStays
<1>3. QED BY <1>1, <1>2 DEF Clean

\* A step that leaves the store and the trail alone leaves the lines alone.
LEMMA FineSame ==
  ASSUME NEW l \in Lines, Fine(l), UNCHANGED store, Trail' = Trail, target' = target, Clean' => Clean
  PROVE  Fine(l)'
<1>1. Whole(l)' => Whole(l)
  BY DEF Whole
<1>2. QED BY <1>1, FineStays DEF store

\* So does an assignment to a cell that is not on the line.
LEMMA FineElsewhere ==
  ASSUME Ground, NEW l \in Lines, NEW x \in Cells \ CellsOn[l], NEW v, Assign(x, v),
         Trail' = Append(Trail, x), target' = target, Clean' => Clean
  PROVE  /\ Fine(l) => Fine(l)'
         /\ ones'[l] = ones[l] /\ unknown'[l] = unknown[l]
<1>1. ones'[l] = ones[l] /\ unknown'[l] = unknown[l]
  BY DEF Assign
<1>2. Trail \in Seq(Cells)
  BY TrailShape DEF Ground
<1>3. PICK n \in Nat : n = Len(Trail)
  BY <1>2
<1>4. Len(Trail') = n + 1 /\ Trail'[n + 1] = x /\ \A p \in 1..n : Trail'[p] = Trail[p]
  BY <1>2, <1>3
<1>5. \A p \in 1..(n + 1) : p \in 1..n \/ p = n + 1
  OBVIOUS
<1>6. Whole(l)' => Whole(l)
  BY <1>3, <1>4, <1>5 DEF Whole
<1>7. QED BY <1>1, <1>6, FineStays

\* What the frames stand on stays fine.
LEMMA FramesFineStep ==
  ASSUME Ground, Ground', TargetTyped, TargetTyped', LinesFine, [Next]_vars PROVE FramesFine'
<1> SUFFICES ASSUME Searching', NEW i \in 1..Len(frames'), NEW l \in Lines PROVE FineAt(Base(i), l)'
  BY DEF FramesFine
<1> USE DEF vars, engine, input, brancher, output
<1>1. target' = target /\ (Clean' => Clean)
  BY CleanBefore
<1>2. CASE /\ Searching /\ i \in 1..Len(frames) /\ Base(i)' = Base(i) /\ Base(i) \in 0..Len(undoStack)
           /\ \A p \in 1..Base(i) : undoStack'[p] = undoStack[p] /\ cells'[undoStack[p]] = cells[undoStack[p]]
  <2>1. PICK n \in Nat : n = Base(i)
    BY <1>2
  <2>2. FineAt(n, l)
    BY <1>2, <2>1 DEF LinesFine, FramesFine
  <2>3. FineAt(n, l)'
    BY <1>1, <1>2, <2>1, <2>2, FineAtStays
  <2>4. n = Base(i)'
    BY <1>2, <2>1
  <2>5. QED BY <2>3, <2>4
<1>3. CASE /\ InitialBranch \/ Descend
           /\ undoStack' = undoStack \o forced /\ Base(i)' = Len(undoStack')
  <2>1. /\ pc \in {"initial", "result"} /\ prop = "feasible" /\ pc' = "loop" /\ UNCHANGED store
    BY <1>3 DEF InitialBranch, Descend
  <2>2. undoStack' \in Seq(Cells)
    BY DEF Ground, Typing
  <2>3. Trail' = undoStack' /\ Trail' = Trail
    BY <1>3, <2>1, <2>2 DEF Trail, Fresh
  <2>4. Fine(l)
    BY <2>1 DEF LinesFine, ResultFine, Waiting
  <2>5. Fine(l)'
    BY <1>1, <2>1, <2>3, <2>4, FineSame
  <2>6. FineAt(Len(undoStack), l)'
    BY <2>3, <2>5, FineAtTopNext
  <2>7. QED BY <1>3, <2>6
<1>4. QED BY <1>2, <1>3, BasesStay

\* When the top frame's next value is due, all lines are fine.
LEMMA FineBeforeTry ==
  ASSUME Ground, TargetTyped, LinesFine, pc = "loop", frames # <<>>, ~ToUndo
  PROVE  \A l \in Lines : Fine(l)
<1>1. PICK k \in Nat, n \in Nat : k = Len(frames) /\ n = Len(undoStack)
  BY DEF Ground, Typing
<1>2. k \in 1..k /\ Top = frames[k] /\ frames[k].nextValue \in 0..2 /\ frames[k].token \in Nat
  BY <1>1, FrameShape DEF Ground, Top
<1>3. Base(k) = n
  <2>1. CASE frames[k].nextValue = 0
    BY <1>1, <2>1 DEF Base
  <2>2. CASE frames[k].nextValue # 0
    <3>1. ~(n > frames[k].token)
      BY <1>1, <1>2, <2>2 DEF ToUndo
    <3>2. frames[k].token <= n
      BY <1>1, <1>2, <2>2 DEF Ground, FramesHold, Searching
    <3>3. QED BY <1>2, <2>2, <3>1, <3>2 DEF Base
  <2>3. QED BY <2>1, <2>2
<1>4. \A l \in Lines : FineAt(n, l)
  BY <1>1, <1>2, <1>3 DEF LinesFine, FramesFine, Searching
<1>5. Trail = undoStack
  BY TrailShape DEF Ground, Fresh
<1>6. QED BY <1>1, <1>4, <1>5, FineAtTop

\* Trying a value disturbs the lines of its cell only.
LEMMA OthersFineStep ==
  ASSUME Ground, Ground', TargetTyped, LinesFine, [Next]_vars PROVE OthersFine'
<1> SUFFICES ASSUME pc' = "try", NEW l \in Lines, Top'.cell \notin CellsOn[l] PROVE Fine(l)'
  BY DEF OthersFine
<1> USE DEF vars, engine, input, brancher, output
<1>1. target' = target /\ (Clean' => Clean)
  BY CleanBefore
<1>2. CASE Try
  <2>1. PICK k \in Nat : k = Len(frames)
    BY DEF Ground, Typing
  <2>2. k \in 1..k /\ Top = frames[k] /\ Top.nextValue \in 0..2 /\ Top.cell \in Cells /\ frames \in Seq(Frame)
    BY <1>2, <2>1, FrameShape DEF Ground, Try, Top, Typing
  <2>3. /\ pc = "loop" /\ frames # <<>> /\ ~ToUndo /\ Top.nextValue < 2
        /\ Assign(Top.cell, Top.nextValue) /\ undoStack' = Append(undoStack, Top.cell)
        /\ frames' = [frames EXCEPT ![k] = [cell |-> Top.cell, nextValue |-> Top.nextValue + 1, token |-> Len(undoStack)]]
    BY <1>2, <2>1, <2>2 DEF Try
  <2>4. Top'.cell = Top.cell
    BY <2>1, <2>2, <2>3 DEF Top
  <2>5. Trail = undoStack /\ undoStack \in Seq(Cells)
    BY <2>3, TrailShape DEF Ground, Fresh, Typing
  <2>6. Trail' = Append(Trail, Top.cell)
    <3>1. undoStack' \in Seq(Cells) /\ Fresh' = <<>>
      BY DEF Ground, Typing, Fresh
    <3>2. Trail' = undoStack'
      BY <3>1 DEF Trail
    <3>3. QED BY <2>3, <2>5, <3>2
  <2>7. Fine(l)
    BY <2>3, FineBeforeTry
  <2>8. Top.cell \in Cells \ CellsOn[l]
    BY <2>2, <2>4
  <2>9. QED BY <1>1, <2>3, <2>6, <2>7, <2>8, FineElsewhere
<1>3. CASE UNCHANGED vars
  <2>1. UNCHANGED store /\ Trail' = Trail /\ Top' = Top /\ pc = "try"
    BY <1>3 DEF Trail, Fresh, Top
  <2>2. Fine(l)
    BY <2>1 DEF LinesFine, OthersFine
  <2>3. QED BY <1>1, <2>1, <2>2, FineSame
<1>4. Try \/ UNCHANGED vars
  BY DEF Next, Start, InitialInfeasible, InitialSolved, InitialBranch, Undo, Pop, TryPropagate, Contradiction,
     HashMismatch, Descend, Submit, Cleanup, Exhausted, Propagating, PropagationPlaces, Ground,
     EngineStep, PopViolated, PopLine, ForceCell, Quiesce
<1>5. QED BY <1>2, <1>3, <1>4
\* A cell's lines, when none is violated and none forces, are fine; the rest were.
LEMMA TriedFine ==
  ASSUME Ground, TargetTyped, LinesFine, pc = "try", NEW l \in Lines,
         l \in Range(LinesForCell(Top.cell)) => ~Violated(l) /\ ~Forces(l)
  PROVE  Fine(l)
<1>1. Top.cell \in Cells
  BY FrameShape DEF Ground, Top, Stages
<1>2. l \in Range(LinesForCell(Top.cell)) <=> Top.cell \in CellsOn[l]
  BY <1>1, SixLines
<1>3. CASE Top.cell \in CellsOn[l]
  BY <1>2, <1>3, QuietFine DEF Quiet
<1>4. CASE Top.cell \notin CellsOn[l]
  BY <1>4 DEF LinesFine, OthersFine
<1>5. QED BY <1>3, <1>4

\* A call that succeeds leaves every line fine.
LEMMA ResultFineStep ==
  ASSUME Ground, Ground', TargetTyped, LinesFine, QueueRight, [Next]_vars PROVE ResultFine'
<1> SUFFICES ASSUME Waiting', prop' = "feasible", NEW l \in Lines PROVE Fine(l)'
  BY DEF ResultFine
<1> USE DEF vars, engine, input, brancher, output
<1>1. target' = target /\ (Clean' => Clean)
  BY CleanBefore
<1>2. CASE TryPropagate
  <2>1. /\ pc = "try" /\ pc' = "result" /\ UNCHANGED store /\ undoStack' = undoStack /\ forced' = <<>>
        /\ \A m \in Range(LinesForCell(Top.cell)) : ~Violated(m) /\ ~Forces(m)
    BY <1>2 DEF TryPropagate, TryPropagateCell, Propagate
  <2>2. Fine(l)
    BY <2>1, TriedFine
  <2>3. Trail' = Trail
    BY <2>1 DEF Trail, Fresh
  <2>4. QED BY <1>1, <2>1, <2>2, <2>3, FineSame
<1>3. CASE Propagating
  <2>1. CASE Quiesce
    <3>1. /\ prop = "run" /\ ToForce = {} /\ work = <<>> /\ UNCHANGED <<store, undoStack, pc, forced>>
      BY <1>3, <2>1 DEF Propagating, Quiesce
    <3>2. l \notin Range(work)
      <4>1. \A y : y \notin Range(<<>>)
        BY DEF Range
      <4>2. QED BY <3>1, <4>1
    <3>3. Fine(l) \/ InForce(l)
      BY <3>1, <3>2 DEF LinesFine, LinesWait
    <3>4. Fine(l)
      BY <3>1, <3>3, ForcedThrough
    <3>5. Trail' = Trail
      BY <3>1 DEF Trail, Fresh
    <3>6. QED BY <1>1, <3>1, <3>4, <3>5, FineSame
  <2>2. CASE PopViolated \/ PopLine \/ ForceCell
    BY <2>2 DEF PopViolated, PopLine, ForceCell
  <2>3. QED BY <1>3, <2>1, <2>2 DEF Propagating, EngineStep
<1>4. CASE UNCHANGED vars
  <2>1. UNCHANGED store /\ Trail' = Trail /\ Waiting /\ prop = "feasible"
    BY <1>4 DEF Trail, Fresh, Waiting
  <2>2. Fine(l)
    BY <2>1 DEF LinesFine, ResultFine
  <2>3. QED BY <1>1, <2>1, <2>2, FineSame
<1>5. TryPropagate \/ Propagating \/ UNCHANGED vars
  BY DEF Next, Start, Propagate, InitialInfeasible, InitialSolved, InitialBranch, Undo, Pop, Try, Contradiction,
     HashMismatch, Descend, Submit, Cleanup, Exhausted, Waiting
<1>6. QED BY <1>2, <1>3, <1>4, <1>5

\* While a call runs, no line that is not fine is lost sight of.
LEMMA LinesWaitStep ==
  ASSUME Ground, Ground', TargetTyped, LinesFine, QueueRight, QueueRight', HasRoom, [Next]_vars
  PROVE  LinesWait'
<1> SUFFICES ASSUME prop' = "run", NEW l \in Lines, ~Fine(l)', l \notin Range(work') PROVE InForce(l)'
  BY DEF LinesWait
<1> USE DEF vars, engine, input, brancher, output
<1>1. target' = target /\ api' = api /\ (Clean' => Clean)
  BY CleanBefore
<1>2. CASE Start
  <2>1. /\ Propagate(IF api = "callback" THEN BasicLines ELSE AllLines)
        /\ UNCHANGED store /\ undoStack' = undoStack /\ forced' = <<>> /\ undoStack = <<>>
    BY <1>2 DEF Start, Propagate, AllLines, Ground, Beginning
  <2>2. work' = IF api = "callback" THEN BasicLines ELSE AllLines
    BY <2>1 DEF Propagate
  <2>3. api = "callback"
    BY <2>2, FirstLines
  <2>4. ~Clean'
    BY <1>1, <2>3 DEF Clean
  <2>5. Trail' = <<>>
    BY <2>1 DEF Trail, Fresh
  <2>6. ~Whole(l)'
    <3>1. PICK x : x \in CellsOn[l]
      BY LinesNotEmpty
    <3>2. QED BY <2>5, <3>1 DEF Whole
  <2>7. QED BY <2>4, <2>6 DEF Fine
<1>3. CASE TryPropagate
  <2>1. pc = "try" /\ UNCHANGED store /\ undoStack' = undoStack /\ Top.cell \in Cells /\ pc' = "result"
    BY <1>3, FrameShape DEF TryPropagate, Ground, Top, Stages
  <2>2. Propagate(LinesForCell(Top.cell))
    BY <1>3 DEF TryPropagate, TryPropagateCell
  <2>3. work' = LinesForCell(Top.cell) /\ forced' = <<>>
    BY <2>2 DEF Propagate
  <2>4. Fine(l)
    BY <2>1, <2>3, TriedFine
  <2>5. Trail' = Trail
    BY <2>1, <2>3 DEF Trail, Fresh
  <2>6. QED BY <1>1, <2>1, <2>4, <2>5, FineSame
<1>4. CASE Propagating
  <2>1. CASE PopLine
    <3>1. /\ prop = "run" /\ ToForce = {} /\ work # <<>> /\ UNCHANGED <<store, undoStack, pc, forced>>
          /\ ~Violated(Head(work)) /\ queued' = queued \ {Head(work)}
          /\ forcing' = IF ~Forces(Head(work)) THEN NotForcing
                        ELSE [line |-> Head(work), value |-> IF Residual(Head(work)) = 0 THEN 0 ELSE 1]
      BY <1>4, <2>1 DEF Propagating, PopLine
    <3>2. Trail' = Trail
      BY <3>1 DEF Trail, Fresh
    <3>3. ~Fine(l)
      BY <1>1, <3>1, <3>2, FineSame
    <3>4. l \in Range(work)
      BY <3>1, <3>3, ForcedThrough DEF LinesFine, LinesWait
    <3>5. l = Head(work)
      BY <3>1, <3>4 DEF QueueRight
    <3>6. Forces(l) /\ ~Violated(l)
      BY <3>1, <3>3, <3>5, QuietFine DEF Quiet
    <3>7. forcing' = [line |-> l, value |-> IF Residual(l) = 0 THEN 0 ELSE 1]
      BY <3>1, <3>5, <3>6
    <3>8. forcing'.line = l /\ forcing'.value = IF Residual(l) = 0 THEN 0 ELSE 1
      BY <3>7
    <3>9. Residual(l)' = Residual(l) /\ unknown' = unknown
      BY <1>1, <3>1 DEF Residual, store
    <3>10. QED BY <3>6, <3>8, <3>9 DEF InForce, Forces, Unassigned
  <2>2. CASE ForceCell
    <3>1. PICK x \in Cells : /\ IsFirst(x, ToForce) /\ Assign(x, forcing.value) /\ forced' = Append(forced, x)
                             /\ queued' = queued \cup Range(LinesForCell(x))
      BY <2>2 DEF ForceCell, MarkAll
    <3>2. prop = "run" /\ UNCHANGED <<undoStack, pc, forcing>> /\ Waiting
      BY <1>4, <2>2 DEF Propagating, ForceCell, Ground, PropagationPlaces, Waiting
    <3>3. queued' = Range(work') /\ queued = Range(work)
      BY <3>2 DEF QueueRight
    <3>4. x \notin CellsOn[l] /\ l \notin Range(work)
      BY <3>1, <3>3, SixLines
    <3>5. Trail' = Append(Trail, x)
      <4>1. undoStack \in Seq(Cells) /\ forced \in Seq(Cells)
        BY DEF Ground, Typing
      <4>2. Trail = undoStack \o forced /\ Trail' = undoStack \o Append(forced, x)
        BY <3>1, <3>2 DEF Trail, Fresh, Waiting
      <4>3. QED BY <4>1, <4>2
    <3>6. x \in Cells \ CellsOn[l]
      BY <3>4
    <3>7. (Fine(l) => Fine(l)') /\ ones'[l] = ones[l] /\ unknown'[l] = unknown[l]
      BY <1>1, <3>1, <3>5, <3>6, FineElsewhere
    <3>8. InForce(l)
      BY <3>2, <3>4, <3>7 DEF LinesFine, LinesWait
    <3>9. QED BY <1>1, <3>2, <3>7, <3>8 DEF InForce, Residual
  <2>3. CASE PopViolated \/ Quiesce
    BY <2>3 DEF PopViolated, Quiesce
  <2>4. QED BY <1>4, <2>1, <2>2, <2>3 DEF Propagating, EngineStep
<1>5. CASE UNCHANGED <<store, undoStack, work, forcing, forced, pc, prop>>
  <2>1. UNCHANGED store /\ Trail' = Trail /\ prop = "run"
    BY <1>5 DEF Trail, Fresh
  <2>2. ~Fine(l) /\ l \notin Range(work)
    BY <1>1, <1>5, <2>1, FineSame
  <2>3. InForce(l)
    BY <2>1, <2>2 DEF LinesFine, LinesWait
  <2>4. QED BY <1>1, <1>5, <2>3 DEF InForce, Residual, store
<1>6. CASE InitialInfeasible \/ InitialSolved \/ InitialBranch \/ Undo \/ Pop \/ Try \/ Contradiction
           \/ HashMismatch \/ Descend \/ Submit \/ Cleanup \/ Exhausted
  <2>1. prop = "run" /\ pc \in {"initial", "result"}
    BY <1>6 DEF InitialInfeasible, InitialSolved, InitialBranch, Undo, Pop, Try, Contradiction,
       HashMismatch, Descend, Submit, Cleanup, Exhausted, Ground, PropagationPlaces
  <2>2. QED BY <1>6, <2>1 DEF InitialInfeasible, InitialSolved, InitialBranch, Undo, Pop, Try, Contradiction,
       HashMismatch, Descend, Submit, Cleanup, Exhausted
<1>7. QED BY <1>2, <1>3, <1>4, <1>5, <1>6 DEF Next
-------------------------------------------------------------------------------
\* Before the first branch everything assigned can be taken back.
EarlyClean == pc \in {"start", "initial"} => Leaked = {}

LEMMA EarlyCleanStep ==
  ASSUME Ground, Ground', EarlyClean, [Next]_vars PROVE EarlyClean'
<1> USE DEF vars, engine, input, brancher, output
<1>1. SUFFICES ASSUME pc' \in {"start", "initial"}, NEW y \in Cells, cells'[y] # Unassigned,
                      \A p \in 1..Len(Trail') : Trail'[p] # y
               PROVE  FALSE
  <2>1. Typing'
    BY DEF Ground
  <2>2. OffTrail'
    BY <2>1, TrailLeakedNext
  <2>3. QED BY <2>2 DEF OffTrail, EarlyClean
<1>2. pc \in {"start", "initial"} /\ (Start \/ Propagating \/ UNCHANGED vars)
  BY <1>1 DEF Next, Start, InitialInfeasible, InitialSolved, InitialBranch, Undo, Pop, Try, TryPropagate, Contradiction,
     HashMismatch, Descend, Submit, Cleanup, Exhausted, Propagating
<1>3. cells[y] # Unassigned => \E p \in 1..Len(Trail) : Trail[p] = y
  BY <1>2, TrailLeaked DEF OffTrail, EarlyClean, Ground
<1>4. undoStack \in Seq(Cells) /\ forced \in Seq(Cells) /\ undoStack = <<>>
  BY <1>2 DEF Ground, Typing, Beginning
<1>5. CASE Start
  <2>1. UNCHANGED store /\ undoStack' = undoStack /\ forced' = <<>> /\ pc = "start" /\ pc' = "initial"
    BY <1>5 DEF Start, Propagate
  <2>2. Trail' = Trail
    BY <1>4, <2>1 DEF Trail, Fresh
  <2>3. QED BY <1>1, <1>3, <2>1, <2>2 DEF store
<1>6. CASE Propagating /\ ForceCell
  <2>1. PICK x \in Cells : IsFirst(x, ToForce) /\ Assign(x, forcing.value) /\ forced' = Append(forced, x)
    BY <1>6 DEF ForceCell
  <2>2. cells[x] = Unassigned /\ forcing.value \in {0, 1}
    BY <2>1 DEF IsFirst, ToForce, UnknownOn, Ground, Typing, CellState, Unassigned
  <2>3. undoStack' = undoStack /\ pc = "initial" /\ pc' = "initial"
    BY <1>2, <1>6 DEF Propagating, ForceCell, Ground, PropagationPlaces
  <2>4. Trail = forced /\ Trail' = Append(forced, x)
    BY <1>4, <2>1, <2>3 DEF Trail, Fresh
  <2>5. PICK n \in Nat : n = Len(forced)
    BY <1>4
  <2>6. Len(Trail') = n + 1 /\ Trail'[n + 1] = x /\ \A p \in 1..n : Trail'[p] = forced[p]
    BY <1>4, <2>4, <2>5
  <2>7. y # x /\ \A p \in 1..n : Trail[p] # y
    <3>1. n + 1 \in 1..(n + 1) /\ \A p \in 1..n : p \in 1..(n + 1)
      OBVIOUS
    <3>2. QED BY <1>1, <2>4, <2>6, <3>1
  <2>8. cells'[y] = cells[y]
    BY <1>1, <2>1, <2>2, <2>7, AssignEffect DEF Ground
  <2>9. QED BY <1>1, <1>3, <2>4, <2>5, <2>7, <2>8
<1>7. CASE Propagating /\ ~ForceCell
  <2>1. UNCHANGED <<store, undoStack, forced, pc>>
    BY <1>7 DEF Propagating, EngineStep, PopViolated, PopLine, Quiesce
  <2>2. Trail' = Trail
    BY <2>1 DEF Trail, Fresh
  <2>3. QED BY <1>1, <1>3, <2>1, <2>2 DEF store
<1>8. CASE UNCHANGED vars
  <2>1. Trail' = Trail
    BY <1>8 DEF Trail, Fresh
  <2>2. QED BY <1>1, <1>3, <1>8, <2>1 DEF store
<1>9. QED BY <1>2, <1>5, <1>6, <1>7, <1>8

\* What the first propagation of a genuine block leaves agrees with its matrix.
LEMMA EarlyAgrees ==
  ASSUME Ground, EarlyClean, Genuine, pc = "initial" PROVE AgreesOn(original, Cells)
<1>1. undoStack = <<>> /\ Leaked = {}
  BY DEF Ground, Beginning, EarlyClean
<1>2. \A p \in 1..Len(undoStack) : cells[undoStack[p]] = original[undoStack[p]]
  BY <1>1
<1>3. QED BY <1>1, <1>2, AgreeingResult DEF Waiting

-------------------------------------------------------------------------------
\* The hash of a row as the store has it.
RowNow(r) == {c \in Index : cells[<<r, c>>] = 1}

LEMMA RowNowBits ==
  ASSUME Ground, NEW r \in Index
  PROVE  /\ RowBits(r) = RowNow(r)
         /\ \A c \in Index : <<r, c>> \in Cells
         /\ RowOf(r) \in Lines /\ \A c \in Index : <<r, c>> \in CellsOn[RowOf(r)]
         /\ CellsOn[RowOf(r)] = {<<r, c>> : c \in Index}
<1>1. \A c \in Index : <<r, c>> \in Cells
  BY DEF Cells
<1>2. RowOf(r) \in Lines /\ \A x \in Cells : x \in CellsOn[RowOf(r)] <=> x[1] = r
  <2>1. RowOf(r) \in Lines
    <3>1. 0 \in Index
      BY kSAssumption DEF Index
    <3>2. <<r, 0>> \in Cells /\ LineIndex(<<r, 0>>)["row"] = r
      BY <1>1, <3>1 DEF LineIndex
    <3>3. Line("row", LineIndex(<<r, 0>>)["row"]) \in Lines
      BY <3>2, LinesOfCell DEF LineTypes
    <3>4. QED BY <3>2, <3>3 DEF RowOf
  <2>2. QED BY <2>1 DEF CellsOn, RowOf, Line, LineIndex
<1>3. CellsOn[RowOf(r)] \subseteq Cells
  BY <1>2 DEF CellsOn
<1>4. CellsOn[RowOf(r)] = {<<r, c>> : c \in Index}
  <2>1. ASSUME NEW x \in CellsOn[RowOf(r)] PROVE x \in {<<r, c>> : c \in Index}
    <3>1. x = <<x[1], x[2]>> /\ x[1] = r /\ x[2] \in Index
      BY <1>2, <1>3, <2>1 DEF Cells
    <3>2. QED BY <3>1
  <2>2. \A c \in Index : <<r, c>> \in CellsOn[RowOf(r)]
    BY <1>1, <1>2
  <2>3. QED BY <2>1, <2>2
<1>5. RowBits(r) = RowNow(r)
  BY <1>1 DEF RowBits, RowNow, Ground, StatsExact
<1>6. QED BY <1>1, <1>2, <1>4, <1>5

\* Row r, if the first n entries of the undo stack complete it, has its hash.
RowAt(n, r) ==
  (\A c \in Index : <<r, c>> \in Below(n)) => Digest(hash, RowNow(r)) = lh[r]

\* Below every frame of a search for a genuine block the complete rows have theirs.
FramesRows == Genuine /\ Searching => \A i \in 1..Len(frames) : \A r \in Index : RowAt(Base(i), r)

\* After a call that succeeded, with the rows it completed hashed, a row that is
\* complete and can be taken back has its hash.
LEMMA ResultRows ==
  ASSUME Ground, FramesRows, Genuine, pc = "result", \A r \in CompletedRows : verifyRow(r),
         NEW r \in Index, \A c \in Index : \E p \in 1..Len(Trail) : Trail[p] = <<r, c>>
  PROVE  Digest(hash, RowNow(r)) = lh[r]
<1>1. PICK k \in Nat, n \in Nat, m \in Nat : k = Len(frames) /\ n = Len(undoStack) /\ m = Len(forced)
  BY DEF Ground, Typing
<1>2. k \in 1..k /\ Top = frames[k] /\ Top.token \in Nat /\ Holds(k) /\ Top.cell \in Cells
  BY <1>1, FrameShape DEF Ground, Stages, FramesHold, Searching, Top
<1>3. n = Top.token + 1 /\ Base(k) = Top.token /\ undoStack[n] = Top.cell
  BY <1>1, <1>2 DEF Ground, TopLast, Base, Holds
<1>4. /\ Len(Trail) = n + m
      /\ \A p \in 1..n : Trail[p] = undoStack[p]
      /\ \A p \in 1..m : Trail[n + p] = forced[p]
  <2>1. Trail = undoStack \o forced /\ undoStack \in Seq(Cells) /\ forced \in Seq(Cells)
    BY DEF Trail, Fresh, Ground, Typing
  <2>2. QED BY <1>1, <2>1
<1>5. CASE \A c \in Index : <<r, c>> \in Below(Top.token)
  BY <1>1, <1>2, <1>3, <1>5 DEF FramesRows, Searching, RowAt
<1>6. CASE \E c \in Index : <<r, c>> \notin Below(Top.token)
  <2>1. PICK c \in Index : <<r, c>> \notin Below(Top.token)
    BY <1>6
  <2>2. PICK p \in 1..(n + m) : Trail[p] = <<r, c>>
    BY <1>4
  <2>3. ~(p \in 1..Top.token)
    <3>1. ASSUME p \in 1..Top.token PROVE FALSE
      <4>1. p \in 1..n
        BY <1>2, <1>3, <3>1
      <4>2. undoStack[p] = <<r, c>>
        BY <1>4, <2>2, <4>1
      <4>3. QED BY <2>1, <3>1, <4>2 DEF Below
    <3>2. QED BY <3>1
  <2>4. <<r, c>> \in {Top.cell} \cup Range(forced)
    <3>0. PICK t \in Nat : t = Top.token /\ n = t + 1
      BY <1>2, <1>3
    <3>1. CASE p = n
      <4>1. n \in 1..n
        BY <3>0
      <4>2. Trail[n] = Top.cell
        BY <1>3, <1>4, <4>1
      <4>3. QED BY <2>2, <3>1, <4>2
    <3>2. CASE p # n
      <4>1. p - n \in 1..m /\ n + (p - n) = p
        BY <2>3, <3>0, <3>2
      <4>2. forced[p - n] = <<r, c>>
        BY <1>4, <2>2, <4>1
      <4>3. forced \in Seq(Cells)
        BY DEF Ground, Typing
      <4>4. QED BY <1>1, <4>1, <4>2, <4>3, RangeOf
    <3>3. QED BY <3>1, <3>2
  <2>5. unknown[RowOf(r)] = 0
    <3>1. \A d \in Index : cells[<<r, d>>] # Unassigned
      BY DEF Ground, Recorded
    <3>2. UnknownOn(RowOf(r)) = {}
      BY <3>1, RowNowBits DEF UnknownOn
    <3>3. QED BY <3>2, RowNowBits, FS_EmptySet DEF Ground, StatsExact
  <2>6. r \in CompletedRows
    <3>1. r \in {x[1] : x \in {Top.cell} \cup Range(forced)}
      BY <2>4
    <3>2. QED BY <2>5, <3>1 DEF CompletedRows
  <2>7. verifyRow(r)
    BY <2>6
  <2>8. QED BY <2>7, RowNowBits DEF verifyRow
<1>7. QED BY <1>5, <1>6

LEMMA AgreeingRowNow ==
  ASSUME Ground, Genuine, AgreesOn(original, Cells), NEW r \in Index,
         \A c \in Index : cells[<<r, c>>] # Unassigned
  PROVE  Digest(hash, RowNow(r)) = lh[r]
<1>1. UnknownOn(RowOf(r)) = {}
  BY RowNowBits DEF UnknownOn
<1>2. unknown[RowOf(r)] = 0
  BY <1>1, RowNowBits, FS_EmptySet DEF Ground, StatsExact
<1>3. QED BY <1>2, AgreeingRow, RowNowBits DEF verifyRow

\* What the frames stand on keeps its hashes.
LEMMA FramesRowsStep ==
  ASSUME Ground, Ground', EarlyClean, FramesRows, [Next]_vars PROVE FramesRows'
<1> SUFFICES ASSUME Genuine', Searching', NEW i \in 1..Len(frames'), NEW r \in Index,
                    \A c \in Index : <<r, c>> \in Below(Base(i))'
             PROVE  Digest(hash', RowNow(r)') = lh'[r]
  BY DEF FramesRows, RowAt
<1> USE DEF vars, engine, input, brancher, output
<1>1. Genuine /\ hash' = hash /\ lh' = lh
  BY InputStays
<1>2. CASE /\ Searching /\ i \in 1..Len(frames) /\ Base(i)' = Base(i) /\ Base(i) \in 0..Len(undoStack)
           /\ \A p \in 1..Base(i) : undoStack'[p] = undoStack[p] /\ cells'[undoStack[p]] = cells[undoStack[p]]
  <2>1. Below(Base(i))' = Below(Base(i))
    BY <1>2 DEF Below
  <2>2. \A c \in Index : <<r, c>> \in Below(Base(i)) /\ cells'[<<r, c>>] = cells[<<r, c>>]
    BY <1>2, <2>1 DEF Below
  <2>3. RowNow(r)' = RowNow(r)
    BY <2>2 DEF RowNow
  <2>4. RowAt(Base(i), r)
    BY <1>1, <1>2 DEF FramesRows
  <2>5. QED BY <1>1, <2>2, <2>3, <2>4 DEF RowAt
<1>3. CASE /\ InitialBranch \/ Descend
           /\ undoStack' = undoStack \o forced /\ Base(i)' = Len(undoStack')
  <2>1. pc \in {"initial", "result"} /\ UNCHANGED store
    BY <1>3 DEF InitialBranch, Descend
  <2>2. Trail = undoStack'
    BY <1>3, <2>1 DEF Trail, Fresh
  <2>3. \A c \in Index : \E p \in 1..Len(Trail) : Trail[p] = <<r, c>>
    BY <1>3, <2>2 DEF Below
  <2>4. RowNow(r)' = RowNow(r)
    BY <2>1 DEF RowNow, store
  <2>5. CASE InitialBranch
    <3>1. AgreesOn(original, Cells)
      BY <1>1, <2>5, EarlyAgrees DEF InitialBranch
    <3>2. \A c \in Index : cells[<<r, c>>] # Unassigned
      BY <2>3 DEF Ground, Recorded
    <3>3. QED BY <1>1, <2>4, <3>1, <3>2, AgreeingRowNow
  <2>6. CASE Descend
    <3>1. pc = "result" /\ \A q \in CompletedRows : verifyRow(q)
      BY <2>6 DEF Descend
    <3>2. QED BY <1>1, <2>3, <2>4, <3>1, ResultRows
  <2>7. QED BY <1>3, <2>5, <2>6
<1>4. QED BY <1>2, <1>3, BasesStay
-------------------------------------------------------------------------------
\* A candidate given out for a genuine block has the hash of every row none of
\* whose cells has leaked.
RowsUnlessLeaked ==
  Genuine =>
    \A m \in Range(submitted) \cup Range(yielded) : \A r \in Index :
      CellsOn[RowOf(r)] \cap Leaked = {} => Digest(hash, {c \in Index : <<r, c>> \in m}) = lh[r]

\* A step gives out the store's matrix, after a call that succeeded with nothing
\* left to branch on, or nothing.
LEMMA GivenOut ==
  ASSUME Ground, [Next]_vars, NEW m \in Range(submitted)' \cup Range(yielded)'
  PROVE  \/ m \in Range(submitted) \cup Range(yielded)
         \/ /\ m = rowBits /\ Open = {} /\ prop = "feasible"
            /\ \/ pc = "initial"
               \/ pc = "result" /\ \A r \in CompletedRows : verifyRow(r)
<1> USE DEF vars, engine, input, brancher, output
<1>1. submitted \in Seq(SUBSET Cells) /\ yielded \in Seq(SUBSET Cells)
  BY DEF Ground, Typing, Beginning
<1>2. CASE InitialSolved
  <2>1. submitted' = submitted /\ yielded' = Append(yielded, rowBits) /\ Open = {} /\ prop = "feasible" /\ pc = "initial"
    BY <1>2 DEF InitialSolved
  <2>2. Range(yielded') = Range(yielded) \cup {rowBits}
    BY <1>1, <2>1, AppendRange
  <2>3. QED BY <2>1, <2>2
<1>3. CASE Submit
  <2>1. yielded' = yielded /\ submitted' = Append(submitted, rowBits) /\ Open = {} /\ prop = "feasible" /\ pc = "result"
        /\ \A r \in CompletedRows : verifyRow(r)
    BY <1>3 DEF Submit
  <2>2. Range(submitted') = Range(submitted) \cup {rowBits}
    BY <1>1, <2>1, AppendRange
  <2>3. QED BY <2>1, <2>2
<1>4. CASE ~InitialSolved /\ ~Submit
  <2>1. UNCHANGED <<submitted, yielded>>
    BY <1>4 DEF Next, Start, InitialInfeasible, InitialBranch, Undo, Pop, Try, TryPropagate, Contradiction,
       HashMismatch, Descend, Cleanup, Exhausted, Propagating
  <2>2. QED BY <2>1
<1>5. QED BY <1>2, <1>3, <1>4

\* A line without leaked cells, with every cell assigned, is whole.
LEMMA NothingLeakedWhole ==
  ASSUME Ground, NEW l \in Lines, CellsOn[l] \cap Leaked = {}, \A x \in Cells : cells[x] # Unassigned
  PROVE  Whole(l)
<1>1. CellsOn[l] \subseteq Cells
  BY DEF CellsOn
<1>2. QED BY <1>1, TrailLeaked DEF OffTrail, Whole, Ground

LEMMA SumsStep ==
  ASSUME Ground, Ground', TargetTyped, LinesFine, SumsUnlessLeaked, [Next]_vars PROVE SumsUnlessLeaked'
<1> SUFFICES ASSUME NEW m \in Range(submitted)' \cup Range(yielded)', NEW l \in Lines,
                    CellsOn[l] \cap Leaked' = {}
             PROVE  Cardinality(CellsOn[l] \cap m) = target'[l]
  BY DEF SumsUnlessLeaked
<1>1. target' = target /\ Leaked \subseteq Leaked'
  BY CleanBefore, LeakedStays DEF Ground
<1>2. CellsOn[l] \cap Leaked = {}
  BY <1>1
<1>3. CASE m \in Range(submitted) \cup Range(yielded)
  BY <1>1, <1>2, <1>3 DEF SumsUnlessLeaked
<1>4. CASE m = rowBits /\ Open = {} /\ prop = "feasible" /\ pc \in {"initial", "result"}
  <2>1. Whole(l)
    BY <1>2, <1>4, NothingOpen, NothingLeakedWhole
  <2>2. Residual(l) = 0
    BY <1>4, <2>1 DEF LinesFine, ResultFine, Waiting, Fine
  <2>3. target[l] \in Int /\ ones[l] \in Nat
    BY DEF TargetTyped, Ground, StoreTypeOK
  <2>4. ones[l] = target[l]
    BY <2>2, <2>3 DEF Residual
  <2>5. OnesOn(l) = CellsOn[l] \cap rowBits
    <3>1. CellsOn[l] \subseteq Cells
      BY DEF CellsOn
    <3>2. QED BY <3>1 DEF OnesOn, Ground, StatsExact
  <2>6. ones[l] = Cardinality(OnesOn(l))
    BY DEF Ground, StatsExact
  <2>7. QED BY <1>1, <1>4, <2>4, <2>5, <2>6
<1>5. QED BY <1>3, <1>4, GivenOut

LEMMA RowsStep ==
  ASSUME Ground, Ground', EarlyClean, FramesRows, RowsUnlessLeaked, [Next]_vars PROVE RowsUnlessLeaked'
<1> SUFFICES ASSUME Genuine', NEW m \in Range(submitted)' \cup Range(yielded)', NEW r \in Index,
                    CellsOn[RowOf(r)] \cap Leaked' = {}
             PROVE  Digest(hash', {c \in Index : <<r, c>> \in m}) = lh'[r]
  BY DEF RowsUnlessLeaked
<1>1. Genuine /\ hash' = hash /\ lh' = lh
  BY InputStays
<1>2. CellsOn[RowOf(r)] \cap Leaked = {}
  BY LeakedStays DEF Ground
<1>3. CASE m \in Range(submitted) \cup Range(yielded)
  BY <1>1, <1>2, <1>3 DEF RowsUnlessLeaked
<1>4. CASE /\ m = rowBits /\ Open = {}
           /\ \/ pc = "initial"
              \/ pc = "result" /\ \A q \in CompletedRows : verifyRow(q)
  <2>1. \A c \in Index : cells[<<r, c>>] # Unassigned
    BY <1>4, NothingOpen, RowNowBits
  <2>2. {c \in Index : <<r, c>> \in m} = RowNow(r)
    BY <1>4, RowNowBits DEF RowBits
  <2>3. CASE pc = "initial"
    <3>1. AgreesOn(original, Cells)
      BY <1>1, <2>3, EarlyAgrees
    <3>2. QED BY <1>1, <2>1, <2>2, <3>1, AgreeingRowNow
  <2>4. CASE pc = "result" /\ \A q \in CompletedRows : verifyRow(q)
    <3>1. Whole(RowOf(r))
      BY <1>2, <1>4, NothingOpen, NothingLeakedWhole, RowNowBits
    <3>2. \A c \in Index : \E p \in 1..Len(Trail) : Trail[p] = <<r, c>>
      BY <3>1, RowNowBits DEF Whole
    <3>3. QED BY <1>1, <2>2, <2>4, <3>2, ResultRows
  <2>5. QED BY <1>4, <2>3, <2>4
<1>5. QED BY <1>3, <1>4, GivenOut

-------------------------------------------------------------------------------
\* The start of the lines' and of the candidates' invariants.
LEMMA CandidatesInit ==
  Init => TargetTyped /\ LinesFine /\ EarlyClean /\ FramesRows /\ SumsUnlessLeaked /\ RowsUnlessLeaked
<1> SUFFICES ASSUME Init
             PROVE  TargetTyped /\ LinesFine /\ EarlyClean /\ FramesRows /\ SumsUnlessLeaked /\ RowsUnlessLeaked
  OBVIOUS
<1> USE DEF Init, EngineInit, BranchingInit, StoreInit
<1>1. TargetTyped
  BY BlocksAssumption DEF TargetTyped
<1>2. LinesFine /\ FramesRows
  BY DEF LinesFine, LinesWait, OthersFine, ResultFine, FramesFine, FramesRows, Searching, Waiting
<1>3. EarlyClean
  BY DEF EarlyClean, Leaked
<1>4. Range(submitted) = {} /\ Range(yielded) = {}
  <2>1. Range(<<>>) = {}
    BY DEF Range
  <2>2. QED BY <2>1
<1>5. QED BY <1>1, <1>2, <1>3, <1>4 DEF SumsUnlessLeaked, RowsUnlessLeaked

LEMMA AlwaysFine == Spec /\ []HasRoom => [](TargetTyped /\ LinesFine /\ SumsUnlessLeaked)
<1>1. Ground /\ Ground' /\ TargetTyped /\ [Next]_vars => TargetTyped'
  <2>1. ASSUME Ground, TargetTyped, Ground', [Next]_vars PROVE TargetTyped'
    BY <2>1, CleanBefore DEF TargetTyped
  <2>2. QED BY <2>1
<1>2. Ground /\ Ground' /\ QueueRight /\ QueueRight' /\ HasRoom /\ TargetTyped /\ LinesFine /\ SumsUnlessLeaked /\ [Next]_vars
        => (LinesFine /\ SumsUnlessLeaked)'
  <2> SUFFICES ASSUME Ground, Ground', QueueRight, QueueRight', HasRoom, TargetTyped, LinesFine, SumsUnlessLeaked, [Next]_vars
               PROVE  (LinesFine /\ SumsUnlessLeaked)'
    OBVIOUS
  <2>1. TargetTyped'
    BY <1>1
  <2>2. LinesWait' /\ OthersFine' /\ ResultFine' /\ FramesFine'
    BY <2>1, LinesWaitStep, OthersFineStep, ResultFineStep, FramesFineStep
  <2>3. SumsUnlessLeaked'
    BY SumsStep
  <2>4. QED BY <2>2, <2>3 DEF LinesFine
<1>3. Reach => Ground
  BY DEF Reach, Invariant, Ground
<1>4. QED BY <1>1, <1>2, <1>3, CandidatesInit, AlwaysReach, AlwaysQueueRight, PTL DEF Spec

\* As long as dirtyWords_ has room: what is given out has the payload's sum on
\* every line without a leaked cell.
THEOREM SumsRight == Spec /\ []HasRoom => []SumsUnlessLeaked
BY AlwaysFine, PTL

\* What is given out for a genuine block has the hash of every row without a
\* leaked cell, though rows are hashed only when a branch completes them.
THEOREM RowsRight == Spec => []RowsUnlessLeaked
<1>1. Ground /\ Ground' /\ EarlyClean /\ FramesRows /\ RowsUnlessLeaked /\ [Next]_vars
        => (EarlyClean /\ FramesRows /\ RowsUnlessLeaked)'
  BY EarlyCleanStep, FramesRowsStep, RowsStep
<1>2. Reach => Ground
  BY DEF Reach, Invariant, Ground
<1>3. QED BY <1>1, <1>2, CandidatesInit, AlwaysReach, PTL DEF Spec

\* As long as dirtyWords_ has room, propagation is sound, settles every line it
\* was given, and keeps its queue.
THEOREM PropagationRight == Spec /\ []HasRoom => []PropagationSound
<1>1. ASSUME Reach, TargetTyped, LinesFine PROVE SoundForcing /\ SettledWhenFeasible
  <2>1. SoundForcing
    BY <1>1 DEF Reach, Invariant
  <2>2. SettledWhenFeasible
    BY <1>1 DEF SettledWhenFeasible, Settled, LinesFine, ResultFine, Waiting, Fine, Clean, Quiet
  <2>3. QED BY <2>1, <2>2
<1>2. SoundForcing /\ SettledWhenFeasible /\ QueuedExact => PropagationSound
  BY DEF PropagationSound
<1>3. QED BY <1>1, <1>2, AlwaysReach, AlwaysFine, QueueExact, PTL

\* While there is room, every candidate is right if nothing has leaked, and for
\* sums that are no matrix's whatever has leaked.
THEOREM CandidatesRightUnlessLeaked == Spec /\ []HasRoom => [](Leaked = {} \/ ~GenuineSums => CandidatesRight)
<1>1. ASSUME SumsUnlessLeaked, RowsUnlessLeaked, Leaked = {} \/ ~GenuineSums PROVE CandidatesRight
  <2>1. GenuineSums => SumsHold
    BY <1>1 DEF SumsUnlessLeaked, SumsHold
  <2>2. AllRowsVerifiedInline
    <3>1. Genuine => GenuineSums
      BY DEF Genuine, GenuineSums
    <3>2. QED BY <1>1, <3>1 DEF RowsUnlessLeaked, AllRowsVerifiedInline, Verified
  <2>3. QED BY <1>1, <2>1, <2>2 DEF CandidatesRight
<1>2. QED BY <1>1, SumsRight, RowsRight, PTL

-------------------------------------------------------------------------------

\* What TypeOK says beyond the types the search's invariant needs.
QueueTyped ==
  /\ queued \subseteq Lines
  /\ dirtyWords \in Seq(WordNumbers)
  /\ forcing \in [line : Lines, value : CellState]

InputTyped ==
  /\ target \in [Lines -> Int] /\ DOMAIN lh = Index
  /\ api \in {"callback", "generator"}

LEMMA QueueTypedStep ==
  ASSUME Ground, QueueTyped, [Next]_vars PROVE QueueTyped'
<1> USE DEF vars, engine, input, brancher, output, queue
<1>0. work \in Seq(Lines) /\ AfterReset \in SUBSET Lines /\ <<>> \in Seq(WordNumbers)
  BY DEF Ground, LinesTyped, QueueTyped, AfterReset
<1>1. ASSUME NEW lines \in Seq(Lines), Propagate(lines) PROVE QueueTyped'
  <2>1. MarkAll(lines, AfterReset, <<>>) /\ forcing' = NotForcing
    BY <1>1 DEF Propagate
  <2>2. queued' \subseteq Lines /\ dirtyWords' \in Seq(WordNumbers)
    BY <1>0, <2>1, MarkTyped
  <2>3. QED BY <2>1, <2>2, NotForcingTyped DEF QueueTyped
<1>2. CASE Start
  <2>1. Propagate(BasicLines) \/ Propagate(AllLines)
    BY <1>2 DEF Start, AllLines
  <2>2. QED BY <1>1, <2>1, FirstLines
<1>3. CASE TryPropagate
  <2>1. Top.cell \in Cells
    BY <1>3, FrameShape DEF Ground, TryPropagate, Top, Stages
  <2>2. CASE Propagate(LinesForCell(Top.cell))
    BY <1>1, <2>1, <2>2, LinesForCellTyped
  <2>3. CASE ~Propagate(LinesForCell(Top.cell))
    BY <1>3, <2>3 DEF TryPropagate, TryPropagateCell, QueueTyped
  <2>4. QED BY <2>2, <2>3
<1>4. CASE Propagating
  <2>1. CASE PopViolated
    BY <2>1, NotForcingTyped DEF PopViolated, QueueTyped
  <2>2. CASE PopLine
    <3>1. work # <<>>
      BY <2>2 DEF PopLine
    <3>2. Head(work) \in Lines
      BY <1>0, <3>1
    <3>3. /\ queued' = queued \ {Head(work)} /\ dirtyWords' = dirtyWords
          /\ \/ forcing' = NotForcing
             \/ \E v \in {0, 1} : forcing' = [line |-> Head(work), value |-> v]
      BY <2>2 DEF PopLine
    <3>4. forcing' \in [line : Lines, value : CellState]
      BY <3>2, <3>3, NotForcingTyped DEF CellState
    <3>5. QED BY <3>3, <3>4 DEF QueueTyped
  <2>3. CASE ForceCell
    <3>1. PICK x \in Cells : MarkAll(LinesForCell(x), queued, dirtyWords)
      BY <2>3 DEF ForceCell
    <3>2. LinesForCell(x) \in Seq(Lines)
      BY LinesForCellTyped
    <3>3. queued' \subseteq Lines /\ dirtyWords' \in Seq(WordNumbers)
      BY <3>1, <3>2, MarkTyped DEF QueueTyped
    <3>4. forcing' = forcing
      BY <2>3 DEF ForceCell
    <3>5. QED BY <3>3, <3>4 DEF QueueTyped
  <2>4. CASE Quiesce
    BY <2>4, NotForcingTyped DEF Quiesce, QueueTyped
  <2>5. QED BY <1>4, <2>1, <2>2, <2>3, <2>4 DEF Propagating, EngineStep
<1>5. CASE InitialInfeasible \/ InitialSolved \/ InitialBranch \/ Undo \/ Pop \/ Try \/ Contradiction
           \/ HashMismatch \/ Descend \/ Submit \/ Cleanup \/ Exhausted \/ UNCHANGED vars
  <2>1. UNCHANGED <<queued, dirtyWords, forcing>>
    BY <1>5 DEF InitialInfeasible, InitialSolved, InitialBranch, Undo, Pop, Try, Contradiction,
       HashMismatch, Descend, Submit, Cleanup, Exhausted
  <2>2. QED BY <2>1 DEF QueueTyped
<1>6. QED BY <1>2, <1>3, <1>4, <1>5 DEF Next

LEMMA AlwaysQueueTyped == Spec => [](QueueTyped /\ InputTyped)
<1>1. Init => QueueTyped /\ InputTyped
  <2> SUFFICES ASSUME Init PROVE QueueTyped /\ InputTyped
    OBVIOUS
  <2>1. QueueTyped
    <3>1. queued = {} /\ dirtyWords = <<>> /\ forcing = NotForcing
      BY DEF Init, EngineInit
    <3>2. QED BY <3>1, NotForcingTyped DEF QueueTyped
  <2>2. InputTyped
    BY BlocksAssumption DEF Init, InputTyped
  <2>3. QED BY <2>1, <2>2
<1>2. Ground /\ QueueTyped /\ InputTyped /\ [Next]_vars => QueueTyped' /\ InputTyped'
  <2> SUFFICES ASSUME Ground, QueueTyped, InputTyped, [Next]_vars PROVE QueueTyped' /\ InputTyped'
    OBVIOUS
  <2>1. UNCHANGED <<target, lh, api>>
    BY InputStays
  <2>2. InputTyped'
    BY <2>1 DEF InputTyped
  <2>3. QED BY <2>2, QueueTypedStep
<1>3. Reach => Ground
  BY DEF Reach, Invariant, Ground
<1>4. QED BY <1>1, <1>2, <1>3, AlwaysReach, PTL DEF Spec

\* Everything keeps to its type, also once dirtyWords_ has been overrun.
THEOREM SearchTyped == Spec => []TypeOK
<1>1. ASSUME Ground, QueueTyped, InputTyped PROVE TypeOK
  <2>1. EngineTypeOK
    BY <1>1 DEF EngineTypeOK, QueueTyped, InputTyped, Ground, Typing, LinesTyped, WordNumbers
  <2>2. BranchingTypeOK /\ StoreTypeOK
    BY <1>1 DEF BranchingTypeOK, Ground, Typing
  <2>3. QED BY <1>1, <2>1, <2>2 DEF TypeOK, InputTyped, Ground, Typing, LinesTyped, Beginning, Frame
<1>2. Reach => Ground
  BY DEF Reach, Invariant, Ground
<1>3. QED BY <1>1, <1>2, AlwaysReach, AlwaysQueueTyped, PTL

-------------------------------------------------------------------------------
\* Room for every line of a first call and for six more at every cell forced.
AmpleRoom == DirtyRoom >= Cardinality(Lines) + 6 * Cardinality(Cells)

Unassigneds == {x \in Cells : cells[x] = Unassigned}

\* While a call runs, what it may still note fits.
WithinRoom ==
  prop = "run" => Len(dirtyWords) + 6 * Cardinality(Unassigneds) <= Cardinality(Lines) + 6 * Cardinality(Cells)

LEMMA FiniteLines == IsFiniteSet(Lines)
<1> DEFINE Numbers == 0..(2 * kS)
<1>1. IsFiniteSet(LineTypes)
  <2>1. LineTypes = {"row"} \cup {"column"} \cup {"diagonal"} \cup {"antiDiagonal"} \cup {"ltp1"} \cup {"ltp2"}
    BY DEF LineTypes
  <2>2. QED BY <2>1, FS_Singleton, FS_Union
<1>2. IsFiniteSet(Numbers)
  BY kSAssumption, FS_Interval
<1>3. IsFiniteSet(LineTypes \X Numbers)
  BY <1>1, <1>2, FS_Product
<1>4. ASSUME NEW l \in Lines PROVE l \in LineTypes \X Numbers
  <2>1. LineCount[l[1]] <= 2 * kS /\ LineCount[l[1]] \in Nat
    BY LineParts, kSAssumption DEF LineCount, LineTypes
  <2>2. l[2] \in Numbers
    BY <2>1, LineParts, kSAssumption
  <2>3. QED BY <2>2, LineParts
<1>5. Lines \subseteq LineTypes \X Numbers
  BY <1>4
<1>6. QED BY <1>3, <1>5, FS_Subset

\* Marking as many lines as there is room for does not overrun.
LEMMA MarksCounted ==
  ASSUME NEW lines \in Seq(Lines), NEW bits, NEW dirty \in Seq(WordNumbers),
         Len(dirty) + Len(lines) <= DirtyRoom
  PROVE  /\ ~Overruns(lines, bits, dirty)
         /\ Len(DirtyAfter(lines, bits, dirty)[Len(lines)]) <= Len(dirty) + Len(lines)
<1> DEFINE after == DirtyAfter(lines, bits, dirty)
           G == {i \in Nat : after[i] \in Seq(WordNumbers) /\ Len(after[i]) <= Len(dirty) + i}
<1>1. PICK n \in Nat : n = Len(lines)
  OBVIOUS
<1>2. /\ after[0] = dirty
      /\ \A i \in 1..n : after[i] = IF IsFresh(lines, bits, i) THEN NoteDirty(after[i - 1], WordOf(lines[i]))
                                    ELSE after[i - 1]
  BY <1>1, DirtyUnfolds
<1>r. PICK k \in Nat : k = Len(dirty) /\ k + n <= DirtyRoom
  BY <1>1
<1> HIDE DEF after
<1>3. 0 \in G
  BY <1>2
<1>4. ASSUME NEW i \in 0..(n - 1), i \in G PROVE i + 1 \in G
  <2>1. i + 1 \in 1..n /\ (i + 1) - 1 = i /\ lines[i + 1] \in Lines
    BY <1>1
  <2>2. PICK w : w = WordOf(lines[i + 1])
    OBVIOUS
  <2>3. w \in WordNumbers
    BY <2>1, <2>2, WordBound DEF WordNumbers
  <2>4. PICK d \in Seq(WordNumbers) : d = after[i] /\ Len(d) <= k + i
    BY <1>4, <1>r
  <2>5. Len(d) < DirtyRoom
    BY <1>r, <2>4, QueueAssumption
  <2>6. NoteDirty(d, w) = Append(d, w)
    BY <2>5 DEF NoteDirty
  <2>7. Append(d, w) \in Seq(WordNumbers) /\ Len(Append(d, w)) <= k + (i + 1)
    BY <2>3, <2>4
  <2>8. after[i + 1] = d \/ after[i + 1] = Append(d, w)
    BY <1>2, <2>1, <2>2, <2>4, <2>6
  <2>9. after[i + 1] \in Seq(WordNumbers) /\ Len(after[i + 1]) <= k + (i + 1)
    <3>1. CASE after[i + 1] = d
      <4>1. Len(d) \in Nat /\ k + i <= k + (i + 1)
        BY <2>4
      <4>2. Len(d) <= k + (i + 1)
        BY <2>4, <4>1
      <4>3. QED BY <2>4, <3>1, <4>2
    <3>2. CASE after[i + 1] = Append(d, w)
      BY <2>7, <3>2
    <3>3. QED BY <2>8, <3>1, <3>2
  <2>10. QED BY <1>4, <1>r, <2>9
<1> HIDE DEF G
<1>5. \A i \in 0..n : i \in G
  BY <1>3, <1>4, InductionUpTo
<1>6. ASSUME NEW i \in 1..n PROVE ~(Len(after[i - 1]) >= DirtyRoom)
  <2>1. i - 1 \in 0..n /\ i - 1 \in G
    BY <1>5
  <2>2. after[i - 1] \in Seq(WordNumbers) /\ Len(after[i - 1]) <= k + (i - 1)
    BY <1>r, <2>1 DEF G
  <2>3. QED BY <1>r, <2>2, QueueAssumption
<1>7. Len(after[n]) <= k + n
  <2>1. n \in G
    BY <1>5
  <2>2. QED BY <1>r, <2>1 DEF G
<1>8. QED BY <1>1, <1>r, <1>6, <1>7 DEF Overruns, after

\* A sequence of lines without repetition is no longer than there are lines.
LEMMA DistinctLines ==
  ASSUME NEW lines \in Seq(Lines), Distinct(lines)
  PROVE  Cardinality(Lines) \in Nat /\ Len(lines) \in Nat /\ Len(lines) <= Cardinality(Lines)
<1>1. Range(lines) \subseteq Lines
  BY RangeOf
<1>2. Cardinality(Range(lines)) = Len(lines)
  BY DistinctCount
<1>3. Cardinality(Range(lines)) <= Cardinality(Lines)
  BY <1>1, FiniteLines, FS_Subset
<1>4. QED BY <1>2, <1>3, FiniteLines, FS_CardinalityType

\* Over a store with as many free cells as it has, the six lines of one more fit.
LEMMA RoomToForce ==
  ASSUME AmpleRoom, QueueTyped, WithinRoom, prop = "run", NEW x \in Unassigneds
  PROVE  /\ Len(dirtyWords) + 6 <= DirtyRoom
         /\ \A S : S = Unassigneds \ {x} =>
              (Len(dirtyWords) + 6) + 6 * Cardinality(S) <= Cardinality(Lines) + 6 * Cardinality(Cells)
<1>1. PICK S : S = Unassigneds \ {x}
  OBVIOUS
<1>2. IsFiniteSet(Unassigneds) /\ IsFiniteSet(S)
  BY <1>1, FiniteCells, FS_Subset DEF Unassigneds
<1>3. Cardinality(S) = Cardinality(Unassigneds) - 1
  BY <1>1, <1>2, FS_RemoveElement
<1>4. Cardinality(S) \in Nat /\ Cardinality(Unassigneds) \in Nat /\ Cardinality(Lines) \in Nat /\ Cardinality(Cells) \in Nat
  BY <1>2, FiniteLines, FiniteCells, FS_CardinalityType
<1>5. Len(dirtyWords) \in Nat
  BY DEF QueueTyped
<1>6. Len(dirtyWords) + 6 * Cardinality(Unassigneds) <= Cardinality(Lines) + 6 * Cardinality(Cells)
  BY DEF WithinRoom
<1>7. DirtyRoom \in Nat /\ Cardinality(Lines) + 6 * Cardinality(Cells) <= DirtyRoom
  BY <1>4, QueueAssumption DEF AmpleRoom
<1>8. PICK s, u, n, c, d \in Nat : /\ s = Cardinality(S) /\ u = Cardinality(Unassigneds) /\ n = Cardinality(Lines)
                                   /\ c = Cardinality(Cells) /\ d = Len(dirtyWords)
  BY <1>4, <1>5
<1>9. s = u - 1 /\ d + 6 * u <= n + 6 * c /\ n + 6 * c <= DirtyRoom
  BY <1>3, <1>6, <1>7, <1>8
<1>10. d + 6 <= DirtyRoom /\ (d + 6) + 6 * s <= n + 6 * c
  BY <1>7, <1>9
<1>11. QED BY <1>1, <1>8, <1>10

LEMMA WithinRoomHasRoom ==
  ASSUME AmpleRoom, QueueTyped, WithinRoom PROVE HasRoom
<1>1. ASSUME prop = "run", NEW x \in Cells, IsFirst(x, ToForce)
      PROVE  ~Overruns(LinesForCell(x), queued, dirtyWords)
  <2>1. x \in Unassigneds
    BY <1>1 DEF IsFirst, ToForce, UnknownOn, Unassigneds
  <2>2. Len(dirtyWords) + 6 <= DirtyRoom
    BY <1>1, <2>1, RoomToForce
  <2>3. LinesForCell(x) \in Seq(Lines) /\ Len(LinesForCell(x)) = 6
    BY SixLines
  <2>4. QED BY <2>2, <2>3, MarksCounted DEF QueueTyped
<1>2. QED BY <1>1 DEF HasRoom

\* With ample room there is always room.
LEMMA WithinRoomStep ==
  ASSUME AmpleRoom, Ground, QueueTyped, WithinRoom, [Next]_vars PROVE WithinRoom'
<1> USE DEF vars, engine, input, brancher, output, queue
<1>0. <<>> \in Seq(WordNumbers) /\ Len(<<>>) = 0
  OBVIOUS
<1>1. ASSUME NEW lines \in Seq(Lines), Distinct(lines), Propagate(lines), UNCHANGED cells PROVE WithinRoom'
  <2>1. dirtyWords' = DirtyAfter(lines, AfterReset, <<>>)[Len(lines)]
    BY <1>1 DEF Propagate, MarkAll
  <2>2. Cardinality(Lines) \in Nat /\ Len(lines) \in Nat /\ Len(lines) <= Cardinality(Lines)
    BY <1>1, DistinctLines
  <2>3. IsFiniteSet(Unassigneds) /\ Unassigneds \subseteq Cells
    BY FiniteCells, FS_Subset DEF Unassigneds
  <2>4. /\ Cardinality(Unassigneds) \in Nat /\ Cardinality(Cells) \in Nat
        /\ Cardinality(Unassigneds) <= Cardinality(Cells)
    BY <2>3, FiniteCells, FS_Subset, FS_CardinalityType
  <2>5. Len(<<>>) + Len(lines) <= DirtyRoom
    BY <1>0, <2>2, <2>4, QueueAssumption DEF AmpleRoom
  <2>6. Len(dirtyWords') <= Len(<<>>) + Len(lines)
    BY <1>0, <2>1, <2>5, MarksCounted
  <2>7. dirtyWords' \in Seq(WordNumbers)
    BY <1>0, <2>1, DirtyTyped
  <2>8. Len(dirtyWords') \in Nat /\ Len(dirtyWords') <= Cardinality(Lines)
    BY <1>0, <2>2, <2>6, <2>7
  <2>9. Unassigneds' = Unassigneds
    BY <1>1 DEF Unassigneds
  <2>10. QED BY <2>2, <2>4, <2>8, <2>9 DEF WithinRoom
<1>2. CASE Start
  <2>1. (Propagate(BasicLines) \/ Propagate(AllLines)) /\ UNCHANGED cells
    BY <1>2 DEF Start, AllLines, store
  <2>2. QED BY <1>1, <2>1, FirstLines
<1>3. CASE TryPropagate
  <2>1. Top.cell \in Cells /\ UNCHANGED cells
    BY <1>3, FrameShape DEF Ground, TryPropagate, Top, Stages, store
  <2>2. CASE Propagate(LinesForCell(Top.cell))
    BY <1>1, <2>1, <2>2, SixLines
  <2>3. CASE ~Propagate(LinesForCell(Top.cell))
    <3>1. prop' # "run"
      BY <1>3, <2>3 DEF TryPropagate, TryPropagateCell
    <3>2. QED BY <3>1 DEF WithinRoom
  <2>4. QED BY <2>2, <2>3
<1>4. CASE Propagating
  <2>1. CASE PopViolated \/ Quiesce
    BY <2>1 DEF PopViolated, Quiesce, WithinRoom
  <2>2. CASE PopLine
    BY <2>2 DEF PopLine, WithinRoom, Unassigneds, store
  <2>3. CASE ForceCell
    <3>1. PICK x \in Cells : /\ IsFirst(x, ToForce) /\ Assign(x, forcing.value)
                             /\ MarkAll(LinesForCell(x), queued, dirtyWords)
      BY <2>3 DEF ForceCell
    <3>2. prop = "run" /\ prop' = prop
      BY <2>3 DEF ForceCell
    <3>3. x \in Unassigneds /\ forcing.value # Unassigned
      BY <3>1 DEF IsFirst, ToForce, UnknownOn, Unassigneds
    <3>4. cells' = [cells EXCEPT ![x] = forcing.value] /\ cells \in [Cells -> CellState]
      BY <3>1 DEF Assign, Ground, StoreTypeOK
    <3>5. Unassigneds' = Unassigneds \ {x}
      <4>1. \A y \in Cells : cells'[y] = IF y = x THEN forcing.value ELSE cells[y]
        BY <3>4
      <4>2. QED BY <3>3, <4>1 DEF Unassigneds
    <3>6. LinesForCell(x) \in Seq(Lines) /\ Len(LinesForCell(x)) = 6
      BY SixLines
    <3>7. Len(dirtyWords) + 6 <= DirtyRoom /\ dirtyWords \in Seq(WordNumbers)
      BY <3>2, <3>3, RoomToForce DEF QueueTyped
    <3>8. Len(dirtyWords') <= Len(dirtyWords) + 6
      BY <3>1, <3>6, <3>7, MarksCounted DEF MarkAll
    <3>9. dirtyWords' \in Seq(WordNumbers)
      BY <3>1, <3>6, <3>7, DirtyTyped DEF MarkAll
    <3>10. (Len(dirtyWords) + 6) + 6 * Cardinality(Unassigneds') <= Cardinality(Lines) + 6 * Cardinality(Cells)
      BY <3>2, <3>3, <3>5, RoomToForce
    <3>11. Cardinality(Unassigneds') \in Nat
      <4>1. IsFiniteSet(Unassigneds \ {x})
        BY FiniteCells, FS_Subset DEF Unassigneds
      <4>2. QED BY <3>5, <4>1, FS_CardinalityType
    <3>12. Len(dirtyWords') \in Nat /\ Len(dirtyWords) \in Nat /\ Cardinality(Lines) \in Nat /\ Cardinality(Cells) \in Nat
      BY <3>7, <3>9, FiniteLines, FiniteCells, FS_CardinalityType
    <3>13. Len(dirtyWords') + 6 * Cardinality(Unassigneds') <= Cardinality(Lines) + 6 * Cardinality(Cells)
      BY <3>8, <3>10, <3>11, <3>12
    <3>14. QED BY <3>13 DEF WithinRoom
  <2>4. QED BY <1>4, <2>1, <2>2, <2>3 DEF Propagating, EngineStep
<1>5. CASE Undo \/ Try \/ Cleanup
  <2>1. prop' = prop /\ prop # "run"
    BY <1>5 DEF Undo, Try, Cleanup, Ground, PropagationPlaces
  <2>2. QED BY <2>1 DEF WithinRoom
<1>6. CASE InitialInfeasible \/ InitialSolved \/ InitialBranch \/ Pop \/ Contradiction
           \/ HashMismatch \/ Descend \/ Submit \/ Exhausted \/ UNCHANGED vars
  <2>1. UNCHANGED <<cells, dirtyWords, prop>>
    BY <1>6 DEF InitialInfeasible, InitialSolved, InitialBranch, Pop, Contradiction,
       HashMismatch, Descend, Submit, Exhausted, store
  <2>2. QED BY <2>1 DEF WithinRoom, Unassigneds
<1>7. QED BY <1>2, <1>3, <1>4, <1>5, <1>6 DEF Next

\* With ample room dirtyWords_ is never overrun, so all that holds as long as it
\* has room holds of every search.
THEOREM AmpleRoomSuffices == AmpleRoom => (Spec => [](HasRoom /\ PropagationSound /\ (Leaked = {} \/ ~GenuineSums => CandidatesRight)))
<1> SUFFICES ASSUME AmpleRoom PROVE Spec => [](HasRoom /\ PropagationSound /\ (Leaked = {} \/ ~GenuineSums => CandidatesRight))
  OBVIOUS
<1>1. Init => WithinRoom
  BY DEF Init, EngineInit, WithinRoom
<1>2. Ground /\ QueueTyped /\ WithinRoom /\ [Next]_vars => WithinRoom'
  BY WithinRoomStep
<1>3. QueueTyped /\ WithinRoom => HasRoom
  BY WithinRoomHasRoom
<1>4. Reach => Ground
  BY DEF Reach, Invariant, Ground
<1>5. Spec => []HasRoom
  BY <1>1, <1>2, <1>3, <1>4, AlwaysReach, AlwaysQueueTyped, PTL DEF Spec
<1>6. QED BY <1>5, PropagationRight, CandidatesRightUnlessLeaked, PTL
===============================================================================
