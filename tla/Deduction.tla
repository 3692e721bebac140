------------------------------- MODULE Deduction -------------------------------
(***************************************************************************)
(* What a purely algebraic solver promises: it only ever learns cells, and *)
(* only what they are; when it stops it says that the matrix is complete   *)
(* exactly when it knows all of it.  Then it may be given another matrix.   *)
(***************************************************************************)
CONSTANT Cells

VARIABLES
  truth,   \* the matrix
  known,   \* the cells known so far, with their values
  answer   \* "none", "partial", "complete"

vars == <<truth, known, answer>>

Init ==
  /\ truth \in [Cells -> {0, 1}]
  /\ DOMAIN known = {}
  /\ answer = "none"

Learn ==
  /\ answer = "none"
  /\ DOMAIN known \subseteq DOMAIN known' /\ DOMAIN known' \subseteq Cells
  /\ known' = [x \in DOMAIN known' |-> truth[x]]
  /\ UNCHANGED <<truth, answer>>

Answer ==
  /\ answer = "none"
  /\ answer' = IF DOMAIN known = Cells THEN "complete" ELSE "partial"
  /\ UNCHANGED <<truth, known>>

Begin ==
  /\ answer # "none" \/ DOMAIN known = {}
  /\ truth' \in [Cells -> {0, 1}]
  /\ DOMAIN known' = {}
  /\ answer' = "none"

Spec == Init /\ [][Learn \/ Answer \/ Begin]_vars
===============================================================================
