------------------------------ MODULE HashFilter ------------------------------
(***************************************************************************)
(* What AsyncHashPipeline promises its user, without threads, queues or    *)
(* locks: the candidates are numbered in the order they are submitted (the *)
(* lexicographic order of the search), the user receives the ones whose    *)
(* rows match the lateral hashes, in that same order, and is told that     *)
(* there are no more only when it has received all of them.                *)
(***************************************************************************)
EXTENDS Naturals, Sequences, FiniteSetsExt, Functions

CONSTANT MaxCandidates  \* bound of the model: candidates one search produces

VARIABLES
  passing,    \* the candidates whose rows all match the lateral hashes
  submitted,  \* how many candidates the search has submitted
  delivered,  \* what the user has received, in order
  drained     \* the user was told that there are no more solutions

vars == <<passing, submitted, delivered, drained>>

Outstanding == {c \in passing : c <= submitted} \ Range(delivered)

Init ==
  /\ passing \in SUBSET (1..MaxCandidates)
  /\ submitted = 0
  /\ delivered = <<>>
  /\ drained = FALSE

Submit ==
  /\ ~drained
  /\ submitted < MaxCandidates
  /\ submitted' = submitted + 1
  /\ UNCHANGED <<passing, delivered, drained>>

Deliver ==
  /\ Outstanding # {}
  /\ delivered' = Append(delivered, Min(Outstanding))
  /\ UNCHANGED <<passing, submitted, drained>>

Drain ==
  /\ Outstanding = {}
  /\ drained' = TRUE
  /\ UNCHANGED <<passing, submitted, delivered>>

Next == Submit \/ Deliver \/ Drain

Spec == Init /\ [][Next]_vars
===============================================================================
