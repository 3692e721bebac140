--------------------------- MODULE RowSolvers_proofs ---------------------------
(***************************************************************************)
(* The two row solvers and the prober: whatever the payload, the sidecars  *)
(* and the leaks of failing propagations, backtracking is exact.           *)
(*                                                                         *)
(* The inductive invariant has a part for each solver.  The decomposed     *)
(* search and the prober share the undo stack: Recorded says that what the *)
(* search can take back (the undo stack and the cells a propagation has    *)
(* forced and not handed over) is assigned and named once, FramesHold that *)
(* each open frame's cell stands on the undo stack right above its token,  *)
(* SidecarsHold that what the sidecars have counted is undone with the     *)
(* frame it was counted under, ProbesHold that a probe changes only what   *)
(* it can take back.  The serial search restores snapshots: NodesHold says *)
(* that each is the store as it was, and that they are nested.             *)
(***************************************************************************)
EXTENDS RowSolvers, Propagation_proofs

-------------------------------------------------------------------------------
(* Sequences, orders and the model's operators.                            *)

LEMMA EmptyOf == ASSUME NEW S, NEW s \in Seq(S), Len(s) = 0 PROVE s = <<>>
OBVIOUS

\* Sequences put together one after the other.
LEMMA FlattenSteps ==
  ASSUME NEW A, NEW parts \in Seq(Seq(A))
  PROVE  \E f \in [0..Len(parts) -> Seq(A)] :
           /\ f[0] = <<>> /\ f[Len(parts)] = FlattenSeq(parts)
           /\ \A i \in 1..Len(parts) : f[i] = f[i - 1] \o parts[i]
<1>1. PICK n \in Nat : n = Len(parts)
  OBVIOUS
<1> DEFINE step == [p \in Nat \X Seq(A) |-> IF p[1] \in 1..n THEN p[2] \o parts[p[1]] ELSE <<>>]
           IsFlat(g) == g = [i \in 1..Len(parts) |-> IF i = 1 THEN parts[i] ELSE g[i - 1] \o parts[i]]
<1>2. \A i \in 1..n : parts[i] \in Seq(A)
  BY <1>1
<1>3. step \in [Nat \X Seq(A) -> Seq(A)]
  BY <1>2
<1>4. PICK f \in Runs(Seq(A), <<>>, step, n) : TRUE
  <2>1. <<>> \in Seq(A) /\ n \in Nat
    OBVIOUS
  <2> HIDE DEF step
  <2>2. Runs(Seq(A), <<>>, step, n) # {}
    BY ONLY <1>3, <2>1, IterationUpTo, Zenon
  <2>3. QED BY ONLY <2>2, Zenon
<1>5. f \in [0..n -> Seq(A)] /\ f[0] = <<>> /\ \A i \in 1..n : f[i] = f[i - 1] \o parts[i]
  <2>1. f \in [0..n -> Seq(A)] /\ f[0] = <<>>
    BY <1>4 DEF Runs
  <2>2. ASSUME NEW i \in 1..n PROVE f[i] = f[i - 1] \o parts[i]
    <3>0. i \in Nat /\ i - 1 \in 0..n
      BY <2>2
    <3>1. i \in Nat /\ i - 1 \in 0..n /\ f[i - 1] \in Seq(A)
      BY <3>0, <2>1
    <3>2. f[i] = step[<<i, f[i - 1]>>]
      <4> HIDE DEF step
      <4> QED BY <1>4 DEF Runs
    <3>3. QED BY <3>1, <3>2
  <2>3. QED BY <2>1, <2>2
<1>6. CASE n = 0
  <2>0. parts = <<>>
    BY <1>1, <1>6, EmptyOf
  <2>1. parts = <<>> /\ FlattenSeq(parts) = <<>>
    BY <2>0 DEF FlattenSeq
  <2>2. QED BY <1>1, <1>5, <1>6, <2>1
<1>7. CASE n # 0
  <2> DEFINE h == [i \in 1..n |-> f[i]]
  <2>1. ASSUME NEW i \in 1..n PROVE h[i] = IF i = 1 THEN parts[i] ELSE h[i - 1] \o parts[i]
    <3>1. CASE i = 1
      <4>0. 1 \in 1..n /\ 1 - 1 = 0
        BY <2>1, <3>1
      <4>1. f[1] = <<>> \o parts[1] /\ parts[1] \in Seq(A)
        BY <1>2, <1>5, <4>0
      <4>2. f[1] = parts[1]
        BY <4>1
      <4>3. QED BY <3>1, <4>2
    <3>2. CASE i # 1
      <4>1. i - 1 \in 1..n
        BY <1>1, <3>2
      <4>2. QED BY <1>5, <3>2, <4>1
    <3>3. QED BY <3>1, <3>2
  <2>2. h = [i \in 1..n |-> h[i]]
    OBVIOUS
  <2>3. IsFlat(h)
    <3> HIDE DEF h
    <3> QED BY <1>1, <2>1, <2>2
  <2>4. FlattenSeq(parts) = (CHOOSE g : IsFlat(g))[n]
    BY <1>1, <1>7 DEF FlattenSeq
  <2>5. PICK g : g = (CHOOSE k : IsFlat(k)) /\ IsFlat(g)
    <3> HIDE DEF IsFlat, h
    <3> QED BY <2>3
  <2>6. ASSUME NEW i \in 1..n PROVE g[i] = IF i = 1 THEN parts[i] ELSE g[i - 1] \o parts[i]
    BY <1>1, <2>5
  <2> DEFINE G == {i \in Nat : i \in 1..n => g[i] = f[i]}
  <2>7. 0 \in G
    OBVIOUS
  <2>8. ASSUME NEW i \in G PROVE i + 1 \in G
    <3>1. i \in Nat
      OBVIOUS
    <3>2. ASSUME i + 1 \in 1..n PROVE g[i + 1] = f[i + 1]
      <4>1. CASE i = 0
        <5>1. 1 \in 1..n /\ i + 1 = 1
          BY <3>2, <4>1
        <5>2. g[1] = parts[1] /\ h[1] = parts[1] /\ h[1] = f[1]
          BY <2>1, <2>6, <5>1
        <5>3. QED BY <5>1, <5>2
      <4>2. CASE i # 0
        <5>1. i \in 1..n /\ i + 1 # 1 /\ (i + 1) - 1 = i
          BY <1>1, <3>1, <3>2, <4>2
        <5>2. g[i] = f[i]
          BY <5>1
        <5>3. g[i + 1] = g[i] \o parts[i + 1] /\ f[i + 1] = f[i] \o parts[i + 1]
          BY <1>5, <2>6, <3>2, <5>1
        <5>4. QED BY <5>2, <5>3
      <4>3. QED BY <4>1, <4>2
    <3>3. QED BY <3>1, <3>2
  <2>9. n \in G
    <3>1. G \in SUBSET Nat
      OBVIOUS
    <3> HIDE DEF G
    <3>2. G = Nat
      BY <2>7, <2>8, <3>1, Induction
    <3>3. QED BY <1>1, <3>2
  <2>10. FlattenSeq(parts) = f[n]
    BY <1>1, <1>7, <2>4, <2>5, <2>9
  <2>11. QED BY <1>1, <1>5, <2>10
<1>8. QED BY <1>6, <1>7

\* What sequences over a set make is a sequence over it.
LEMMA FlattenTyped ==
  ASSUME NEW A, NEW parts \in Seq(Seq(A)) PROVE FlattenSeq(parts) \in Seq(A)
<1>1. PICK f \in [0..Len(parts) -> Seq(A)] : f[Len(parts)] = FlattenSeq(parts)
  BY FlattenSteps
<1>2. Len(parts) \in 0..Len(parts)
  OBVIOUS
<1>3. QED BY <1>1, <1>2

NoRepeats(s) == \A i, j \in 1..Len(s) : i # j => s[i] # s[j]

\* What a filter keeps is in the set, and repeats nothing that was not repeated.
LEMMA KeptRight ==
  ASSUME NEW A, NEW s \in Seq(A), NEW T
  PROVE  Kept(s, T) \in Seq(A \cap T) /\ (NoRepeats(s) => NoRepeats(Kept(s, T)))
<1>1. PICK n \in Nat : n = Len(s)
  OBVIOUS
<1> DEFINE parts == [i \in 1..n |-> IF s[i] \in T THEN <<s[i]>> ELSE <<>>]
           B == A \cap T
<1>2. Kept(s, T) = FlattenSeq(parts)
  <2>1. DOMAIN s = 1..n
    BY <1>1
  <2>2. QED BY <2>1 DEF Kept
<1>3. parts \in Seq(Seq(B)) /\ Len(parts) = n
  <2>1. ASSUME NEW i \in 1..n PROVE parts[i] \in Seq(B)
    <3>1. s[i] \in A
      BY <1>1
    <3>2. CASE s[i] \in T
      <4>1. parts[i] = <<s[i]>> /\ s[i] \in B
        BY <3>1, <3>2
      <4> HIDE DEF parts, B
      <4>2. QED BY <4>1
    <3>3. CASE s[i] \notin T
      <4>1. parts[i] = <<>>
        BY <3>3
      <4> HIDE DEF parts, B
      <4>2. QED BY <4>1
    <3>4. QED BY <3>2, <3>3
  <2>2. \A i \in 1..n : parts[i] \in Seq(B)
    BY <2>1
  <2>3. parts = [i \in 1..n |-> parts[i]]
    OBVIOUS
  <2> HIDE DEF parts, B
  <2>4. QED BY <2>2, <2>3
<1>4. FlattenSeq(parts) \in Seq(B)
  <2> HIDE DEF parts, B
  <2> QED BY <1>3, FlattenTyped
<1>5. ASSUME NoRepeats(s) PROVE NoRepeats(FlattenSeq(parts))
  <2>1. PICK f \in [0..n -> Seq(B)] :
           f[0] = <<>> /\ f[n] = FlattenSeq(parts) /\ \A i \in 1..n : f[i] = f[i - 1] \o parts[i]
    <3> HIDE DEF parts, B
    <3> QED BY <1>3, FlattenSteps
  <2> DEFINE From(t, i) == \A k \in 1..Len(t) : \E j \in 1..i : t[k] = s[j]
             G == {i \in Nat : i <= n => NoRepeats(f[i]) /\ From(f[i], i)}
  <2>2. 0 \in G
    BY <2>1 DEF NoRepeats
  <2>3. ASSUME NEW i \in G PROVE i + 1 \in G
    <3>1. i \in Nat
      OBVIOUS
    <3>2. ASSUME i + 1 <= n PROVE NoRepeats(f[i + 1]) /\ From(f[i + 1], i + 1)
      <4>1. i \in 0..n /\ i + 1 \in 1..n /\ (i + 1) - 1 = i /\ i <= n
        BY <1>1, <3>1, <3>2
      <4>2. PICK t \in Seq(B) : t = f[i] /\ NoRepeats(t) /\ From(t, i)
        BY <2>1, <4>1
      <4>3. f[i + 1] = t \o parts[i + 1]
        BY <2>1, <4>1, <4>2
      <4>4. CASE s[i + 1] \in T
        <5>1. PICK x : x = s[i + 1] /\ parts[i + 1] = <<x>>
          BY <4>1, <4>4
        <5>2. PICK m \in Nat : m = Len(t)
          BY <4>2
        <5>3. /\ Len(f[i + 1]) = m + 1 /\ f[i + 1][m + 1] = x
              /\ \A k \in 1..m : f[i + 1][k] = t[k]
          <6> HIDE DEF parts, B
          <6>1. f[i + 1] = t \o <<x>>
            BY <4>3, <5>1
          <6>2. QED BY <4>2, <5>2, <6>1
        <5>4. \A k \in 1..(m + 1) : k \in 1..m \/ k = m + 1
          BY <5>2
        <5>5. \A k \in 1..m : t[k] # x
          <6>1. ASSUME NEW k \in 1..m PROVE t[k] # x
            <7>1. PICK j \in 1..i : t[k] = s[j]
              BY <4>2, <5>2
            <7>2. j \in 1..Len(s) /\ i + 1 \in 1..Len(s) /\ j # i + 1
              BY <1>1, <4>1
            <7>3. s[j] # s[i + 1]
              BY <1>5, <7>2 DEF NoRepeats
            <7>4. QED BY <5>1, <7>1, <7>3
          <6>2. QED BY <6>1
        <5>6. NoRepeats(f[i + 1])
          <6>0. \A k, j \in 1..m : k # j => t[k] # t[j]
            BY <4>2, <5>2 DEF NoRepeats
          <6>1. ASSUME NEW k \in 1..(m + 1), NEW j \in 1..(m + 1), k # j
                PROVE  f[i + 1][k] # f[i + 1][j]
            <7>1. CASE k \in 1..m /\ j \in 1..m
              <8>1. f[i + 1][k] = t[k] /\ f[i + 1][j] = t[j]
                BY ONLY <5>3, <7>1
              <8>2. t[k] # t[j]
                BY ONLY <6>0, <6>1, <7>1
              <8>3. QED BY ONLY <8>1, <8>2
            <7>2. CASE k = m + 1 /\ j \in 1..m
              BY ONLY <5>3, <5>5, <7>2
            <7>3. CASE j = m + 1 /\ k \in 1..m
              BY ONLY <5>3, <5>5, <7>3
            <7>4. QED BY ONLY <5>4, <6>1, <7>1, <7>2, <7>3
          <6>2. Len(f[i + 1]) = m + 1
            BY ONLY <5>3
          <6>3. QED BY ONLY <6>1, <6>2 DEF NoRepeats
        <5>7. From(f[i + 1], i + 1)
          <6>1. ASSUME NEW k \in 1..Len(f[i + 1]) PROVE \E j \in 1..(i + 1) : f[i + 1][k] = s[j]
            <7>1. CASE k = m + 1
              <8>1. i + 1 \in 1..(i + 1)
                BY <3>1
              <8>2. QED BY <5>1, <5>3, <7>1, <8>1
            <7>2. CASE k # m + 1
              <8>1. k \in 1..m
                BY <5>2, <5>3, <7>2
              <8>2. PICK j \in 1..i : t[k] = s[j]
                BY <4>2, <5>2, <8>1
              <8>3. j \in 1..(i + 1)
                BY <3>1
              <8>4. QED BY <5>3, <8>1, <8>2, <8>3
            <7>3. QED BY <7>1, <7>2
          <6>2. QED BY <6>1
        <5>8. QED BY <5>6, <5>7
      <4>5. CASE s[i + 1] \notin T
        <5>1. parts[i + 1] = <<>>
          BY <4>1, <4>5
        <5>2. f[i + 1] = t
          <6> HIDE DEF parts, B
          <6> QED BY <4>2, <4>3, <5>1
        <5>3. \A j \in 1..i : j \in 1..(i + 1)
          BY <3>1
        <5>4. QED BY <4>2, <5>2, <5>3
      <4>6. QED BY <4>4, <4>5
    <3>3. QED BY <3>1, <3>2
  <2>4. n \in G
    <3>1. G \in SUBSET Nat
      OBVIOUS
    <3> HIDE DEF G
    <3>2. G = Nat
      BY <2>2, <2>3, <3>1, Induction
    <3>3. QED BY <1>1, <3>2
  <2>5. QED BY <1>1, <2>1, <2>4
<1>6. QED BY <1>2, <1>4, <1>5

\* Cells in row-major order: each once.
LEMMA InRowOrderRight ==
  ASSUME NEW S \in SUBSET Cells
  PROVE  InRowOrder(S) \in Seq(S) /\ NoRepeats(InRowOrder(S))
<1> DEFINE all == [i \in 1..(kS * kS) |-> <<(i - 1) \div kS, (i - 1) % kS>>]
<1>1. PICK n \in Nat : n = kS * kS
  BY kSAssumption
<1>2. ASSUME NEW i \in 1..n
      PROVE  \E k, j \in Index : all[i] = <<k, j>> /\ i - 1 = k * kS + j
  <2>1. i - 1 \in 0..(kS * kS - 1)
    BY <1>1
  <2>2. PICK k, j \in 0..(kS - 1) : k = (i - 1) \div kS /\ j = (i - 1) % kS /\ i - 1 = k * kS + j
    <3>1. \A p \in 0..(kS * kS - 1) :
              \E k, j \in 0..(kS - 1) : k = p \div kS /\ j = p % kS /\ p = k * kS + j
      BY kSAssumption, SquarePlaces
    <3>2. QED BY <2>1, <3>1
  <2>3. all[i] = <<k, j>>
    BY <1>1, <2>2
  <2>4. QED BY <2>2, <2>3 DEF Index
<1>3. all \in Seq(Cells) /\ Len(all) = n
  <2>1. \A i \in 1..n : all[i] \in Cells
    BY <1>2 DEF Cells
  <2>2. all = [i \in 1..n |-> all[i]]
    BY <1>1
  <2> HIDE DEF all
  <2>3. QED BY <2>1, <2>2
<1>4. NoRepeats(all)
  <2>1. ASSUME NEW i \in 1..n, NEW j \in 1..n, all[i] = all[j] PROVE i = j
    <3>1. PICK k, l \in Index : all[i] = <<k, l>> /\ i - 1 = k * kS + l
      BY <1>2
    <3>2. PICK p, q \in Index : all[j] = <<p, q>> /\ j - 1 = p * kS + q
      BY <1>2
    <3>3. k = p /\ l = q
      <4>1. <<k, l>> = <<p, q>>
        BY ONLY <2>1, <3>1, <3>2
      <4>2. QED BY ONLY <4>1
    <3>4. i - 1 = j - 1
      <4> HIDE DEF all
      <4> QED BY <3>1, <3>2, <3>3
    <3>5. QED BY <3>4
  <2> HIDE DEF all
  <2>2. QED BY <1>3, <2>1 DEF NoRepeats
<1>5. InRowOrder(S) = Kept(all, S)
  BY DEF InRowOrder
<1>6. Cells \cap S = S
  OBVIOUS
<1> HIDE DEF all
<1>7. QED BY <1>3, <1>4, <1>5, <1>6, KeptRight

\* Cells that are there have a first one.
LEMMA FirstIsThere ==
  ASSUME NEW S \in SUBSET Cells, S # {}
  PROVE  IsFirst(FirstOf(S), S)
<1>1. \A x \in S : x = <<x[1], x[2]>> /\ x[1] \in Nat /\ x[2] \in Nat
  BY kSAssumption DEF Cells, Index
<1> DEFINE rows == {x[1] : x \in S}
<1>2. PICK r \in rows : \A s \in rows : r <= s
  <2>1. rows \subseteq Nat /\ rows # {}
    BY <1>1
  <2> HIDE DEF rows
  <2>2. QED BY <2>1, Least
<1> DEFINE there == {x[2] : x \in {y \in S : y[1] = r}}
<1>3. PICK c \in there : \A d \in there : c <= d
  <2>1. there \subseteq Nat /\ there # {}
    BY <1>1, <1>2
  <2> HIDE DEF there, rows
  <2>2. QED BY <2>1, Least
<1>4. PICK x \in S : x[1] = r /\ x[2] = c
  BY <1>3
<1>5. ASSUME NEW y \in S, y # x PROVE Before(x, y)
  <2>0. y[1] \in Nat /\ y[2] \in Nat /\ x[1] \in Nat /\ x[2] \in Nat
    BY <1>1
  <2>1. x[1] <= y[1]
    BY <1>2, <1>4
  <2>2. CASE y[1] = x[1]
    <3>1. y[2] \in there
      BY <1>4, <2>2
    <3>2. x[2] <= y[2]
      BY <1>3, <1>4, <3>1
    <3>3. x[2] # y[2]
      <4>1. y = <<y[1], y[2]>> /\ x = <<x[1], x[2]>>
        BY <1>1
      <4>2. QED BY ONLY <1>5, <2>2, <4>1
    <3>4. QED BY ONLY <2>0, <2>2, <3>2, <3>3 DEF Before
  <2>3. CASE y[1] # x[1]
    BY ONLY <2>0, <2>1, <2>3 DEF Before
  <2>4. QED BY <2>2, <2>3
<1>6. IsFirst(x, S)
  BY <1>5 DEF IsFirst
<1>7. QED BY ONLY <1>6 DEF FirstOf

HeapEntry == (1..kRowCompletionThreshold) \X Index

\* The heap of rows near completion stays a heap of such rows.
LEMMA InsertedTyped ==
  ASSUME NEW heap \in Seq(HeapEntry), NEW e \in HeapEntry
  PROVE  Inserted(heap, e) \in Seq(HeapEntry)
<1> DEFINE ahead == {i \in DOMAIN heap : HeapBefore(heap[i], e)}
<1>1. PICK n \in Nat : n = Len(heap) /\ DOMAIN heap = 1..n
  OBVIOUS
<1>2. Cardinality(ahead) \in 0..n
  <2>1. ahead \in SUBSET (1..n)
    BY <1>1
  <2>2. IsFiniteSet(1..n) /\ Cardinality(1..n) = n
    BY FS_Interval
  <2> HIDE DEF ahead
  <2>3. IsFiniteSet(ahead) /\ Cardinality(ahead) <= n /\ Cardinality(ahead) \in Nat
    BY <2>1, <2>2, FS_Subset, FS_CardinalityType
  <2>4. QED BY <2>3
<1>3. PICK k \in 0..n : k = Cardinality(ahead)
  BY <1>2
<1>4. Inserted(heap, e) = SubSeq(heap, 1, k) \o <<e>> \o SubSeq(heap, k + 1, n)
  <2> HIDE DEF HeapEntry
  <2> QED BY <1>1, <1>3 DEF Inserted
<1> HIDE DEF HeapEntry, ahead
<1>5. SubSeq(heap, 1, k) \in Seq(HeapEntry)
  <2>1. \A i \in 1..k : heap[i] \in HeapEntry
    BY <1>1
  <2>2. QED BY <2>1
<1>6. SubSeq(heap, k + 1, n) \in Seq(HeapEntry)
  <2>1. \A i \in (k + 1)..n : heap[i] \in HeapEntry
    BY <1>1
  <2>2. QED BY <2>1
<1>7. <<e>> \in Seq(HeapEntry)
  OBVIOUS
<1>8. QED BY ONLY <1>4, <1>5, <1>6, <1>7

LEMMA PushedTyped ==
  ASSUME NEW heap \in Seq(HeapEntry), NEW rows \in Seq(Index), unknown \in [Lines -> Nat]
  PROVE  Pushed(heap, rows) \in Seq(HeapEntry)
<1>1. PICK n \in Nat : n = Len(rows)
  OBVIOUS
<1> DEFINE step == [p \in Nat \X Seq(HeapEntry) |->
                      IF p[1] \in 1..n /\ NearCompletion(rows[p[1]])
                      THEN Inserted(p[2], <<unknown[RowOf(rows[p[1]])], rows[p[1]]>>) ELSE p[2]]
           IsUpTo(f) ==
             f = [i \in 0..Len(rows) |->
                    IF i = 0 THEN heap
                    ELSE IF NearCompletion(rows[i]) THEN Inserted(f[i - 1], <<unknown[RowOf(rows[i])], rows[i]>>)
                    ELSE f[i - 1]]
<1>2. step \in [Nat \X Seq(HeapEntry) -> Seq(HeapEntry)]
  <2>1. ASSUME NEW i \in 1..n, NearCompletion(rows[i])
        PROVE  <<unknown[RowOf(rows[i])], rows[i]>> \in HeapEntry
    <3>1. rows[i] \in Index
      BY <1>1
    <3>2. QED BY <2>1, <3>1 DEF NearCompletion, HeapEntry
  <2>2. ASSUME NEW p \in Nat \X Seq(HeapEntry) PROVE step[p] \in Seq(HeapEntry)
    <3>1. p[1] \in Nat /\ p[2] \in Seq(HeapEntry)
      OBVIOUS
    <3>2. CASE p[1] \in 1..n /\ NearCompletion(rows[p[1]])
      <4>1. step[p] = Inserted(p[2], <<unknown[RowOf(rows[p[1]])], rows[p[1]]>>)
        BY <3>2
      <4> HIDE DEF HeapEntry, step
      <4>2. <<unknown[RowOf(rows[p[1]])], rows[p[1]]>> \in HeapEntry
        BY <2>1, <3>2
      <4>3. QED BY <3>1, <4>1, <4>2, InsertedTyped
    <3>3. CASE ~(p[1] \in 1..n /\ NearCompletion(rows[p[1]]))
      <4>1. step[p] = p[2]
        BY <3>3
      <4>2. QED BY <3>1, <4>1
    <3>4. QED BY <3>2, <3>3
  <2>3. QED BY <2>2
<1>3. PICK f \in [0..n -> Seq(HeapEntry)] : f[0] = heap /\ \A i \in 1..n : f[i] = step[<<i, f[i - 1]>>]
  <2> HIDE DEF step, HeapEntry
  <2>1. Runs(Seq(HeapEntry), heap, step, n) # {}
    BY ONLY <1>2, heap \in Seq(HeapEntry), n \in Nat, IterationUpTo, Zenon
  <2>2. QED BY <2>1 DEF Runs
<1>4. IsUpTo(f)
  <2>1. ASSUME NEW i \in 0..n
        PROVE f[i] = IF i = 0 THEN heap
                     ELSE IF NearCompletion(rows[i]) THEN Inserted(f[i - 1], <<unknown[RowOf(rows[i])], rows[i]>>)
                     ELSE f[i - 1]
    <3>1. CASE i = 0
      BY <1>3, <3>1
    <3>2. CASE i # 0
      <4>1. i \in 1..n /\ i \in Nat /\ i - 1 \in 0..n
        BY <3>2
      <4>2. f[i] = step[<<i, f[i - 1]>>] /\ f[i - 1] \in Seq(HeapEntry)
        <5> HIDE DEF step, HeapEntry
        <5> QED BY <1>3, <4>1
      <4>3. <<i, f[i - 1]>> \in Nat \X Seq(HeapEntry)
        BY <4>1, <4>2
      <4>4. step[<<i, f[i - 1]>>] = IF NearCompletion(rows[i]) THEN Inserted(f[i - 1], <<unknown[RowOf(rows[i])], rows[i]>>)
                     ELSE f[i - 1]
        <5> HIDE DEF HeapEntry
        <5> QED BY <4>1, <4>3
      <4>5. QED BY <3>2, <4>2, <4>4
    <3>3. QED BY <3>1, <3>2
  <2>2. f = [i \in 0..n |-> f[i]]
    BY <1>3
  <2> HIDE DEF step, HeapEntry
  <2>3. QED BY <1>1, <2>1, <2>2
<1>5. PICK g : Pushed(heap, rows) = g[n] /\ IsUpTo(g)
  <2>1. Pushed(heap, rows) = (CHOOSE g : IsUpTo(g))[n]
    BY <1>1 DEF Pushed
  <2> HIDE DEF IsUpTo
  <2>2. QED BY <1>4, <2>1
<1>6. \A i \in 0..n : g[i] \in Seq(HeapEntry)
  <2> DEFINE G == {i \in 0..n : g[i] \in Seq(HeapEntry)}
  <2>1. 0 \in G
    BY <1>1, <1>5
  <2>2. ASSUME NEW i \in 0..(n - 1), i \in G PROVE i + 1 \in G
    <3>1. i + 1 \in 0..n /\ i + 1 \in 1..n /\ i + 1 # 0 /\ (i + 1) - 1 = i
      BY <1>1
    <3>2. g[i + 1] = IF NearCompletion(rows[i + 1])
                     THEN Inserted(g[i], <<unknown[RowOf(rows[i + 1])], rows[i + 1]>>) ELSE g[i]
      BY <1>1, <1>5, <3>1
    <3>3. g[i] \in Seq(HeapEntry)
      BY <2>2
    <3>4. CASE NearCompletion(rows[i + 1])
      <4>1. rows[i + 1] \in Index
        BY <1>1, <3>1
      <4>2. <<unknown[RowOf(rows[i + 1])], rows[i + 1]>> \in HeapEntry
        BY <3>4, <4>1 DEF NearCompletion, HeapEntry
      <4> HIDE DEF IsUpTo, HeapEntry
      <4>3. g[i + 1] \in Seq(HeapEntry)
        BY ONLY <3>2, <3>3, <3>4, <4>2, InsertedTyped, Zenon
      <4>4. QED BY <3>1, <4>3
    <3>5. CASE ~NearCompletion(rows[i + 1])
      BY ONLY <3>1, <3>2, <3>3, <3>5
    <3>6. QED BY <3>4, <3>5
  <2> HIDE DEF G, IsUpTo
  <2>3. \A i \in 0..n : i \in G
    BY ONLY <2>1, <2>2, n \in Nat, InductionUpTo, Zenon
  <2>4. QED BY <2>3 DEF G
<1>7. n \in 0..n
  OBVIOUS
<1>8. QED BY ONLY <1>5, <1>6, <1>7, Zenon

\* What the detector makes of an update.
LEMMA UpdateTyped ==
  ASSUME NEW d \in DetectorType, NEW depth \in Nat
  PROVE  update(d, depth) \in DetectorType
<1> DEFINE seen == [d EXCEPT !.windowMax = Larger(@, depth),
                             !.updates = (@ + 1) % kCheckpointInterval]
<1>1. \A a \in Int : a % 256 \in Byte
  BY DEF Byte
<1>2. kCheckpointInterval \in Nat \ {0} /\ kMaxK \in Nat \ {0}
  BY StallAssumption
<1>3. seen \in DetectorType
  <2>1. (d.updates + 1) % kCheckpointInterval \in 0..(kCheckpointInterval - 1)
    <3>1. d.updates + 1 \in Int
      BY <1>2 DEF DetectorType
    <3>2. QED BY <1>2, <3>1
  <2>2. Larger(d.windowMax, depth) \in Nat
    BY DEF DetectorType, Larger
  <2>3. QED BY <2>1, <2>2 DEF DetectorType
<1>4. ASSUME NEW s \in DetectorType PROVE afterStall(s) \in DetectorType
  <2>1. Uint8(s.stalls + 1) \in Byte /\ 0 \in Byte
    <3>1. s.stalls + 1 \in Int
      BY DEF DetectorType, Byte
    <3>2. QED BY <1>1, <3>1 DEF Uint8, Byte
  <2>2. s.k < kMaxK => s.k + 1 \in kMinK..kMaxK
    BY <1>2 DEF DetectorType, kMinK
  <2> HIDE DEF seen
  <2>3. QED BY <2>1, <2>2 DEF afterStall, DetectorType
<1>5. ASSUME NEW s \in DetectorType PROVE afterRecovery(s) \in DetectorType
  <2>1. Uint8(s.recoveries + 1) \in Byte /\ 0 \in Byte
    <3>1. s.recoveries + 1 \in Int
      BY DEF DetectorType, Byte
    <3>2. QED BY <1>1, <3>1 DEF Uint8, Byte
  <2>2. s.k > kMinK => s.k - 1 \in kMinK..kMaxK
    BY <1>2 DEF DetectorType, kMinK
  <2> HIDE DEF seen
  <2>3. QED BY <2>1, <2>2 DEF afterRecovery, DetectorType
<1> DEFINE next == IF Stalled(seen) THEN afterStall(seen) ELSE afterRecovery(seen)
<1>6. update(d, depth) = IF seen.updates # 0 THEN seen
                         ELSE [next EXCEPT !.prevWindowMax = seen.windowMax, !.windowMax = 0]
  BY DEF update
<1>7. next \in DetectorType /\ seen.windowMax \in Nat
  <2> HIDE DEF seen
  <2>1. seen.windowMax \in Nat
    BY <1>3 DEF DetectorType
  <2>2. QED BY <1>3, <1>4, <1>5, <2>1
<1>8. [next EXCEPT !.prevWindowMax = seen.windowMax, !.windowMax = 0] \in DetectorType
  <2>1. PICK t \in DetectorType, w \in Nat : t = next /\ w = seen.windowMax
    BY ONLY <1>7
  <2>2. [t EXCEPT !.prevWindowMax = w, !.windowMax = 0] \in DetectorType
    BY DEF DetectorType
  <2>3. QED BY ONLY <2>1, <2>2
<1> HIDE DEF seen, next
<1>9. QED BY ONLY <1>3, <1>6, <1>8

\* What is known of the sidecar files.
InputTyped ==
  /\ sidecar.parity \in Seq([line : [Cells -> Int], target : [Index -> Int]])
  /\ \A i \in 1..Len(sidecar.sums) : IsFiniteSet(DOMAIN sidecar.sums[i].sums)
  /\ DOMAIN sidecar.sums = 1..Len(sidecar.sums) /\ Len(sidecar.sums) \in Nat

Due == [cell : Cells, value : {0, 1}]
LogType == Seq(Cells \X {0, 1})

\* What the sidecars have counted of a line, and of a part of it.
LEMMA CountsTyped ==
  ASSUME NEW log \in LogType, NEW S
  PROVE  /\ Cardinality(EntriesOn(log, S)) \in Nat
         /\ Cardinality({i \in EntriesOn(log, S) : log[i][2] = 1}) \in Nat
<1>1. PICK n \in Nat : DOMAIN log = 1..n
  BY DEF LogType
<1>2. /\ EntriesOn(log, S) \in SUBSET (1..n)
      /\ {i \in EntriesOn(log, S) : log[i][2] = 1} \in SUBSET (1..n)
  BY <1>1 DEF EntriesOn
<1>3. IsFiniteSet(1..n)
  BY FS_Interval
<1>4. \A T \in SUBSET (1..n) : Cardinality(T) \in Nat
  BY <1>3, FS_Subset, FS_CardinalityType
<1>5. QED BY ONLY <1>2, <1>4

\* What the parities force.
LEMMA ParityForces ==
  ASSUME InputTyped, locals.counted["parity"] \in LogType
  PROVE  b44cCheckForcing \in Seq(Due)
<1> DEFINE cellsOf(e) == b44cLineCells(e[1], e[2])
           parts == [p \in DOMAIN sidecar.parity |-> [k \in 1..kS |-> <<p, k - 1>>]]
           lines == FlattenSeq(parts)
           T == {e \in Range(lines) : /\ kS - CountedOn("parity", cellsOf(e)) = 1
                                      /\ OpenOf(cellsOf(e)) # {}}
           due == Kept(lines, T)
           value(e) == (sidecar.parity[e[1]].target[e[2]] + SumCounted("parity", cellsOf(e))) % 2
<1>1. PICK m \in Nat : DOMAIN sidecar.parity = 1..m
  BY DEF InputTyped
<1> DEFINE A == (1..m) \X Index
           B == A \cap T
<1>2. parts \in Seq(Seq(A))
  <2>1. ASSUME NEW p \in 1..m PROVE [k \in 1..kS |-> <<p, k - 1>>] \in Seq(A)
    <3>0. \A k \in 1..kS : k - 1 \in Index
      BY kSAssumption DEF Index
    <3>1. \A k \in 1..kS : <<p, k - 1>> \in A
      BY ONLY <3>0, p \in 1..m
    <3> HIDE DEF A
    <3>2. QED BY <3>1, kSAssumption
  <2> HIDE DEF A
  <2>2. QED BY <1>1, <2>1
<1>3. lines \in Seq(A)
  <2> HIDE DEF A, parts
  <2> QED BY <1>2, FlattenTyped
<1>4. due \in Seq(B)
  <2> HIDE DEF A, lines, T
  <2> QED BY <1>3, KeptRight
<1>5. ASSUME NEW e \in B
      PROVE  [cell |-> FirstOf(OpenOf(cellsOf(e))), value |-> value(e)] \in Due
  <2>1. OpenOf(cellsOf(e)) \in SUBSET Cells
    BY DEF OpenOf, b44cLineCells
  <2>2. OpenOf(cellsOf(e)) # {}
    <3> HIDE DEF A, lines, cellsOf
    <3> QED BY <1>5
  <2>3. FirstOf(OpenOf(cellsOf(e))) \in Cells
    <3> HIDE DEF A, T, cellsOf
    <3>1. IsFirst(FirstOf(OpenOf(cellsOf(e))), OpenOf(cellsOf(e)))
      BY ONLY <2>1, <2>2, FirstIsThere, Zenon
    <3>2. QED BY <2>1, <3>1 DEF IsFirst
  <2>4. sidecar.parity[e[1]].target[e[2]] \in Int
    <3>1. e[1] \in 1..m /\ e[2] \in Index
      <4>1. e \in A
        BY ONLY <1>5
      <4> HIDE DEF T
      <4>2. QED BY ONLY <4>1
    <3>2. sidecar.parity[e[1]] \in [line : [Cells -> Int], target : [Index -> Int]]
      <4>1. sidecar.parity \in Seq([line : [Cells -> Int], target : [Index -> Int]])
        BY DEF InputTyped
      <4> HIDE DEF T, A, cellsOf
      <4>2. \A R : \A s \in Seq(R) : \A i \in DOMAIN s : s[i] \in R
        OBVIOUS
      <4>3. QED BY ONLY <1>1, <3>1, <4>1, <4>2, Zenon
    <3>3. QED BY ONLY <3>1, <3>2
  <2>5. SumCounted("parity", cellsOf(e)) \in Nat
    BY CountsTyped DEF SumCounted
  <2>6. value(e) \in {0, 1}
    <3>1. \A a \in Int, b \in Nat : (a + b) % 2 \in {0, 1}
      OBVIOUS
    <3> HIDE DEF A, T, cellsOf
    <3>2. QED BY ONLY <2>4, <2>5, <3>1
  <2> HIDE DEF cellsOf, value, B, A, T
  <2>7. QED BY ONLY <2>3, <2>6 DEF Due
<1>6. b44cCheckForcing = [i \in DOMAIN due |-> [cell |-> FirstOf(OpenOf(cellsOf(due[i]))), value |-> value(due[i])]]
  BY DEF b44cCheckForcing
<1>7. PICK d \in Seq(B) : d = due
  BY <1>4
<1> HIDE DEF due, B, value, cellsOf, A, lines, parts, T
<1>8. [i \in DOMAIN d |-> [cell |-> FirstOf(OpenOf(cellsOf(d[i]))), value |-> value(d[i])]] \in Seq(Due)
  <2>1. PICK n \in Nat : DOMAIN d = 1..n /\ \A i \in 1..n : d[i] \in B
    OBVIOUS
  <2>2. \A i \in 1..n : [cell |-> FirstOf(OpenOf(cellsOf(d[i]))), value |-> value(d[i])] \in Due
    BY <1>5, <2>1
  <2>3. QED BY <2>1, <2>2
<1>9. QED BY ONLY <1>6, <1>7, <1>8

\* The further lines are sets of cells.
LEMMA SumLines ==
  ASSUME InputTyped PROVE \E A : b45Lines \in Seq(A) /\ \A line \in A : line.cells \in SUBSET Cells
<1> DEFINE lineOf(p, i) ==
             [cells  |-> {x \in Cells : p.line[x] = i - 1},
              target |-> p.sums[i - 1],
              length |-> IF p.lengths = <<>> THEN kS ELSE p.lengths[i - 1]]
           linesOf(p) == [i \in 1..Cardinality(DOMAIN p.sums) |-> lineOf(p, i)]
           parts == [i \in DOMAIN sidecar.sums |-> linesOf(sidecar.sums[i])]
           A == {lineOf(sidecar.sums[q[1]], q[2]) : q \in (DOMAIN sidecar.sums) \X Nat}
<1>1. \A line \in A : line.cells \in SUBSET Cells
  OBVIOUS
<1>2. PICK m \in Nat : DOMAIN sidecar.sums = 1..m /\ m = Len(sidecar.sums)
  BY DEF InputTyped
<1>3. ASSUME NEW i \in 1..m PROVE linesOf(sidecar.sums[i]) \in Seq(A)
  <2>1. PICK n \in Nat : n = Cardinality(DOMAIN sidecar.sums[i].sums)
    BY <1>2, FS_CardinalityType DEF InputTyped
  <2>2. \A k \in 1..n : lineOf(sidecar.sums[i], k) \in A
    <3> HIDE DEF lineOf
    <3>1. ASSUME NEW k \in 1..n PROVE lineOf(sidecar.sums[i], k) \in A
      <4>1. <<i, k>> \in (DOMAIN sidecar.sums) \X Nat /\ <<i, k>>[1] = i /\ <<i, k>>[2] = k
        BY ONLY <1>2, <1>3, n \in Nat, k \in 1..n
      <4>2. QED BY <4>1
    <3>2. QED BY <3>1
  <2>3. linesOf(sidecar.sums[i]) = [k \in 1..n |-> lineOf(sidecar.sums[i], k)]
    <3> HIDE DEF lineOf
    <3> QED BY <2>1
  <2> HIDE DEF A, lineOf, linesOf
  <2>4. QED BY <2>2, <2>3
<1>4. parts \in Seq(Seq(A))
  <2> HIDE DEF A, linesOf
  <2> QED BY <1>2, <1>3
<1>5. b45Lines = FlattenSeq(parts)
  BY DEF b45Lines
<1>6. FlattenSeq(parts) \in Seq(A)
  <2> HIDE DEF parts, A
  <2> QED BY <1>4, FlattenTyped
<1> HIDE DEF parts, A
<1>7. QED BY <1>1, <1>5, <1>6

\* What the sidecars make due is due on free cells.
LEMMA SumsForce == ASSUME InputTyped PROVE b45CheckForcing \in Seq(Due)
<1>1. PICK A : b45Lines \in Seq(A) /\ \A line \in A : line.cells \in SUBSET Cells
  BY SumLines
<1> DEFINE as(line, value) == LET open == InRowOrder(OpenOf(line.cells))
                              IN  [i \in DOMAIN open |-> [cell |-> open[i], value |-> value]]
           rho(line) == line.target - SumCounted("sums", line.cells)
           u(line)   == line.length - CountedOn("sums", line.cells)
           due(line) == IF u(line) = 0 THEN <<>> ELSE IF rho(line) = 0 THEN as(line, 0)
                        ELSE IF rho(line) = u(line) THEN as(line, 1) ELSE <<>>
           parts == [i \in DOMAIN b45Lines |-> due(b45Lines[i])]
<1>2. ASSUME NEW line \in A, NEW v \in {0, 1} PROVE as(line, v) \in Seq(Due)
  <2>1. OpenOf(line.cells) \in SUBSET Cells
    BY <1>1 DEF OpenOf
  <2>2. PICK open \in Seq(Cells) : open = InRowOrder(OpenOf(line.cells))
    <3>1. InRowOrder(OpenOf(line.cells)) \in Seq(OpenOf(line.cells))
      BY ONLY <2>1, InRowOrderRight, Zenon
    <3>2. QED BY ONLY <2>1, <3>1
  <2>3. [i \in DOMAIN open |-> [cell |-> open[i], value |-> v]] \in Seq(Due)
    <3>1. PICK n \in Nat : DOMAIN open = 1..n
      OBVIOUS
    <3>2. \A i \in 1..n : [cell |-> open[i], value |-> v] \in Due
      BY <3>1 DEF Due
    <3>3. QED BY <3>1, <3>2
  <2>4. QED BY <2>2, <2>3
<1>3. <<>> \in Seq(Due)
  OBVIOUS
<1>4. ASSUME NEW line \in A PROVE due(line) \in Seq(Due)
  <2> HIDE DEF as, rho, u
  <2>1. as(line, 0) \in Seq(Due) /\ as(line, 1) \in Seq(Due)
    BY <1>2
  <2>2. QED BY <1>3, <2>1
<1>5. parts \in Seq(Seq(Due))
  <2>1. PICK n \in Nat : DOMAIN b45Lines = 1..n /\ \A i \in 1..n : b45Lines[i] \in A
    BY <1>1
  <2> HIDE DEF due
  <2>2. \A i \in 1..n : due(b45Lines[i]) \in Seq(Due)
    BY <1>4, <2>1
  <2>3. QED BY <2>1, <2>2
<1>6. b45CheckForcing = FlattenSeq(parts)
  BY DEF b45CheckForcing
<1> HIDE DEF parts
<1>7. QED BY ONLY <1>5, <1>6, FlattenTyped

LEMMA ForcingTyped ==
  ASSUME InputTyped, locals.counted["parity"] \in LogType, NEW kind
  PROVE  CheckForcing(kind) \in Seq(Due)
BY ParityForces, SumsForce DEF CheckForcing

\* The lines of some cells, and all lines.
LEMMA LinesOfTyped == ASSUME NEW S \in SUBSET Cells PROVE LinesOf(S) \in Seq(Lines)
<1>1. PICK xs \in Seq(Cells) : xs = InRowOrder(S)
  <2>1. InRowOrder(S) \in Seq(S)
    BY InRowOrderRight
  <2>2. QED BY ONLY <2>1, S \in SUBSET Cells
<1>2. [i \in DOMAIN xs |-> LinesForCell(xs[i])] \in Seq(Seq(Lines))
  <2>1. PICK n \in Nat : DOMAIN xs = 1..n /\ \A i \in 1..n : xs[i] \in Cells
    OBVIOUS
  <2>2. \A i \in 1..n : LinesForCell(xs[i]) \in Seq(Lines)
    BY <2>1, LinesForCellTyped
  <2>3. QED BY ONLY <2>1, <2>2
<1>3. FlattenSeq([i \in DOMAIN xs |-> LinesForCell(xs[i])]) \in Seq(Lines)
  BY ONLY <1>2, FlattenTyped
<1>4. QED BY ONLY <1>1, <1>3 DEF LinesOf

\* The lines of the initial propagation are lines.
LEMMA AllLinesTyped == AllLines \in Seq(Lines)
<1>1. \A a, b \in Seq(Lines) : a \o b \in Seq(Lines)
  OBVIOUS
<1>2. \A type \in {"row", "column", "diagonal", "antiDiagonal", "ltp1", "ltp2"} : LinesOfType(type) \in Seq(Lines)
  BY LinesInOrder DEF LineTypes
<1>3. QED BY ONLY <1>1, <1>2 DEF AllLines

(* The store under the moves of the searches.                              *)

\* Each of these cells is assigned, and none is named twice.
HeldOnce(c, s) ==
  /\ \A p \in 1..Len(s) : c[s[p]] # Unassigned
  /\ \A p, q \in 1..Len(s) : p # q => s[p] # s[q]

\* Assigning a cell and recording it keeps what is recorded assigned, each cell once.
LEMMA HeldAppend ==
  ASSUME StoreTypeOK, StatsExact, NEW s \in Seq(Cells), HeldOnce(cells, s),
         NEW x \in Cells, NEW v \in {0, 1}, cells[x] = Unassigned, Assign(x, v)
  PROVE  (StoreTypeOK /\ StatsExact)' /\ HeldOnce(cells', Append(s, x))
<1>1. (StoreTypeOK /\ StatsExact)'
  BY AssignExact
<1>2. cells'[x] # Unassigned /\ \A y \in Cells \ {x} : cells'[y] = cells[y]
  BY AssignEffect DEF Unassigned
<1>3. PICK n \in Nat : n = Len(s)
  OBVIOUS
<1>4. \A p \in 1..n : s[p] \in Cells \ {x} /\ cells[s[p]] # Unassigned
  BY <1>3 DEF HeldOnce
<1>5. /\ Len(Append(s, x)) = n + 1 /\ Append(s, x)[n + 1] = x
      /\ \A p \in 1..n : Append(s, x)[p] = s[p]
  BY <1>3
<1>6. \A p \in 1..(n + 1) : p \in 1..n \/ p = n + 1
  BY <1>3
<1>7. \A p \in 1..(n + 1) : cells'[Append(s, x)[p]] # Unassigned
  BY ONLY <1>2, <1>4, <1>5, <1>6
<1>8. \A p, q \in 1..n : p # q => s[p] # s[q]
  BY <1>3 DEF HeldOnce
<1>9. ASSUME NEW p \in 1..(n + 1), NEW q \in 1..(n + 1), p # q
      PROVE  Append(s, x)[p] # Append(s, x)[q]
  <2>1. CASE p = n + 1 \/ q = n + 1
    BY ONLY <1>4, <1>5, <1>6, <1>9, <2>1
  <2>2. CASE p \in 1..n /\ q \in 1..n
    BY ONLY <1>5, <1>8, <1>9, <2>2
  <2>3. QED BY ONLY <1>6, <2>1, <2>2
<1>10. QED BY ONLY <1>1, <1>5, <1>7, <1>9 DEF HeldOnce

\* So does taking back the last.
LEMMA HeldButLast ==
  ASSUME StoreTypeOK, StatsExact, NEW s \in Seq(Cells), s # <<>>, HeldOnce(cells, s),
         Unassign(s[Len(s)])
  PROVE  /\ (StoreTypeOK /\ StatsExact)' /\ HeldOnce(cells', SubSeq(s, 1, Len(s) - 1))
         /\ cells'[s[Len(s)]] = Unassigned
         /\ \A y \in Cells \ {s[Len(s)]} : cells'[y] = cells[y]
<1>1. PICK n \in Nat : n + 1 = Len(s)
  <2>1. Len(s) \in Nat \ {0}
    OBVIOUS
  <2>2. Len(s) - 1 \in Nat /\ (Len(s) - 1) + 1 = Len(s)
    BY <2>1
  <2>3. QED BY <2>2
<1>2. PICK x \in Cells : x = s[n + 1]
  BY <1>1
<1>3. cells[x] # Unassigned /\ Unassign(x)
  BY <1>1, <1>2 DEF HeldOnce
<1>4. (StoreTypeOK /\ StatsExact)'
  BY <1>3, UnassignExact
<1>5. cells'[x] = Unassigned /\ \A y \in Cells \ {x} : cells'[y] = cells[y]
  BY <1>3, UnassignEffect
<1>6. /\ Len(SubSeq(s, 1, Len(s) - 1)) = n /\ \A p \in 1..n : SubSeq(s, 1, Len(s) - 1)[p] = s[p]
  <2>1. Len(s) - 1 = n
    BY <1>1
  <2>2. QED BY <2>1, ButLast
<1>7. \A p \in 1..n : s[p] \in Cells \ {x} /\ cells[s[p]] # Unassigned /\ p \in 1..(n + 1)
  <2>1. \A p \in 1..n : p \in 1..(n + 1) /\ n + 1 \in 1..(n + 1) /\ p # n + 1
    OBVIOUS
  <2>2. QED BY <1>1, <1>2, <2>1 DEF HeldOnce
<1>8. HeldOnce(cells', SubSeq(s, 1, Len(s) - 1))
  <2>1. \A p, q \in 1..(n + 1) : p # q => s[p] # s[q]
    BY <1>1 DEF HeldOnce
  <2>2. QED BY ONLY <1>5, <1>6, <1>7, <2>1 DEF HeldOnce
<1>9. QED BY ONLY <1>1, <1>2, <1>4, <1>5, <1>8

LEMMA HeldPrefix ==
  ASSUME NEW c, NEW s \in Seq(Cells), NEW t \in Seq(Cells), HeldOnce(c, s),
         Len(t) <= Len(s), \A p \in 1..Len(t) : t[p] = s[p]
  PROVE  HeldOnce(c, t)
<1>1. \A p \in 1..Len(t) : p \in 1..Len(s)
  OBVIOUS
<1>2. QED BY <1>1 DEF HeldOnce

\* A whole line is assigned.
LEMMA AssignLineExact ==
  ASSUME StoreTypeOK, StatsExact, NEW l \in Lines, NEW S \in SUBSET FreeOn(l), AssignLine(l, S)
  PROVE  (StoreTypeOK /\ StatsExact)'
<1>0. FreeOn(l) \in SUBSET Cells /\ \A x \in Cells : x \in FreeOn(l) <=> x \in CellsOn[l] /\ cells[x] = Unassigned
  BY DEF FreeOn, UnknownOn, CellsOn
<1>1. cells' \in [Cells -> CellState]
  BY DEF AssignLine, StoreTypeOK, CellState
<1>2. \A x \in Cells : cells'[x] = IF x \notin FreeOn(l) THEN cells[x] ELSE IF x \in S THEN 1 ELSE 0
  BY DEF AssignLine
<1>3. rowBits' \subseteq Cells /\ rowBits' = {x \in Cells : cells'[x] = 1}
  BY <1>0, <1>2 DEF AssignLine, StoreTypeOK, StatsExact, Unassigned
<1>4. ASSUME NEW k \in Lines
      PROVE  /\ unknown'[k] = Cardinality(UnknownOn(k)') /\ ones'[k] = Cardinality(OnesOn(k)')
             /\ unknown'[k] \in Nat /\ ones'[k] \in Nat
  <2>0. CellsOn[k] \in SUBSET Cells
    BY DEF CellsOn
  <2>1. /\ IsFiniteSet(UnknownOn(k)) /\ IsFiniteSet(OnesOn(k)) /\ IsFiniteSet(S \cap CellsOn[k])
        /\ IsFiniteSet(UnknownOn(k)') /\ IsFiniteSet(OnesOn(k)')
    <3>1. \A T \in SUBSET CellsOn[k] : IsFiniteSet(T)
      BY FiniteCells
    <3>2. /\ UnknownOn(k) \in SUBSET CellsOn[k] /\ OnesOn(k) \in SUBSET CellsOn[k]
          /\ S \cap CellsOn[k] \in SUBSET CellsOn[k]
          /\ UnknownOn(k)' \in SUBSET CellsOn[k] /\ OnesOn(k)' \in SUBSET CellsOn[k]
      BY DEF UnknownOn, OnesOn
    <3>3. QED BY ONLY <3>1, <3>2
  <2>2. UnknownOn(k)' = UnknownOn(k) \ (FreeOn(l) \cap CellsOn[k])
    BY <1>0, <1>2, <2>0 DEF UnknownOn, Unassigned
  <2>3. UnknownOn(k) \cap (FreeOn(l) \cap CellsOn[k]) = FreeOn(l) \cap CellsOn[k]
    BY <1>0, <2>0 DEF UnknownOn
  <2>4. OnesOn(k)' = OnesOn(k) \cup (S \cap CellsOn[k])
    BY <1>0, <1>2, <2>0 DEF OnesOn, Unassigned
  <2>5. OnesOn(k) \cap (S \cap CellsOn[k]) = {}
    BY <1>0, <2>0 DEF OnesOn, Unassigned
  <2>6. Cardinality(UnknownOn(k)') = Cardinality(UnknownOn(k)) - Cardinality(FreeOn(l) \cap CellsOn[k])
    <3> DEFINE U == UnknownOn(k)
               T == FreeOn(l) \cap CellsOn[k]
    <3>1. IsFiniteSet(U) /\ UnknownOn(k)' = U \ T /\ U \cap T = T
      BY ONLY <2>1, <2>2, <2>3
    <3> HIDE DEF U, T
    <3>2. Cardinality(U \ T) = Cardinality(U) - Cardinality(U \cap T)
      BY ONLY <3>1, FS_Difference
    <3>3. Cardinality(UnknownOn(k)') = Cardinality(U) - Cardinality(T)
      BY ONLY <3>1, <3>2
    <3>4. QED BY ONLY <3>3 DEF U, T
  <2>7. Cardinality(OnesOn(k)') = Cardinality(OnesOn(k)) + Cardinality(S \cap CellsOn[k])
    <3>1. Cardinality(OnesOn(k)') = Cardinality(OnesOn(k)) + Cardinality(S \cap CellsOn[k]) - Cardinality({})
      BY <2>1, <2>4, <2>5, FS_Union
    <3>2. Cardinality({}) = 0 /\ Cardinality(OnesOn(k)) \in Nat /\ Cardinality(S \cap CellsOn[k]) \in Nat
      BY <2>1, FS_EmptySet, FS_CardinalityType
    <3>3. QED BY ONLY <3>1, <3>2
  <2>8. unknown[k] = Cardinality(UnknownOn(k)) /\ ones[k] = Cardinality(OnesOn(k))
    BY DEF StatsExact
  <2>9. /\ unknown'[k] = unknown[k] - Cardinality(FreeOn(l) \cap CellsOn[k])
        /\ ones'[k] = ones[k] + Cardinality(S \cap CellsOn[k])
    BY DEF AssignLine
  <2>10. Cardinality(UnknownOn(k)') \in Nat /\ Cardinality(OnesOn(k)') \in Nat
    BY ONLY <2>1, FS_CardinalityType
  <2>11. QED BY ONLY <2>6, <2>7, <2>8, <2>9, <2>10
<1>5. unknown' \in [Lines -> Nat] /\ ones' \in [Lines -> Nat]
  <2>1. \A k \in Lines : unknown'[k] \in Nat /\ ones'[k] \in Nat
    BY <1>4
  <2>2. unknown' = [k \in Lines |-> unknown'[k]] /\ ones' = [k \in Lines |-> ones'[k]]
    BY DEF AssignLine
  <2>3. QED BY ONLY <2>1, <2>2
<1>6. StoreTypeOK'
  BY <1>1, <1>3, <1>5 DEF StoreTypeOK
<1>7. StatsExact'
  BY <1>3, <1>4 DEF StatsExact
<1>8. QED BY <1>6, <1>7

(* The propagation engine.                                                 *)

\* The engine's operations keep its types, whoever calls them.
LEMMA PropagateTyped ==
  ASSUME EngineTypeOK, NEW lines \in Seq(Lines), Propagate(lines), UNCHANGED target
  PROVE  EngineTypeOK' /\ prop' = "run" /\ forced' = <<>>
<1>1. AfterReset \in SUBSET Lines
  BY DEF AfterReset, EngineTypeOK
<1>2. <<>> \in Seq(WordNumbers)
  OBVIOUS
<1>3. MarkAll(lines, AfterReset, <<>>)
  BY DEF Propagate
<1>4. queued' \subseteq Lines /\ dirtyWords' \in Seq(WordNumbers)
  BY ONLY <1>1, <1>2, <1>3, lines \in Seq(Lines), MarkTyped
<1>5. work' = lines /\ forcing' = NotForcing /\ forced' = <<>> /\ prop' = "run"
  BY DEF Propagate
<1>6. forced' \in Seq(Cells)
  BY <1>5
<1>7. QED BY <1>4, <1>5, <1>6, NotForcingTyped DEF EngineTypeOK, WordNumbers

LEMMA TryTyped ==
  ASSUME EngineTypeOK, NEW x \in Cells, TryPropagateCell(x), UNCHANGED target
  PROVE  EngineTypeOK' /\ prop' \in {"run", "feasible", "infeasible"} /\ forced' = <<>>
<1>1. CASE Propagate(LinesForCell(x))
  BY <1>1, PropagateTyped, LinesForCellTyped
<1>2. CASE /\ forced' = <<>> /\ prop' \in {"feasible", "infeasible"}
           /\ UNCHANGED <<work, queue, forcing>>
  <2>1. forced' \in Seq(Cells)
    BY <1>2
  <2>2. QED BY <1>2, <2>1 DEF EngineTypeOK, queue
<1>3. QED BY <1>1, <1>2 DEF TryPropagateCell

\* The cell that propagation forces is free, and gets a bit.
LEMMA ForcedCell ==
  ASSUME EngineTypeOK, ForceCell
  PROVE  \E x \in Cells : /\ cells[x] = Unassigned /\ forcing.value \in {0, 1}
                          /\ Assign(x, forcing.value) /\ forced' = Append(forced, x)
<1>1. PICK x \in Cells : IsFirst(x, ToForce) /\ Assign(x, forcing.value) /\ forced' = Append(forced, x)
  BY DEF ForceCell
<1>2. cells[x] = Unassigned /\ forcing.value \in {0, 1}
  BY <1>1 DEF IsFirst, ToForce, UnknownOn, EngineTypeOK, CellState, Unassigned
<1>3. QED BY <1>1, <1>2

LEMMA EngineStepTyped ==
  ASSUME EngineTypeOK, EngineStep, UNCHANGED target
  PROVE  EngineTypeOK'
<1>1. CASE PopViolated
  <2>1. <<>> \in Seq(Lines)
    OBVIOUS
  <2>2. QED BY <1>1, <2>1, NotForcingTyped DEF PopViolated, EngineTypeOK
<1>2. CASE PopLine
  <2>1. Head(work) \in Lines /\ Tail(work) \in Seq(Lines)
    BY <1>2 DEF PopLine, EngineTypeOK
  <2>2. forcing' \in [line : Lines, value : CellState]
    BY <1>2, <2>1, NotForcingTyped DEF PopLine, CellState
  <2>3. QED BY <1>2, <2>1, <2>2 DEF PopLine, EngineTypeOK
<1>3. CASE ForceCell
  <2>1. PICK x \in Cells :
          LET on == LinesForCell(x)
              unlessQueued(l) == IF l \in queued THEN <<>> ELSE <<l>>
          IN  /\ forced' = Append(forced, x)
              /\ work' = work \o unlessQueued(on[1]) \o unlessQueued(on[2]) \o unlessQueued(on[3])
                           \o unlessQueued(on[4]) \o unlessQueued(on[5]) \o unlessQueued(on[6])
              /\ MarkAll(on, queued, dirtyWords)
    BY <1>3 DEF ForceCell
  <2>2. forced' \in Seq(Cells)
    BY <2>1 DEF EngineTypeOK
  <2>3. work' \in Seq(Lines)
    <3> DEFINE unlessQueued(l) == IF l \in queued THEN <<>> ELSE <<l>>
    <3>1. \A l \in Lines : unlessQueued(l) \in Seq(Lines)
      OBVIOUS
    <3>2. \A i \in 1..6 : LinesForCell(x)[i] \in Lines
      BY LinesForCellTyped
    <3>3. \A i \in {1, 2, 3, 4, 5, 6} : unlessQueued(LinesForCell(x)[i]) \in Seq(Lines)
      <4> HIDE DEF unlessQueued
      <4> QED BY <3>1, <3>2
    <3>4. work' = work \o unlessQueued(LinesForCell(x)[1]) \o unlessQueued(LinesForCell(x)[2]) \o unlessQueued(LinesForCell(x)[3])
                           \o unlessQueued(LinesForCell(x)[4]) \o unlessQueued(LinesForCell(x)[5]) \o unlessQueued(LinesForCell(x)[6])
      BY <2>1
    <3> HIDE DEF unlessQueued
    <3>5. \A a, b \in Seq(Lines) : a \o b \in Seq(Lines)
      OBVIOUS
    <3>6. work \in Seq(Lines)
      BY DEF EngineTypeOK
    <3>7. QED BY ONLY <3>3, <3>4, <3>5, <3>6
  <2>4. queued' \subseteq Lines /\ dirtyWords' \in Seq(WordNumbers)
    <3>1. MarkAll(LinesForCell(x), queued, dirtyWords) /\ LinesForCell(x) \in Seq(Lines)
      BY <2>1, LinesForCellTyped
    <3>2. queued \in SUBSET Lines /\ dirtyWords \in Seq(WordNumbers)
      BY DEF EngineTypeOK, WordNumbers
    <3>3. QED BY ONLY <3>1, <3>2, MarkTyped
  <2>5. UNCHANGED <<forcing, prop>>
    BY <1>3 DEF ForceCell
  <2>6. QED BY <2>2, <2>3, <2>4, <2>5 DEF EngineTypeOK, WordNumbers
<1>4. CASE Quiesce
  BY <1>4, NotForcingTyped DEF Quiesce, EngineTypeOK, queue
<1>5. QED BY <1>1, <1>2, <1>3, <1>4 DEF EngineStep

-------------------------------------------------------------------------------
(* The decomposed search: where it stands, its types.                      *)

(* Where the searches stand.                                               *)
DecomposedPlaces ==
  {"start", "initial", "loop", "probe", "probed", "unprobe", "try", "result", "sidecar",
   "sidecarPropagate", "sidecarPropagated", "hashes", "complete", "fill", "fillPropagate",
   "filled", "ended"}
PassPlaces   == {"pass", "probe", "probed", "unprobe", "forcing", "forced"}
DeepPlaces   == {"deep", "deepProbe", "deepProbed", "deepNext", "deepReturn"}
SerialPlaces == {"serialStart", "serialInitial", "solve", "candidate", "lineAssigned",
                 "linePropagated", "cascade", "fail", "serialEnded"}

\* A propagation runs, or its result has not been looked at.
Waiting    == {"initial", "result", "probed", "sidecarPropagated", "filled", "forced", "deepProbed"}
ProbeAt    == {"probe", "probed", "unprobe"}
SidecarAt  == {"sidecar", "sidecarPropagate", "sidecarPropagated"}
FillAt     == {"fill", "fillPropagate", "filled"}
CompleteAt == {"complete"} \cup FillAt

ProbeCall    == [value : {0, 1}, zeroOk : BOOLEAN, ok : BOOLEAN, before : [Cells -> CellState]]
SidecarCall  == [kind : {"parity", "sums"}, todo : Seq(Due)]
CompleteCall == [at : Nat, memory : Seq(Cells), todo : Seq(Due)]

CallTyped ==
  /\ pc \in ProbeAt => call \in ProbeCall
  /\ pc \in SidecarAt => call \in SidecarCall
  /\ pc \in CompleteAt => call \in CompleteCall
  /\ pc \in FillAt => call.at <= Len(call.memory)
  /\ pc \in {"sidecarPropagate", "sidecarPropagated", "fillPropagate", "filled"} => call.todo # <<>>
  /\ pc = "deepReturn" => call.feasible \in BOOLEAN
  /\ pc = "deepNext" => call.next \in Cells /\ cells[call.next] = Unassigned

DecomposedLocals ==
  [rowHeap    : Seq(HeapEntry),
   iterations : 0..(kReseed - 1),
   detector   : DetectorType,
   belief     : {NoBelief} \cup Beliefs,
   guessed    : BOOLEAN,
   counted    : [Kinds -> LogType],
   marks      : Seq([Kinds -> Nat])]

ProberLocals ==
  [last : Cells \cup {BeforeAll}, progress : BOOLEAN,
   verdict : {"none", "contradiction", "fixpoint"}]

SerialLocals == [solved : BOOLEAN, stuckAt : Seq([Cells -> CellState])]

ProbeFrame == [cell : Cells, token : Nat]
DeepFrames == [cell : Cells, value : {0, 1}, depth : 1..kMaxDepth, token : Nat, zeroOk : BOOLEAN]
Stored ==
  [cells : [Cells -> CellState], rowBits : SUBSET Cells, unknown : [Lines -> Nat], ones : [Lines -> Nat]]
Nodes == [line : {RowOf(r) : r \in Index}, candidates : SUBSET SUBSET Cells, snapshot : Stored]

Basics ==
  /\ StoreTypeOK /\ EngineTypeOK /\ BranchingTypeOK /\ InputTyped
  /\ answers \in Seq(SUBSET Cells)
  /\ solver \in {"decomposed", "serial", "prober"}

DecomposedShape ==
  /\ pc \in DecomposedPlaces /\ frames \in Seq(FrameType)
  /\ prop = "run" => pc \in Waiting
  /\ pc \notin {"start", "initial", "loop", "ended"} => frames # <<>>
  /\ pc \in {"start", "initial"} => frames = <<>>
  /\ minUnassignedRow = 0

\* The top frame is a frame.
LEMMA TopTyped ==
  ASSUME NEW T, frames \in Seq(T), frames # <<>>
  PROVE  Top \in T /\ Len(frames) \in 1..Len(frames) /\ Len(frames) \in Nat \ {0}
BY DEF Top

\* Some cell is open as long as some row is not complete.
LEMMA SomeOpen ==
  ASSUME StatsExact, NEW r \in Index, unknown[RowOf(r)] # 0, minUnassignedRow = 0
  PROVE  Open # {} /\ FirstOf(Open) \in Open /\ Open \subseteq Cells
<1>1. RowOf(r) \in Lines /\ \A x \in CellsOn[RowOf(r)] : x \in Cells /\ x[1] = r
  <2>1. RowOf(r) \in Lines
    <3>1. kS \in Nat \ {0} /\ r \in 0..(kS - 1) /\ r + 1 \in 1..LineCount["row"] /\ (r + 1) - 1 = r
      BY kSAssumption DEF Index, LineCount
    <3>2. LinesOfType("row")[r + 1] = <<"row", r>> /\ DOMAIN LinesOfType("row") = 1..LineCount["row"]
      BY <3>1 DEF LinesOfType, Line
    <3>3. <<"row", r>> \in Range(LinesOfType("row"))
      BY <3>1, <3>2 DEF Range
    <3>4. QED BY <3>3 DEF Lines, LineTypes, RowOf, Line
  <2>2. QED BY <2>1 DEF CellsOn, RowOf, Line, LineIndex
<1>2. PICK x \in UnknownOn(RowOf(r)) : TRUE
  <2>1. Cardinality(UnknownOn(RowOf(r))) # 0
    BY <1>1 DEF StatsExact
  <2>2. UnknownOn(RowOf(r)) # {}
    BY <2>1, FS_EmptySet
  <2>3. QED BY <2>2
<1>3. x \in Open
  <2>1. x \in Cells /\ x[1] = r /\ cells[x] = Unassigned /\ r >= 0
    BY <1>1, <1>2, kSAssumption DEF UnknownOn, Index
  <2>2. QED BY <2>1 DEF Open
<1>4. Open \in SUBSET Cells
  BY DEF Open
<1>5. FirstOf(Open) \in Open
  <2>1. Open # {}
    BY <1>3
  <2>2. IsFirst(FirstOf(Open), Open)
    BY ONLY <1>4, <2>1, FirstIsThere, Zenon
  <2>3. QED BY <2>2 DEF IsFirst
<1>6. QED BY <1>3, <1>4, <1>5

\* The heap's first entry near completion.
LEMMA FreshEntry ==
  ASSUME NEW heap \in Seq(HeapEntry), Fresh(heap) # 0
  PROVE  Fresh(heap) \in 1..Len(heap) /\ heap[Fresh(heap)][2] \in Index
<1> DEFINE I == {i \in 1..Len(heap) : NearCompletion(heap[i][2])}
<1>1. Fresh(heap) = IF I # {} THEN Min(I) ELSE 0
  BY DEF Fresh, SelectInSeq
<1>2. I # {} /\ Fresh(heap) = Min(I)
  BY <1>1
<1>3. PICK m \in I : \A y \in I : m <= y
  <2>1. I \subseteq Nat
    OBVIOUS
  <2> HIDE DEF I
  <2>2. QED BY <1>2, <2>1, Least
<1>4. Min(I) \in I
  <2> HIDE DEF I
  <2> QED BY <1>3 DEF Min
<1>5. Fresh(heap) \in 1..Len(heap)
  BY <1>2, <1>4
<1>6. heap[Fresh(heap)] \in HeapEntry
  <2> HIDE DEF HeapEntry
  <2> QED BY <1>5
<1>7. QED BY <1>5, <1>6 DEF HeapEntry

LEMMA TurnHeapTyped ==
  ASSUME locals \in DecomposedLocals, StoreTypeOK
  PROVE  TurnHeap \in Seq(HeapEntry)
<1>1. locals.rowHeap \in Seq(HeapEntry)
  BY DEF DecomposedLocals
<1>2. unknown \in [Lines -> Nat]
  BY DEF StoreTypeOK
<1>3. AllRows \in Seq(Index)
  BY kSAssumption DEF AllRows, Index
<1>4. Pushed(locals.rowHeap, AllRows) \in Seq(HeapEntry)
  BY ONLY <1>1, <1>2, <1>3, PushedTyped, Zenon
<1>5. QED BY ONLY <1>1, <1>4 DEF TurnHeap

LEMMA FrameTyped ==
  ASSUME NEW x \in Cells, NEW y \in Cells, NEW v \in {0, 1}
  PROVE  Frame(x, y, v) \in FrameType
BY DEF Frame, FrameType

LEMMA BelievedTyped ==
  ASSUME NEW x \in Cells, NEW v \in {0, 1}, locals'.belief \in {NoBelief} \cup Beliefs
  PROVE  PreferredOf(x, v) \in {0, 1}
<1>1. NoBelief \in [Cells -> CellState]
  BY DEF NoBelief, CellState
<1>2. locals'.belief \in [Cells -> CellState]
  BY <1>1, BeliefsAssumption
<1>3. QED BY <1>2 DEF PreferredOf, CellState, Unassigned

LEMMA BestTyped ==
  ASSUME NEW r \in Index, NEW x \in BestCells(r)
  PROVE  x \in Cells /\ cells[x] = Unassigned
<1>1. x \in {<<r, c>> : c \in FreeColumns(r)}
  BY DEF BestCells
<1>2. PICK c \in FreeColumns(r) : x = <<r, c>>
  BY <1>1
<1>3. QED BY <1>2 DEF FreeColumns, Cells

\* Every step of the search keeps its place and its stack in keeping.
LEMMA DecomposedShapeStep ==
  ASSUME Basics, StatsExact, DecomposedShape, locals \in DecomposedLocals, locals' \in DecomposedLocals,
         DecomposedNext
  PROVE  DecomposedShape'
<1> USE DEF vars, engine, input, control, brancher
<1> DEFINE Places == DecomposedPlaces \ {"start", "initial", "loop", "ended"}
<1>0. /\ minUnassignedRow = 0 /\ frames \in Seq(FrameType)
      /\ frames # <<>> => Top \in FrameType /\ Len(frames) \in 1..Len(frames)
  BY TopTyped DEF DecomposedShape
<1>1. CASE Start
  BY <1>1 DEF Start, DecomposedShape, Waiting, DecomposedPlaces
<1>2. CASE InitialInfeasible \/ InitialSolved
  BY <1>2 DEF InitialInfeasible, InitialSolved, DecomposedShape, Waiting, DecomposedPlaces
<1>3. CASE InitialBranch
  <2>1. PICK r \in Index : unknown[RowOf(r)] # 0
    BY <1>3 DEF InitialBranch, AllComplete, Complete
  <2>2. FirstOf(Open) \in Cells
    BY <1>0, <2>1, SomeOpen
  <2>3. Frame(FirstOf(Open), FirstOf(Open), 0) \in FrameType
    BY <2>2, FrameTyped
  <2>4. frames' \in Seq(FrameType) /\ pc' = "loop" /\ prop' # "run" /\ minUnassignedRow' = 0
    BY <1>0, <1>3, <2>3 DEF InitialBranch
  <2>5. QED BY <2>4 DEF DecomposedShape, DecomposedPlaces
<1>4. CASE Undo
  <2>1. frames # <<>> /\ ~Undone /\ UndoLast /\ UNCHANGED <<prop, frames, pc>>
    BY <1>4 DEF Undo
  <2>2. undoStack # <<>>
    BY <1>0, <2>1 DEF Undone, FrameType, Basics, BranchingTypeOK
  <2>3. undoStack[Len(undoStack)] \in Cells
    BY <2>2 DEF Basics, BranchingTypeOK
  <2>4. undoStack[Len(undoStack)][1] \in Nat
    BY <2>3, CellParts, kSAssumption DEF Index
  <2>5. minUnassignedRow' = 0
    <3>1. minUnassignedRow' = IF undoStack[Len(undoStack)][1] < minUnassignedRow
                              THEN undoStack[Len(undoStack)][1] ELSE minUnassignedRow
      BY <2>1 DEF UndoLast
    <3>2. QED BY ONLY <1>0, <2>4, <3>1
  <2>6. QED BY <2>1, <2>5 DEF DecomposedShape
<1>5. CASE Pop
  <2>1. frames' \in Seq(FrameType)
    <3>1. frames # <<>> /\ frames' = SubSeq(frames, 1, Len(frames) - 1)
      BY <1>5 DEF Pop
    <3>2. QED BY <1>0, <3>1, ButLast
  <2>2. QED BY <1>5, <2>1 DEF Pop, DecomposedShape
<1>6. CASE ProbeZero \/ BothInfeasible \/ TryForced \/ TryAlternate
  <2>1. frames # <<>>
    BY <1>6 DEF ProbeZero, BothInfeasible, TryForced, TryAlternate, DecomposedShape
  <2>2. PICK n \in Nat : n = Len(frames) /\ n \in 1..Len(frames)
    BY <1>0, <2>1
  <2>3. PICK t \in Nat, v \in {1, 2} : \/ frames' = [frames EXCEPT ![n].nextValue = v, ![n].token = t]
                                       \/ frames' = [frames EXCEPT ![n].nextValue = v]
    <3>1. Len(undoStack) \in Nat
      BY DEF Basics, BranchingTypeOK
    <3>2. QED BY <1>6, <2>2, <3>1 DEF ProbeZero, BothInfeasible, TryForced, TryAlternate
  <2>4. frames' \in Seq(FrameType)
    <3>1. ASSUME NEW f \in FrameType PROVE [f EXCEPT !.nextValue = v] \in FrameType
      BY DEF FrameType
    <3>2. ASSUME NEW f \in FrameType PROVE [f EXCEPT !.token = t] \in FrameType
      BY DEF FrameType
    <3>3. \A fs \in Seq(FrameType) : n \in 1..Len(fs) =>
             /\ [fs EXCEPT ![n].nextValue = v] \in Seq(FrameType) /\ Len([fs EXCEPT ![n].nextValue = v]) = Len(fs)
             /\ [fs EXCEPT ![n].token = t] \in Seq(FrameType)
      BY <3>1, <3>2
    <3>4. n \in 1..Len(frames)
      BY <2>2
    <3>5. QED BY ONLY <1>0, <2>3, <3>3, <3>4
  <2>5. frames' # <<>> /\ pc' \in {"loop", "probe", "try"} /\ UNCHANGED <<minUnassignedRow, prop>>
    <3>1. Len(frames') = Len(frames)
      BY <1>0, <2>3
    <3>2. QED BY <1>6, <2>2, <3>1 DEF ProbeZero, Probe, AssignAndRecord, BothInfeasible, TryForced, TryAlternate
  <2>6. prop # "run"
    BY <1>6 DEF DecomposedShape, ProbeZero, BothInfeasible, TryForced, TryAlternate, Waiting
  <2>7. QED BY <1>0, <2>4, <2>5, <2>6 DEF DecomposedShape, DecomposedPlaces
<1>7. CASE ProbeOne \/ TryPreferred \/ ProbePropagate \/ TryPropagate \/ ProbeContradiction \/ ProbeJudge \/ Contradiction \/ Propagated
  <2>1. frames # <<>>
    BY <1>7 DEF ProbeOne, TryPreferred, ProbePropagate, TryPropagate, ProbeContradiction, ProbeJudge, Contradiction, Propagated, DecomposedShape
  <2>2. UNCHANGED <<frames, minUnassignedRow>> /\ pc' \in {"probe", "try", "probed", "result", "loop", "unprobe", "sidecar"}
    BY <1>7 DEF ProbeOne, TryPreferred, ProbePropagate, TryPropagate, ProbeContradiction, ProbeJudge, Contradiction, Propagated, Probe, AssignAndRecord
  <2>3. prop' = "run" => pc' \in Waiting
    BY <1>7 DEF ProbeOne, TryPreferred, ProbePropagate, TryPropagate, ProbeContradiction, ProbeJudge, Contradiction, Propagated, Probe, AssignAndRecord, DecomposedShape, Waiting
  <2>4. QED BY <1>0, <2>1, <2>2, <2>3 DEF DecomposedShape, DecomposedPlaces
<1>8. CASE Cascade \/ CascadeKnown \/ CascadeCell \/ CascadePropagate \/ Cascaded \/ ParityDone \/ CascadeDone
  <2>1. frames # <<>>
    BY <1>8 DEF Cascade, CascadeKnown, CascadeCell, CascadePropagate, Cascaded, ParityDone, CascadeDone, DecomposedShape
  <2>2. UNCHANGED <<frames, minUnassignedRow>> /\ pc' \in {"sidecar", "sidecarPropagate", "sidecarPropagated", "complete"}
    BY <1>8 DEF Cascade, CascadeKnown, CascadeCell, CascadePropagate, Cascaded, ParityDone, CascadeDone, AssignAndRecord
  <2>3. prop' = "run" => pc' \in Waiting
    BY <1>8 DEF Cascade, CascadeKnown, CascadeCell, CascadePropagate, Cascaded, ParityDone, CascadeDone, DecomposedShape, Waiting
  <2>4. QED BY <1>0, <2>1, <2>2, <2>3 DEF DecomposedShape, DecomposedPlaces
<1>9. CASE SkipRow \/ CompletionInfeasible \/ CompleteRow \/ FillKnown \/ FillCell \/ FillPropagate \/ Filled \/ FillDone
  <2>1. frames # <<>>
    BY <1>9 DEF SkipRow, CompletionInfeasible, CompleteRow, FillKnown, FillCell, FillPropagate, Filled, FillDone, DecomposedShape
  <2>2. UNCHANGED <<frames, minUnassignedRow>> /\ pc' \in {"complete", "loop", "fill", "fillPropagate", "filled"}
    BY <1>9 DEF SkipRow, CompletionInfeasible, CompleteRow, FillKnown, FillCell, FillPropagate, Filled, FillDone, AssignAndRecord
  <2>3. prop' = "run" => pc' \in Waiting
    BY <1>9 DEF SkipRow, CompletionInfeasible, CompleteRow, FillKnown, FillCell, FillPropagate, Filled, FillDone, DecomposedShape, Waiting
  <2>4. QED BY <1>0, <2>1, <2>2, <2>3 DEF DecomposedShape, DecomposedPlaces
<1>10. CASE VerifyBlocks \/ HashMismatch \/ Yield \/ Exhausted
  <2>1. UNCHANGED <<frames, minUnassignedRow, prop>> /\ pc' \in {"hashes", "loop", "ended"} /\ (pc' = "hashes" => frames # <<>>)
    BY <1>10 DEF VerifyBlocks, HashMismatch, RowsDone, Yield, Exhausted, DecomposedShape
  <2>2. prop # "run"
    BY <1>10 DEF VerifyBlocks, HashMismatch, RowsDone, Yield, Exhausted, DecomposedShape, Waiting
  <2>3. QED BY <1>0, <2>1, <2>2 DEF DecomposedShape, DecomposedPlaces
<1>11. CASE SelectFromHeap \/ SelectNext
  <2>0. frames # <<>> /\ prop # "run" /\ Top.order \in Cells
    BY <1>0, <1>11 DEF SelectFromHeap, SelectNext, RowsDone, DecomposedShape, Waiting, FrameType
  <2>1. locals'.belief \in {NoBelief} \cup Beliefs
    BY DEF DecomposedLocals
  <2>2. PICK g \in FrameType : frames' = Append(frames, g)
    <3>1. CASE SelectFromHeap
      <4>1. TurnHeap \in Seq(HeapEntry) /\ Fresh(TurnHeap) # 0
        BY <3>1, TurnHeapTyped DEF SelectFromHeap, Basics
      <4>2. PICK r \in Index : r = TurnHeap[Fresh(TurnHeap)][2]
        BY <4>1, FreshEntry
      <4>3. PICK x \in BestCells(r) : frames' = Append(frames, Frame(x, Top.order, PreferredOf(x, preferred(x))))
        BY <3>1, <4>2 DEF SelectFromHeap
      <4>4. x \in Cells
        BY BestTyped
      <4>5. preferred(x) \in {0, 1}
        BY DEF preferred
      <4>6. PreferredOf(x, preferred(x)) \in {0, 1}
        BY ONLY <2>1, <4>4, <4>5, BelievedTyped
      <4>7. QED BY ONLY <2>0, <4>3, <4>4, <4>6, FrameTyped
    <3>2. CASE SelectNext
      <4>1. PICK next : next = FirstOf(FreeAfter(Top.order)) /\ frames' = Append(frames, Frame(next, next, PreferredOf(next, 0)))
        BY <3>2 DEF SelectNext
      <4>2. next \in Cells
        <5>1. FreeAfter(Top.order) \in SUBSET Cells /\ FreeAfter(Top.order) # {}
          BY <3>2 DEF SelectNext, FreeAfter
        <5>2. IsFirst(next, FreeAfter(Top.order))
          BY ONLY <4>1, <5>1, FirstIsThere
        <5>3. QED BY <5>1, <5>2 DEF IsFirst
      <4>3. PreferredOf(next, 0) \in {0, 1}
        BY ONLY <2>1, <4>2, BelievedTyped
      <4>4. QED BY ONLY <4>1, <4>2, <4>3, FrameTyped
    <3>3. QED BY <1>11, <3>1, <3>2
  <2>3. frames' \in Seq(FrameType) /\ frames' # <<>>
    BY <1>0, <2>2
  <2>4. pc' = "loop" /\ UNCHANGED <<minUnassignedRow, prop>>
    BY <1>11 DEF SelectFromHeap, SelectNext
  <2>5. QED BY <1>0, <2>0, <2>3, <2>4 DEF DecomposedShape, DecomposedPlaces
<1>12. CASE Propagating
  <2>1. UNCHANGED <<frames, pc, minUnassignedRow>> /\ prop = "run"
    BY <1>12 DEF Propagating, EngineStep, PopViolated, PopLine, ForceCell, Quiesce
  <2>2. QED BY <2>1 DEF DecomposedShape
<1>13. QED
  BY <1>1, <1>2, <1>3, <1>4, <1>5, <1>6, <1>7, <1>8, <1>9, <1>10, <1>11, <1>12 DEF DecomposedNext

\* What may follow the head of a list of cells to assign.
LEMMA DueTail ==
  ASSUME NEW s \in Seq(Due), s # <<>>
  PROVE  /\ Head(s) \in Due /\ Tail(s) \in Seq(Due)
         /\ Head(s).cell \in Cells /\ Head(s).value \in {0, 1}
<1>1. Head(s) \in Due /\ Tail(s) \in Seq(Due)
  OBVIOUS
<1>2. QED BY <1>1 DEF Due

\* A probe's locals, and the subroutines': what each place of a search needs.
LEMMA ProbeTyped ==
  ASSUME NEW v \in {0, 1}, NEW ok \in BOOLEAN, Basics, Probe(v, ok)
  PROVE  call' \in ProbeCall /\ pc' = "probe"
BY DEF Probe, ProbeCall, Basics, StoreTypeOK

LEMMA ColumnsTyped ==
  ASSUME NEW r \in Index, NEW columns, NEW ones0
  PROVE  LET cs == Kept(AllRows, columns)
         IN  [i \in DOMAIN cs |-> [cell |-> <<r, cs[i]>>, value |-> IF cs[i] \in ones0 THEN 1 ELSE 0]]
               \in Seq(Due)
<1>1. AllRows \in Seq(Index)
  BY kSAssumption DEF AllRows, Index
<1>2. Kept(AllRows, columns) \in Seq(Index \cap columns)
  BY <1>1, KeptRight
<1>3. PICK cs \in Seq(Index \cap columns) : cs = Kept(AllRows, columns)
  BY <1>2
<1>4. PICK n \in Nat : DOMAIN cs = 1..n /\ \A i \in 1..n : cs[i] \in Index
  BY ONLY <1>3
<1>5. \A i \in 1..n : [cell |-> <<r, cs[i]>>, value |-> IF cs[i] \in ones0 THEN 1 ELSE 0] \in Due
  BY ONLY <1>4, r \in Index DEF Due, Cells
<1>6. [i \in DOMAIN cs |-> [cell |-> <<r, cs[i]>>, value |-> IF cs[i] \in ones0 THEN 1 ELSE 0]] \in Seq(Due)
  BY ONLY <1>4, <1>5
<1>7. QED BY ONLY <1>3, <1>6

\* RowDecomposedController_enumerateSolutionsLex reads the row of a forced cell, or of the branched one.
LEMMA AtRowTyped ==
  ASSUME call \in CompleteCall, call.at <= Len(call.memory), frames \in Seq(FrameType), frames # <<>>
  PROVE  AtRow \in Index
<1>1. Top.cell \in Cells
  <2>1. Top \in FrameType
    BY TopTyped
  <2>2. QED BY ONLY <2>1 DEF FrameType
<1>2. call.at # 0 => call.memory[call.at] \in Cells
  BY DEF CompleteCall
<1>3. QED BY <1>1, <1>2, CellParts DEF AtRow

\* The vector of forced cells keeps its length when propagation writes over it.
LEMMA OverwrittenTyped ==
  ASSUME NEW memory \in Seq(Cells), forced \in Seq(Cells)
  PROVE  Overwritten(memory) \in Seq(Cells) /\ Len(Overwritten(memory)) = Len(memory)
BY DEF Overwritten

\* Every step keeps the locals of the subroutine that runs.
LEMMA DecomposedCallsStep ==
  ASSUME Basics, DecomposedShape, DecomposedShape', CallTyped, locals \in DecomposedLocals, DecomposedNext
  PROVE  CallTyped'
<1> DEFINE Plain == {"start", "initial", "loop", "try", "result", "hashes", "ended"}
<1>a. ASSUME pc' \in Plain PROVE CallTyped'
  BY <1>a DEF CallTyped, ProbeAt, SidecarAt, CompleteAt, FillAt
<1>b. ASSUME pc' \in ProbeAt, call' \in ProbeCall PROVE CallTyped'
  BY <1>b DEF CallTyped, ProbeAt, SidecarAt, CompleteAt, FillAt
<1>c. ASSUME pc' \in SidecarAt, call' \in SidecarCall, pc' # "sidecar" => call'.todo # <<>> PROVE CallTyped'
  BY <1>c DEF CallTyped, ProbeAt, SidecarAt, CompleteAt, FillAt
<1>d. ASSUME pc' \in CompleteAt, call' \in CompleteCall, pc' \in FillAt => call'.at <= Len(call'.memory),
             pc' \in {"fillPropagate", "filled"} => call'.todo # <<>> PROVE CallTyped'
  BY <1>d DEF CallTyped, ProbeAt, SidecarAt, CompleteAt, FillAt
<1>e. <<>> \in Seq(Due) /\ forced \in Seq(Cells)
  BY DEF Basics, EngineTypeOK
<1> HIDE DEF Plain
<1>1. CASE \/ Start \/ InitialInfeasible \/ InitialSolved \/ InitialBranch \/ Pop \/ BothInfeasible
           \/ TryPreferred \/ TryForced \/ TryAlternate \/ TryPropagate \/ Contradiction
  <2>1. pc' \in Plain
    BY <1>1 DEF Plain, Start, InitialInfeasible, InitialSolved, InitialBranch, Pop, BothInfeasible, TryPreferred, TryForced, TryAlternate, TryPropagate, Contradiction
  <2>2. QED BY <1>a, <2>1
<1>2. CASE \/ CompletionInfeasible \/ VerifyBlocks \/ HashMismatch \/ SelectFromHeap \/ SelectNext
           \/ Yield \/ Exhausted
  <2>1. pc' \in Plain
    BY <1>2 DEF Plain, CompletionInfeasible, VerifyBlocks, HashMismatch, SelectFromHeap, SelectNext, Yield, Exhausted
  <2>2. QED BY <1>a, <2>1
<1>3. CASE Undo \/ ProbePropagate \/ ProbeContradiction \/ ProbeJudge
  <2>1. CASE Undo /\ pc = "loop"
    <3>1. pc' \in Plain
      BY <2>1 DEF Undo, control, Plain
    <3>2. QED BY <1>a, <3>1
  <2>2. CASE ~(Undo /\ pc = "loop")
    <3>1. pc \in ProbeAt /\ pc' \in ProbeAt
      BY <1>3, <2>2 DEF Undo, ProbePropagate, ProbeContradiction, ProbeJudge, ProbeAt, control
    <3>2. call \in ProbeCall
      BY <3>1 DEF CallTyped
    <3>3. call' \in ProbeCall
      <4>1. CASE ProbeJudge
        <5>1. PICK ok \in BOOLEAN : call' = [call EXCEPT !.ok = ok]
          BY <4>1 DEF ProbeJudge
        <5>2. QED BY <3>2, <5>1 DEF ProbeCall
      <4>2. CASE ~ProbeJudge
        BY <1>3, <3>2, <4>2 DEF Undo, ProbePropagate, ProbeContradiction, control
      <4>3. QED BY <4>1, <4>2
    <3>4. QED BY <1>b, <3>1, <3>3
  <2>3. QED BY <2>1, <2>2
<1>4. CASE ProbeZero \/ ProbeOne
  <2>1. PICK v \in {0, 1}, ok \in BOOLEAN : Probe(v, ok)
    <3>1. CASE ProbeZero
      BY <3>1 DEF ProbeZero
    <3>2. CASE ProbeOne
      <4>1. call \in ProbeCall
        BY <3>2 DEF ProbeOne, CallTyped, ProbeAt
      <4>2. call.ok \in BOOLEAN
        BY <4>1 DEF ProbeCall
      <4>3. QED BY <3>2, <4>2 DEF ProbeOne
    <3>3. QED BY <1>4, <3>1, <3>2
  <2>2. call' \in ProbeCall /\ pc' = "probe"
    BY <2>1, ProbeTyped
  <2>3. QED BY <1>b, <2>2 DEF ProbeAt
<1>5. CASE Propagated
  <2>1. call' = [kind |-> "parity", todo |-> <<>>] /\ pc' = "sidecar"
    BY <1>5 DEF Propagated
  <2>2. call' \in SidecarCall
    BY <1>e, <2>1 DEF SidecarCall
  <2>3. QED BY <1>c, <2>1, <2>2 DEF SidecarAt
<1>6. CASE Cascade \/ CascadeKnown \/ CascadeCell \/ CascadePropagate \/ Cascaded \/ ParityDone
  <2>1. pc \in SidecarAt /\ pc' \in SidecarAt
    BY <1>6 DEF Cascade, CascadeKnown, CascadeCell, CascadePropagate, Cascaded, ParityDone, SidecarAt
  <2>2. call \in SidecarCall /\ call.todo \in Seq(Due) /\ call.kind \in {"parity", "sums"}
    BY <2>1 DEF CallTyped, SidecarCall
  <2>3. CASE Cascade
    <3>1. locals.counted["parity"] \in LogType
      BY DEF DecomposedLocals, Kinds
    <3>2. CheckForcing(call.kind) \in Seq(Due)
      BY ONLY <3>1, Basics, ForcingTyped DEF Basics
    <3>3. call' \in SidecarCall
      BY <2>2, <2>3, <3>2 DEF Cascade, SidecarCall
    <3>4. QED BY <1>c, <2>1, <2>3, <3>3 DEF Cascade
  <2>4. CASE CascadeKnown \/ Cascaded
    <3>1. call.todo # <<>> /\ call' = [call EXCEPT !.todo = Tail(@)] /\ pc' = "sidecar"
      BY <2>4 DEF CascadeKnown, Cascaded, CallTyped
    <3>2. Tail(call.todo) \in Seq(Due)
      BY <2>2, <3>1, DueTail
    <3>3. call' \in SidecarCall
      BY <2>2, <3>1, <3>2 DEF SidecarCall
    <3>4. QED BY <1>c, <2>1, <3>1, <3>3
  <2>5. CASE CascadeCell \/ CascadePropagate
    <3>1. call' = call /\ call.todo # <<>>
      BY <2>5 DEF CascadeCell, CascadePropagate, CallTyped
    <3>2. QED BY <1>c, <2>1, <2>2, <3>1
  <2>6. CASE ParityDone
    <3>1. call' \in SidecarCall
      BY <2>2, <2>6 DEF ParityDone, SidecarCall
    <3>2. QED BY <1>c, <2>1, <2>6, <3>1 DEF ParityDone
  <2>7. QED BY <1>6, <2>3, <2>4, <2>5, <2>6
<1>7. CASE CascadeDone
  <2>1. call' = [at |-> 0, memory |-> <<>>, todo |-> <<>>] /\ pc' = "complete"
    BY <1>7 DEF CascadeDone
  <2>e. <<>> \in Seq(Cells) /\ <<>> \in Seq(Due)
    OBVIOUS
  <2>2. call' \in CompleteCall
    BY <2>e, <2>1 DEF CompleteCall
  <2>3. QED BY <1>d, <2>1, <2>2 DEF CompleteAt, FillAt
<1>8. CASE SkipRow \/ CompleteRow \/ FillKnown \/ FillCell \/ FillPropagate \/ Filled \/ FillDone
  <2>1. pc \in CompleteAt /\ pc' \in CompleteAt
    BY <1>8 DEF SkipRow, CompleteRow, FillKnown, FillCell, FillPropagate, Filled, FillDone, CompleteAt, FillAt
  <2>2. call \in CompleteCall /\ call.at \in Nat /\ call.memory \in Seq(Cells) /\ call.todo \in Seq(Due)
    BY <2>1 DEF CallTyped, CompleteCall
  <2>3. CASE SkipRow \/ FillDone
    <3>1. NextRow /\ pc' = "complete"
      BY <2>3 DEF SkipRow, FillDone
    <3>2. PICK memory \in Seq(Cells) : memory = IF call.at = 0 THEN forced ELSE call.memory
      BY <1>e, <2>2
    <3>3. call' \in CompleteCall
      <4>1. call' = [at |-> call.at + 1, memory |-> memory, todo |-> call.todo]
        BY ONLY <2>2, <3>1, <3>2 DEF NextRow, CompleteCall
      <4>2. QED BY ONLY <2>2, <4>1 DEF CompleteCall
    <3>4. QED BY <1>d, <2>1, <3>1, <3>3 DEF FillAt
  <2>4. CASE CompleteRow
    <3>1. call.at <= Len(call.memory) /\ pc' = "fill"
      BY <2>4 DEF CompleteRow
    <3>2. AtRow \in Index
      <4>1. frames \in Seq(FrameType) /\ frames # <<>>
        BY <2>4 DEF CompleteRow, DecomposedShape
      <4>2. QED BY ONLY <2>2, <3>1, <4>1, AtRowTyped
    <3>3. PICK todo \in Seq(Due) : call' = [call EXCEPT !.todo = todo]
      <4>1. PICK result : call' = [call EXCEPT !.todo =
            LET columns == Kept(AllRows, result.columns)
            IN  [i \in DOMAIN columns |->
                   [cell |-> <<AtRow, columns[i]>>,
                    value |-> IF columns[i] \in result.ones THEN 1 ELSE 0]]]
        BY <2>4 DEF CompleteRow
      <4>2. QED BY ONLY <3>2, <4>1, ColumnsTyped
    <3>4. call' \in CompleteCall /\ call'.at = call.at /\ call'.memory = call.memory
      BY <2>2, <3>3 DEF CompleteCall
    <3>5. QED BY <1>d, <2>1, <3>1, <3>4 DEF FillAt
  <2>5. CASE FillKnown \/ Filled
    <3>1. call.todo # <<>> /\ pc' = "fill" /\ call.at <= Len(call.memory)
      BY <2>5 DEF FillKnown, Filled, CallTyped, FillAt
    <3>2. Tail(call.todo) \in Seq(Due)
      BY <2>2, <3>1, DueTail
    <3>3. Overwritten(call.memory) \in Seq(Cells) /\ Len(Overwritten(call.memory)) = Len(call.memory)
      BY ONLY <1>e, <2>2, OverwrittenTyped
    <3>4. call' \in CompleteCall /\ call'.at = call.at /\ Len(call'.memory) = Len(call.memory)
      BY <2>2, <2>5, <3>2, <3>3 DEF FillKnown, Filled, CompleteCall
    <3>5. QED BY <1>d, <2>1, <3>1, <3>4 DEF FillAt
  <2>6. CASE FillCell \/ FillPropagate
    <3>1. call' = call /\ call.todo # <<>> /\ call.at <= Len(call.memory)
      BY <2>6 DEF FillCell, FillPropagate, CallTyped, FillAt
    <3>2. QED BY <1>d, <2>1, <2>2, <3>1
  <2>7. QED BY <1>8, <2>3, <2>4, <2>5, <2>6
<1>9. CASE Propagating
  <2>1. UNCHANGED <<pc, call>> /\ pc \in DecomposedPlaces
    BY <1>9 DEF Propagating, control, DecomposedShape
  <2>2. QED BY <2>1 DEF CallTyped, DecomposedPlaces
<1>10. QED
  BY <1>1, <1>2, <1>3, <1>4, <1>5, <1>6, <1>7, <1>8, <1>9 DEF DecomposedNext

\* Entries of cells that are assigned.
LEMMA EntriesTyped ==
  ASSUME StoreTypeOK, NEW xs \in Seq(Cells), \A i \in 1..Len(xs) : cells[xs[i]] # Unassigned
  PROVE  /\ Entries(xs) \in LogType /\ Len(Entries(xs)) = Len(xs)
         /\ \A i \in 1..Len(xs) : Entries(xs)[i] = <<xs[i], cells[xs[i]]>>
<1>1. PICK n \in Nat : n = Len(xs) /\ DOMAIN xs = 1..n
  OBVIOUS
<1>2. \A i \in 1..n : xs[i] \in Cells /\ cells[xs[i]] \in {0, 1}
  BY <1>1 DEF StoreTypeOK, CellState, Unassigned
<1>3. Entries(xs) = [i \in 1..n |-> <<xs[i], cells[xs[i]]>>]
  BY <1>1 DEF Entries
<1>4. \A i \in 1..n : <<xs[i], cells[xs[i]]>> \in Cells \X {0, 1}
  BY <1>2
<1>5. QED BY ONLY <1>1, <1>3, <1>4 DEF LogType

\* The wave as a sequence of cells.
LEMMA WaveShape ==
  ASSUME forced \in Seq(Cells), Top.cell \in Cells
  PROVE  /\ Wave = <<Top.cell>> \o forced /\ Wave \in Seq(Cells)
         /\ Len(Wave) = Len(forced) + 1 /\ Wave[1] = Top.cell
         /\ \A i \in 1..Len(forced) : Wave[i + 1] = forced[i]
<1>1. PICK n \in Nat : n = Len(forced) /\ DOMAIN forced = 1..n
  OBVIOUS
<1>2. [i \in DOMAIN forced |-> <<forced[i][1], forced[i][2]>>] = forced
  <2>1. \A i \in 1..n : <<forced[i][1], forced[i][2]>> = forced[i]
    BY <1>1, CellParts
  <2>2. forced = [i \in 1..n |-> forced[i]]
    BY <1>1
  <2>3. [i \in DOMAIN forced |-> <<forced[i][1], forced[i][2]>>] = [i \in 1..n |-> forced[i]]
    BY <1>1, <2>1
  <2>4. QED BY ONLY <2>2, <2>3
<1>3. Wave = <<Top.cell>> \o forced
  BY <1>2 DEF Wave
<1>4. PICK x \in Cells : x = Top.cell
  OBVIOUS
<1>5. /\ <<x>> \o forced \in Seq(Cells) /\ Len(<<x>> \o forced) = n + 1 /\ (<<x>> \o forced)[1] = x
      /\ \A i \in 1..n : (<<x>> \o forced)[i + 1] = forced[i]
  BY <1>1
<1>6. QED BY ONLY <1>1, <1>3, <1>4, <1>5

\* A beginning of the wave's entries is counted for the parts of rows.
LEMMA VerifiedShape ==
  ASSUME StoreTypeOK, NEW xs \in Seq(Cells)
  PROVE  \E n \in 0..Len(xs) : Verified(xs).entries = SubSeq(Entries(xs), 1, n)
<1> DEFINE bad == {i \in DOMAIN xs : Loaded("blocks") /\ ~b44dVerifyBlock(xs[i], SubSeq(Entries(xs), 1, i))}
<1>1. PICK n \in Nat : n = Len(xs) /\ DOMAIN xs = 1..n
  OBVIOUS
<1>2. Verified(xs).entries = IF bad = {} THEN Entries(xs) ELSE SubSeq(Entries(xs), 1, Min(bad))
  BY DEF Verified
<1>3. CASE bad = {}
  <2>1. Entries(xs) = [i \in 1..n |-> <<xs[i], cells[xs[i]]>>]
    BY <1>1 DEF Entries
  <2>2. SubSeq(Entries(xs), 1, n) = Entries(xs)
    BY <2>1
  <2>3. n \in 0..n
    OBVIOUS
  <2>4. QED BY ONLY <1>1, <1>2, <1>3, <2>2, <2>3
<1>4. CASE bad # {}
  <2>1. PICK m \in bad : \A y \in bad : m <= y
    <3>1. bad \subseteq Nat
      BY <1>1
    <3> HIDE DEF bad
    <3>2. QED BY <1>4, <3>1, Least
  <2>2. Min(bad) \in bad
    <3> HIDE DEF bad
    <3> QED BY <2>1 DEF Min
  <2>3. Min(bad) \in 0..n
    BY <1>1, <2>2
  <2> HIDE DEF bad
  <2>4. QED BY ONLY <1>1, <1>2, <1>4, <2>3
<1>5. QED BY <1>3, <1>4

LEMMA LogPrefix ==
  ASSUME NEW log \in LogType, NEW n \in 0..Len(log)
  PROVE  /\ SubSeq(log, 1, n) \in LogType /\ Len(SubSeq(log, 1, n)) = n
         /\ \A i \in 1..n : SubSeq(log, 1, n)[i] = log[i] /\ i \in 1..Len(log)
<1>1. PICK m \in Nat : m = Len(log) /\ \A i \in 1..m : log[i] \in Cells \X {0, 1}
  BY DEF LogType
<1>2. \A i \in 1..n : i \in 1..m
  BY <1>1
<1>3. QED BY <1>1, <1>2 DEF LogType

LEMMA LogConcat ==
  ASSUME NEW a \in LogType, NEW b \in LogType
  PROVE  /\ a \o b \in LogType /\ Len(a \o b) = Len(a) + Len(b)
         /\ \A i \in 1..Len(a) : (a \o b)[i] = a[i]
         /\ \A i \in 1..Len(b) : (a \o b)[Len(a) + i] = b[i]
         /\ \A i \in 1..Len(a \o b) : i \in 1..Len(a) \/ \E j \in 1..Len(b) : i = Len(a) + j
<1> DEFINE T == Cells \X {0, 1}
<1>1. a \in Seq(T) /\ b \in Seq(T)
  BY DEF LogType
<1> HIDE DEF T
<1>2. PICK n, m \in Nat : n = Len(a) /\ m = Len(b)
  BY <1>1
<1>3. a \o b \in Seq(T) /\ Len(a \o b) = n + m
  BY <1>1, <1>2
<1>4. \A i \in 1..n : (a \o b)[i] = a[i]
  BY <1>1, <1>2
<1>5. \A i \in 1..m : (a \o b)[n + i] = b[i]
  BY <1>1, <1>2
<1>6. ASSUME NEW i \in 1..(n + m) PROVE i \in 1..n \/ \E j \in 1..m : i = n + j
  <2>1. i > n => i - n \in 1..m /\ i = n + (i - n)
    OBVIOUS
  <2>2. QED BY <2>1
<1>7. a \o b \in LogType
  BY <1>3 DEF LogType, T
<1>8. QED BY ONLY <1>2, <1>3, <1>4, <1>5, <1>6, <1>7

\* What counting does to the locals.
LEMMA CountingTyped ==
  ASSUME locals \in DecomposedLocals, NEW kind \in Kinds, NEW entries \in LogType
  PROVE  /\ Counting(locals, kind, entries) \in DecomposedLocals
         /\ Counting(locals, kind, entries).marks = locals.marks
         /\ \A k \in Kinds : Counting(locals, kind, entries).counted[k]
              = IF k = kind /\ Loaded(kind) THEN locals.counted[k] \o entries ELSE locals.counted[k]
<1>1. locals.counted \in [Kinds -> LogType]
  BY DEF DecomposedLocals
<1>2. locals.counted[kind] \o entries \in LogType
  BY <1>1, LogConcat
<1>3. CASE Loaded(kind)
  <2>1. Counting(locals, kind, entries) = [locals EXCEPT !.counted[kind] = @ \o entries]
    BY <1>3, Zenon DEF Counting
  <2> DEFINE counted == [locals.counted EXCEPT ![kind] = locals.counted[kind] \o entries]
  <2>2. counted \in [Kinds -> LogType]
    BY ONLY <1>1, <1>2
  <2>3. Counting(locals, kind, entries) = [locals EXCEPT !.counted = counted]
    BY <2>1
  <2>4. \A k \in Kinds : counted[k] = IF k = kind THEN locals.counted[k] \o entries ELSE locals.counted[k]
    BY <1>1
  <2> HIDE DEF counted
  <2>5. Counting(locals, kind, entries) \in DecomposedLocals
    BY <2>2, <2>3 DEF DecomposedLocals
  <2>6. Counting(locals, kind, entries).marks = locals.marks /\ Counting(locals, kind, entries).counted = counted
    BY <2>3 DEF DecomposedLocals
  <2>7. QED BY ONLY <1>3, <2>4, <2>5, <2>6
<1>4. CASE ~Loaded(kind)
  BY <1>4 DEF Counting
<1>5. QED BY <1>3, <1>4

LEMMA MarkedTyped ==
  ASSUME NEW l \in DecomposedLocals
  PROVE  /\ Marked(l) \in DecomposedLocals /\ Marked(l).counted = l.counted
         /\ Marked(l).marks = Append(l.marks, [kind \in Kinds |-> Len(l.counted[kind])])
<1>1. [kind \in Kinds |-> Len(l.counted[kind])] \in [Kinds -> Nat]
  BY DEF DecomposedLocals, LogType
<1>2. PICK mark \in [Kinds -> Nat] : mark = [kind \in Kinds |-> Len(l.counted[kind])]
  BY <1>1
<1>3. Append(l.marks, mark) \in Seq([Kinds -> Nat])
  BY DEF DecomposedLocals
<1>4. Marked(l) = [l EXCEPT !.marks = Append(l.marks, mark)]
  BY ONLY <1>2 DEF Marked
<1>5. QED BY ONLY <1>2, <1>3, <1>4, l \in DecomposedLocals DEF DecomposedLocals

LEMMA UnwoundTyped ==
  ASSUME NEW l \in DecomposedLocals, l.marks # <<>>,
         \A kind \in Kinds : l.marks[Len(l.marks)][kind] <= Len(l.counted[kind])
  PROVE  /\ Unwound(l) \in DecomposedLocals
         /\ Unwound(l).marks = SubSeq(l.marks, 1, Len(l.marks) - 1)
         /\ \A kind \in Kinds :
              Unwound(l).counted[kind] = SubSeq(l.counted[kind], 1, l.marks[Len(l.marks)][kind])
<1>1. l.marks \in Seq([Kinds -> Nat]) /\ l.counted \in [Kinds -> LogType]
  BY DEF DecomposedLocals
<1>2. PICK m \in [Kinds -> Nat] : m = l.marks[Len(l.marks)]
  BY ONLY <1>1, l.marks # <<>>
<1>3. \A kind \in Kinds : m[kind] \in 0..Len(l.counted[kind])
  BY <1>1, <1>2 DEF LogType
<1>4. \A kind \in Kinds : SubSeq(l.counted[kind], 1, m[kind]) \in LogType
  BY ONLY <1>1, <1>3, LogPrefix
<1>5. PICK counted \in [Kinds -> LogType] : counted = [kind \in Kinds |-> SubSeq(l.counted[kind], 1, m[kind])]
  BY <1>4
<1>6. SubSeq(l.marks, 1, Len(l.marks) - 1) \in Seq([Kinds -> Nat])
  BY ONLY <1>1, l.marks # <<>>, ButLast
<1>7. Unwound(l) = [l EXCEPT !.counted = counted, !.marks = SubSeq(l.marks, 1, Len(l.marks) - 1)]
  BY ONLY <1>2, <1>5 DEF Unwound, Last, Front
<1>8. /\ Unwound(l) \in DecomposedLocals /\ Unwound(l).counted = counted
      /\ Unwound(l).marks = SubSeq(l.marks, 1, Len(l.marks) - 1)
  BY ONLY <1>6, <1>7, counted \in [Kinds -> LogType], l \in DecomposedLocals DEF DecomposedLocals
<1>9. QED BY ONLY <1>2, <1>5, <1>8

\* What is counted at loading.
LEMMA LoadTyped ==
  ASSUME StoreTypeOK
  PROVE  \E xs \in Seq({x \in Cells : cells[x] # Unassigned}) :
           /\ NoRepeats(xs)
           /\ CountedAtLoad \in [Kinds -> LogType]
           /\ \A kind \in Kinds : CountedAtLoad[kind] = IF Loaded(kind) THEN Entries(xs) ELSE <<>>
<1> DEFINE S == {x \in Cells : cells[x] # Unassigned}
<1>1. PICK xs \in Seq(S) : xs = InRowOrder(S) /\ NoRepeats(xs)
  <2>1. S \in SUBSET Cells
    OBVIOUS
  <2> HIDE DEF S
  <2>2. QED BY ONLY <2>1, InRowOrderRight
<1>2. xs \in Seq(Cells) /\ \A i \in 1..Len(xs) : cells[xs[i]] # Unassigned
  <2>1. S \subseteq Cells /\ \A x \in S : cells[x] # Unassigned
    OBVIOUS
  <2> HIDE DEF S
  <2>2. \A i \in 1..Len(xs) : xs[i] \in S
    OBVIOUS
  <2>3. QED BY ONLY <2>1, <2>2, xs \in Seq(S)
<1>3. Entries(xs) \in LogType /\ <<>> \in LogType
  <2>1. <<>> \in LogType
    BY DEF LogType
  <2>2. QED BY ONLY <1>2, <2>1, StoreTypeOK, EntriesTyped
<1>4. CountedAtLoad = [kind \in Kinds |-> IF Loaded(kind) THEN Entries(xs) ELSE <<>>]
  BY <1>1 DEF CountedAtLoad
<1>5. QED BY ONLY <1>1, <1>3, <1>4

-------------------------------------------------------------------------------
(* What the search can take back.                                          *)

\* The cells the last propagation forced, while they wait to be recorded; and with
\* the undo stack, all the search can take back.
Pending == IF pc \in Waiting THEN forced ELSE <<>>
Trail   == undoStack \o Pending

\* What the search can take back is assigned, and named once.
Recorded == HeldOnce(cells, Trail)

\* A frame's cell stands on the undo stack right above its token, and the frames'
\* tokens go up.
InPlay(f, s) == f.token + 1 <= Len(s) /\ s[f.token + 1] = f.cell

Nested(fs, n, s) ==
  /\ \A i \in 1..n : InPlay(fs[i], s)
  /\ \A i, j \in 1..n : j < i => fs[j].token < fs[i].token

\* The top frame's cell has not been tried yet; or what it did is being undone.
FreshTop == solver = "decomposed" /\ pc = "loop" /\ Top.nextValue = 0
Backing  == pc \in {"loop", "unprobe", "deepReturn"}

TopBacking ==
  /\ \A j \in 1..(Len(frames) - 1) : frames[j].token < Top.token
  /\ Top.token <= Len(undoStack)
  /\ Undone => cells[Top.cell] = Unassigned
  /\ ~Undone => InPlay(Top, undoStack)

FramesHold == pc # "probingEnded" /\ frames # <<>> =>
  /\ Nested(frames, Len(frames) - 1, undoStack)
  /\ ~Backing => Nested(frames, Len(frames), undoStack)
  /\ FreshTop => cells[Top.cell] = Unassigned
  /\ Backing /\ ~FreshTop => TopBacking

\* What every frame of the two searches has.
FramesPlain ==
  /\ Len(frames) \in Nat /\ (frames # <<>> => Len(frames) \in 1..Len(frames))
  /\ \A i \in 1..Len(frames) : frames[i].token \in Nat /\ frames[i].cell \in Cells

(* What a step does to the store and to what the search can take back.     *)
Grow ==
  \E x \in Cells, v \in {0, 1} :
    cells[x] = Unassigned /\ Assign(x, v) /\ Trail' = Append(Trail, x)

Shrink ==
  /\ Trail # <<>>
  /\ Unassign(Trail[Len(Trail)])
  /\ Trail' = SubSeq(Trail, 1, Len(Trail) - 1)

Keep ==
  /\ UNCHANGED store
  /\ Trail' \in Seq(Cells) /\ Len(Trail') <= Len(Trail)
  /\ \A p \in 1..Len(Trail') : Trail'[p] = Trail[p]

LEMMA TrailShape ==
  ASSUME undoStack \in Seq(Cells), forced \in Seq(Cells)
  PROVE  /\ Trail \in Seq(Cells) /\ Pending \in Seq(Cells)
         /\ Len(Trail) = Len(undoStack) + Len(Pending)
         /\ \A p \in 1..Len(undoStack) : Trail[p] = undoStack[p]
         /\ \A p \in 1..Len(Pending) : Trail[Len(undoStack) + p] = Pending[p]
         /\ Pending = <<>> => Trail = undoStack
<1>1. Pending \in Seq(Cells)
  BY DEF Pending
<1>2. PICK a, b \in Seq(Cells) : a = undoStack /\ b = Pending
  BY <1>1
<1>3. /\ a \o b \in Seq(Cells) /\ Len(a \o b) = Len(a) + Len(b)
      /\ \A p \in 1..Len(a) : (a \o b)[p] = a[p]
      /\ \A p \in 1..Len(b) : (a \o b)[Len(a) + p] = b[p]
      /\ b = <<>> => a \o b = a
  OBVIOUS
<1>4. QED BY ONLY <1>2, <1>3 DEF Trail

\* What follows for the undo stack and the forced cells.
LEMMA RecordedParts ==
  ASSUME undoStack \in Seq(Cells), forced \in Seq(Cells), Recorded
  PROVE  /\ HeldOnce(cells, undoStack)
         /\ pc \in Waiting => /\ HeldOnce(cells, forced)
                              /\ \A p \in 1..Len(undoStack), q \in 1..Len(forced) : undoStack[p] # forced[q]
<1>1. PICK n, m \in Nat : n = Len(undoStack) /\ m = Len(Pending)
  BY TrailShape
<1>2. /\ Len(Trail) = n + m
      /\ \A p \in 1..n : Trail[p] = undoStack[p] /\ p \in 1..(n + m)
      /\ \A p \in 1..m : Trail[n + p] = Pending[p] /\ n + p \in 1..(n + m)
  BY <1>1, TrailShape
<1>3. /\ \A p \in 1..(n + m) : cells[Trail[p]] # Unassigned
      /\ \A p, q \in 1..(n + m) : p # q => Trail[p] # Trail[q]
  BY <1>2 DEF Recorded, HeldOnce
<1>4. HeldOnce(cells, undoStack)
  BY ONLY <1>1, <1>2, <1>3 DEF HeldOnce
<1>5. ASSUME pc \in Waiting
      PROVE  /\ HeldOnce(cells, forced)
             /\ \A p \in 1..Len(undoStack), q \in 1..Len(forced) : undoStack[p] # forced[q]
  <2>1. Pending = forced /\ m = Len(forced)
    BY <1>1, <1>5 DEF Pending
  <2>2. \A p, q \in 1..m : p # q => n + p # n + q
    BY <1>1
  <2>3. HeldOnce(cells, forced)
    BY ONLY <1>2, <1>3, <2>1, <2>2 DEF HeldOnce
  <2>4. \A p \in 1..n, q \in 1..m : p # n + q
    BY <1>1
  <2>5. QED BY ONLY <1>1, <1>2, <1>3, <2>1, <2>3, <2>4
<1>6. QED BY <1>4, <1>5

\* How each of the code's operations moves the trail: assigning and recording a cell,
LEMMA RecordGrows ==
  ASSUME undoStack \in Seq(Cells), pc \notin Waiting, pc' \notin Waiting,
         NEW x \in Cells, NEW v \in {0, 1}, cells[x] = Unassigned, AssignAndRecord(x, v)
  PROVE  Grow /\ undoStack' = Append(undoStack, x)
<1>1. \A s \in Seq(Cells) : s \o <<>> = s
  OBVIOUS
<1>2. undoStack' = Append(undoStack, x) /\ Assign(x, v)
  BY DEF AssignAndRecord
<1>3. Append(undoStack, x) \in Seq(Cells)
  OBVIOUS
<1>4. Trail = undoStack /\ Trail' = Append(undoStack, x)
  BY <1>1, <1>2, <1>3 DEF Trail, Pending
<1>5. QED BY <1>2, <1>4 DEF Grow

\* recording the forced cells,
LEMMA NoteKeeps ==
  ASSUME undoStack \in Seq(Cells), forced \in Seq(Cells), pc \in Waiting, pc' \notin Waiting,
         RecordForced, UNCHANGED store
  PROVE  Keep /\ Trail' = Trail
<1>1. \A s \in Seq(Cells) : s \o <<>> = s
  OBVIOUS
<1>2. undoStack' = undoStack \o forced
  BY DEF RecordForced
<1>3. undoStack \o forced \in Seq(Cells)
  OBVIOUS
<1>4. Trail = undoStack \o forced /\ Trail' = undoStack \o forced
  BY <1>1, <1>2, <1>3 DEF Trail, Pending
<1>5. QED BY <1>3, <1>4 DEF Keep

\* leaving the store alone,
LEMMA StillKeeps ==
  ASSUME undoStack \in Seq(Cells), forced \in Seq(Cells),
         UNCHANGED <<store, undoStack>>,
         \/ pc' \notin Waiting
         \/ forced' = <<>>
         \/ pc \in Waiting /\ forced' = forced
  PROVE  Keep
<1>0. UNCHANGED store /\ undoStack' = undoStack
  OBVIOUS
<1>1. \A s \in Seq(Cells) : s \o <<>> = s
  OBVIOUS
<1>2. CASE Pending' = <<>>
  <2>1. Trail' = undoStack
    BY <1>0, <1>1, <1>2 DEF Trail
  <2>2. PICK n, m \in Nat : n = Len(undoStack) /\ m = Len(Pending)
    BY TrailShape
  <2>3. Len(Trail) = n + m /\ \A p \in 1..n : Trail[p] = undoStack[p]
    BY <2>2, TrailShape
  <2>4. n <= n + m
    BY <2>2
  <2>5. QED BY ONLY <1>0, <2>1, <2>2, <2>3, <2>4, undoStack \in Seq(Cells) DEF Keep
<1>3. CASE pc \in Waiting /\ pc' \in Waiting /\ forced' = forced
  <2>1. Trail' = Trail /\ Trail \in Seq(Cells)
    BY <1>0, <1>3, TrailShape DEF Trail, Pending
  <2>2. QED BY <1>0, <2>1 DEF Keep
<1>4. QED BY <1>2, <1>3 DEF Pending

\* undoing one cell,
LEMMA UndoShrinks ==
  ASSUME undoStack \in Seq(Cells), pc \notin Waiting, pc' = pc, undoStack # <<>>, UndoLast
  PROVE  Shrink /\ undoStack' = SubSeq(undoStack, 1, Len(undoStack) - 1)
<1>1. \A s \in Seq(Cells) : s \o <<>> = s
  OBVIOUS
<1>2. undoStack' = SubSeq(undoStack, 1, Len(undoStack) - 1) /\ Unassign(undoStack[Len(undoStack)])
  BY DEF UndoLast
<1>3. SubSeq(undoStack, 1, Len(undoStack) - 1) \in Seq(Cells)
  BY ButLast
<1>4. Trail = undoStack /\ Trail' = undoStack'
  BY <1>1, <1>2, <1>3 DEF Trail, Pending
<1>5. QED BY <1>2, <1>4 DEF Shrink

\* and propagating.
LEMMA PropagatingMoves ==
  ASSUME Basics, Propagating, pc \in Waiting
  PROVE  Grow \/ Keep
<1>0. undoStack \in Seq(Cells) /\ forced \in Seq(Cells) /\ UNCHANGED <<undoStack, pc>> /\ EngineTypeOK
  BY DEF Basics, BranchingTypeOK, EngineTypeOK, Propagating, brancher, control
<1>1. CASE PopViolated \/ PopLine \/ Quiesce
  <2>1. UNCHANGED store /\ UNCHANGED undoStack /\ forced' = forced
    BY <1>0, <1>1 DEF PopViolated, PopLine, Quiesce
  <2>2. QED BY <1>0, <2>1, StillKeeps
<1>2. CASE ForceCell
  <2>1. PICK x \in Cells, v \in {0, 1} : /\ cells[x] = Unassigned /\ Assign(x, v)
                                         /\ forced' = Append(forced, x)
    BY ONLY <1>0, <1>2, ForcedCell
  <2>2. \A a, b \in Seq(Cells) : a \o Append(b, x) = Append(a \o b, x)
    OBVIOUS
  <2>3. Trail = undoStack \o forced /\ Trail' = undoStack \o Append(forced, x)
    BY <1>0, <2>1 DEF Trail, Pending
  <2>4. Trail' = Append(Trail, x)
    BY ONLY <1>0, <2>2, <2>3
  <2>5. QED BY <2>1, <2>4 DEF Grow
<1>3. QED BY <1>1, <1>2 DEF Propagating, EngineStep

\* The searches follow the store's discipline, so the counters stay exact.
LEMMA StoreStep ==
  ASSUME Basics, StatsExact, Recorded, Grow \/ Shrink \/ Keep
  PROVE  (StoreTypeOK /\ StatsExact /\ Recorded)'
<1>0. Trail \in Seq(Cells) /\ StoreTypeOK /\ HeldOnce(cells, Trail)
  BY TrailShape DEF Basics, BranchingTypeOK, EngineTypeOK, Recorded
<1>1. CASE Grow
  <2>1. PICK x \in Cells, v \in {0, 1} : cells[x] = Unassigned /\ Assign(x, v) /\ Trail' = Append(Trail, x)
    BY <1>1 DEF Grow
  <2>2. (StoreTypeOK /\ StatsExact)' /\ HeldOnce(cells', Append(Trail, x))
    BY ONLY <1>0, <2>1, StatsExact, HeldAppend
  <2>3. QED BY <2>1, <2>2 DEF Recorded
<1>2. CASE Shrink
  <2>1. (StoreTypeOK /\ StatsExact)' /\ HeldOnce(cells', SubSeq(Trail, 1, Len(Trail) - 1))
    BY ONLY <1>0, <1>2, StatsExact, HeldButLast DEF Shrink
  <2>2. QED BY <1>2, <2>1 DEF Recorded, Shrink
<1>3. CASE Keep
  <2>1. (StoreTypeOK /\ StatsExact)'
    BY <1>0, <1>3 DEF Keep, store, StoreTypeOK, StatsExact, UnknownOn, OnesOn
  <2>2. HeldOnce(cells, Trail')
    BY ONLY <1>0, <1>3, HeldPrefix DEF Keep
  <2>3. QED BY <1>3, <2>1, <2>2 DEF Recorded, Keep, store
<1>4. QED BY <1>1, <1>2, <1>3

-------------------------------------------------------------------------------
(* The frames.                                                             *)

Tokens(fs, n) == \A i \in 1..n : fs[i].token \in Nat

\* The undo stack grows: the frames stand where they stood.
LEMMA NestedLonger ==
  ASSUME NEW fs, NEW n \in Nat, Tokens(fs, n), NEW s \in Seq(Cells), NEW t \in Seq(Cells),
         Nested(fs, n, s), Len(s) <= Len(t), \A p \in 1..Len(s) : t[p] = s[p]
  PROVE  Nested(fs, n, t)
<1>1. ASSUME NEW i \in 1..n PROVE InPlay(fs[i], t)
  <2>1. InPlay(fs[i], s) /\ fs[i].token \in Nat
    BY DEF Nested, Tokens
  <2>2. fs[i].token + 1 \in 1..Len(s)
    BY <2>1 DEF InPlay
  <2>3. QED BY <2>1, <2>2 DEF InPlay
<1>2. QED BY <1>1 DEF Nested

\* It loses its last cell: so do the frames that stand below it.
LEMMA NestedShorter ==
  ASSUME NEW fs, NEW n \in Nat, Tokens(fs, n), NEW s \in Seq(Cells), Nested(fs, n, s), s # <<>>,
         \A i \in 1..n : fs[i].token + 1 < Len(s)
  PROVE  Nested(fs, n, SubSeq(s, 1, Len(s) - 1))
<1>1. /\ Len(SubSeq(s, 1, Len(s) - 1)) = Len(s) - 1
      /\ \A p \in 1..(Len(s) - 1) : SubSeq(s, 1, Len(s) - 1)[p] = s[p]
  BY ButLast
<1>2. ASSUME NEW i \in 1..n PROVE InPlay(fs[i], SubSeq(s, 1, Len(s) - 1))
  <2>1. InPlay(fs[i], s) /\ fs[i].token \in Nat
    BY DEF Nested, Tokens
  <2>2. fs[i].token + 1 \in 1..(Len(s) - 1) /\ fs[i].token + 1 <= Len(s) - 1
    BY <2>1
  <2>3. QED BY ONLY <1>1, <2>1, <2>2 DEF InPlay
<1>3. QED BY <1>2 DEF Nested

\* A frame is put on top with its cell.
LEMMA NestedPush ==
  ASSUME NEW fs, NEW n \in Nat, Tokens(fs, n), NEW s \in Seq(Cells), Nested(fs, n, s), NEW x \in Cells,
         NEW gs, \A i \in 1..n : gs[i] = fs[i], gs[n + 1].token = Len(s), gs[n + 1].cell = x
  PROVE  Nested(gs, n + 1, Append(s, x))
<1>1. /\ Append(s, x) \in Seq(Cells) /\ Len(Append(s, x)) = Len(s) + 1 /\ Append(s, x)[Len(s) + 1] = x
      /\ \A p \in 1..Len(s) : Append(s, x)[p] = s[p]
      /\ Len(s) \in Nat /\ Len(s) <= Len(s) + 1
  OBVIOUS
<1>2. Nested(fs, n, Append(s, x))
  <2>1. Len(s) <= Len(Append(s, x))
    BY <1>1
  <2>2. QED BY ONLY <1>1, <2>1, NestedLonger, Nested(fs, n, s), Tokens(fs, n), s \in Seq(Cells), n \in Nat
<1>3. \A i \in 1..(n + 1) : i \in 1..n \/ i = n + 1
  OBVIOUS
<1>4. InPlay(gs[n + 1], Append(s, x))
  BY <1>1 DEF InPlay
<1>5. \A i \in 1..n : InPlay(gs[i], Append(s, x)) /\ gs[i].token < Len(s)
  <2>1. ASSUME NEW i \in 1..n PROVE gs[i].token < Len(s)
    <3>1. gs[i].token \in Nat /\ gs[i].token + 1 <= Len(s)
      BY DEF Nested, InPlay, Tokens
    <3>2. QED BY <1>1, <3>1
  <2>2. QED BY <1>2, <2>1 DEF Nested
<1>6. ASSUME NEW i \in 1..(n + 1), NEW j \in 1..(n + 1), j < i PROVE gs[j].token < gs[i].token
  <2>1. CASE i = n + 1
    BY <1>3, <1>5, <1>6, <2>1
  <2>2. CASE i \in 1..n
    <3>1. j \in 1..n
      BY <1>6, <2>2
    <3>2. QED BY <1>6, <2>2, <3>1 DEF Nested
  <2>3. QED BY <1>3, <2>1, <2>2
<1>7. QED BY ONLY <1>3, <1>4, <1>5, <1>6 DEF Nested

\* Frames below others stay nested.
LEMMA NestedFewer ==
  ASSUME NEW fs, NEW n \in Nat, NEW s, Nested(fs, n, s), NEW m \in 0..n,
         NEW gs, \A i \in 1..m : gs[i] = fs[i]
  PROVE  Nested(gs, m, s)
<1>1. \A i \in 1..m : i \in 1..n
  OBVIOUS
<1>2. QED BY <1>1 DEF Nested

(* The frames' moves.                                                      *)

\* A step forward: the undo stack grows at most, and the search goes on, or turns
\* back to what the top frame did.
LEMMA FramesForward ==
  ASSUME FramesPlain, FramesHold, undoStack \in Seq(Cells), frames # <<>>, ~Backing, pc # "probingEnded",
         frames' = frames, undoStack' \in Seq(Cells), Len(undoStack) <= Len(undoStack'),
         \A p \in 1..Len(undoStack) : undoStack'[p] = undoStack[p],
         ~FreshTop'
  PROVE  FramesHold'
<1> DEFINE n == Len(frames)
<1>1. n \in Nat /\ n - 1 \in Nat /\ n \in 1..n /\ Tokens(frames, n) /\ Tokens(frames, n - 1) /\ n - 1 \in 0..n
  BY DEF FramesPlain, Tokens
<1>2. Nested(frames, n, undoStack)
  BY DEF FramesHold
<1>3. Nested(frames, n, undoStack')
  BY ONLY <1>1, <1>2, NestedLonger, undoStack \in Seq(Cells), undoStack' \in Seq(Cells),
          Len(undoStack) <= Len(undoStack'), \A p \in 1..Len(undoStack) : undoStack'[p] = undoStack[p]
<1>4. Nested(frames, n - 1, undoStack')
  BY ONLY <1>1, <1>3, NestedFewer
<1>5. Top' = Top /\ Len(frames') = n
  BY DEF Top
<1>6. TopBacking'
  <2>1. \A j \in 1..(n - 1) : frames[j].token < Top.token
    <3>1. \A j \in 1..(n - 1) : j \in 1..n /\ j < n
      BY <1>1
    <3>2. QED BY <1>1, <1>2, <3>1 DEF Nested, Top
  <2>2. InPlay(Top, undoStack') /\ Top.token \in Nat /\ Len(undoStack') \in Nat
    BY <1>1, <1>3 DEF Nested, Top, Tokens
  <2>3. Top.token <= Len(undoStack') /\ ~(Len(undoStack') <= Top.token)
    BY ONLY <2>2 DEF InPlay
  <2>4. ~Undone'
    BY <1>5, <2>3 DEF Undone
  <2>5. QED BY <1>5, <2>1, <2>2, <2>3, <2>4 DEF TopBacking
<1>7. QED BY <1>3, <1>4, <1>5, <1>6 DEF FramesHold

\* The top frame takes a value: its cell is free, assigned and stands right above
\* the frame's token, which is where the undo stack ended.
LEMMA FramesTake ==
  ASSUME FramesPlain, FramesHold, undoStack \in Seq(Cells), frames # <<>>, pc # "probingEnded", Backing,
         Len(frames') = Len(frames), \A i \in 1..(Len(frames) - 1) : frames'[i] = frames[i],
         Top'.cell = Top.cell, Top'.token = Len(undoStack),
         undoStack' = Append(undoStack, Top.cell), pc' \notin {"loop", "unprobe", "deepReturn"}
  PROVE  FramesHold'
<1>1. PICK m \in Nat : Len(frames) = m + 1 /\ m = Len(frames) - 1
  <2>1. Len(frames) - 1 \in Nat /\ Len(frames) = (Len(frames) - 1) + 1
    BY DEF FramesPlain
  <2>2. QED BY <2>1
<1>2. Tokens(frames, m) /\ Top.cell \in Cells
  BY <1>1 DEF FramesPlain, Tokens, Top
<1>3. Nested(frames, m, undoStack)
  BY <1>1 DEF FramesHold
<1>4. frames'[m + 1].token = Len(undoStack) /\ frames'[m + 1].cell = Top.cell /\ \A i \in 1..m : frames'[i] = frames[i]
  BY <1>1 DEF Top
<1>5. Nested(frames', m + 1, undoStack')
  <2>1. Nested(frames', m + 1, Append(undoStack, Top.cell))
    BY ONLY <1>1, <1>2, <1>3, <1>4, undoStack \in Seq(Cells), NestedPush
  <2>2. QED BY <2>1
<1>6. Nested(frames', m, undoStack') /\ Len(frames') = m + 1 /\ (m + 1) - 1 = m
  <2>1. m \in 0..(m + 1) /\ m + 1 \in Nat /\ (m + 1) - 1 = m
    BY <1>1
  <2>2. QED BY <1>1, <1>5, <2>1, NestedFewer
<1>7. QED BY <1>5, <1>6 DEF FramesHold, Backing, FreshTop

\* A new frame whose cell is assigned at once.
LEMMA FramesPush ==
  ASSUME FramesPlain, undoStack \in Seq(Cells), Nested(frames, Len(frames), undoStack),
         NEW x \in Cells, Len(frames') = Len(frames) + 1,
         \A i \in 1..Len(frames) : frames'[i] = frames[i],
         Top'.cell = x, Top'.token = Len(undoStack),
         undoStack' = Append(undoStack, x), pc' \notin {"loop", "unprobe", "deepReturn"}
  PROVE  FramesHold'
<1>1. PICK n \in Nat : Len(frames) = n /\ Tokens(frames, n)
  BY DEF FramesPlain, Tokens
<1>2. frames'[n + 1].token = Len(undoStack) /\ frames'[n + 1].cell = x
  BY <1>1 DEF Top
<1>3. Nested(frames', n + 1, undoStack')
  <2>1. Nested(frames', n + 1, Append(undoStack, x))
    BY ONLY <1>1, <1>2, Nested(frames, Len(frames), undoStack), undoStack \in Seq(Cells), NestedPush,
            \A i \in 1..Len(frames) : frames'[i] = frames[i], x \in Cells
  <2>2. QED BY <2>1
<1>4. Nested(frames', n, undoStack') /\ Len(frames') = n + 1 /\ (n + 1) - 1 = n
  <2>1. n \in 0..(n + 1) /\ n + 1 \in Nat /\ (n + 1) - 1 = n
    BY <1>1
  <2>2. QED BY <1>1, <1>3, <2>1, NestedFewer
<1>5. QED BY <1>3, <1>4 DEF FramesHold, Backing, FreshTop

\* A new frame, not tried yet.
LEMMA FramesOpen ==
  ASSUME FramesPlain, undoStack \in Seq(Cells), Nested(frames, Len(frames), undoStack),
         Len(frames') = Len(frames) + 1, \A i \in 1..Len(frames) : frames'[i] = frames[i],
         cells'[Top'.cell] = Unassigned, FreshTop',
         undoStack' \in Seq(Cells), Len(undoStack) <= Len(undoStack'),
         \A p \in 1..Len(undoStack) : undoStack'[p] = undoStack[p]
  PROVE  FramesHold'
<1>1. PICK n \in Nat : Len(frames) = n /\ Tokens(frames, n)
  BY DEF FramesPlain, Tokens
<1>2. Nested(frames, n, undoStack')
  BY ONLY <1>1, NestedLonger, undoStack \in Seq(Cells), undoStack' \in Seq(Cells), Nested(frames, Len(frames), undoStack),
          Len(undoStack) <= Len(undoStack'), \A p \in 1..Len(undoStack) : undoStack'[p] = undoStack[p]
<1>3. Nested(frames', n, undoStack')
  <2>1. n \in 0..n
    BY <1>1
  <2>2. QED BY ONLY <1>1, <1>2, <2>1, NestedFewer, \A i \in 1..Len(frames) : frames'[i] = frames[i]
<1>4. Len(frames') - 1 = n
  BY <1>1
<1>5. Backing'
  BY DEF FreshTop, Backing
<1>6. QED BY <1>3, <1>4, <1>5 DEF FramesHold

\* The top frame's last cell is taken back.
LEMMA FramesUndo ==
  ASSUME FramesPlain, FramesHold, undoStack \in Seq(Cells), undoStack # <<>>, frames # <<>>,
         HeldOnce(cells, undoStack),
         Backing, ~FreshTop, ~Undone, frames' = frames, pc' = pc, solver' = solver,
         undoStack' = SubSeq(undoStack, 1, Len(undoStack) - 1),
         cells'[undoStack[Len(undoStack)]] = Unassigned
  PROVE  FramesHold'
<1>1. PICK m \in Nat : Len(frames) = m + 1 /\ m = Len(frames) - 1
  <2>1. Len(frames) - 1 \in Nat /\ Len(frames) = (Len(frames) - 1) + 1
    BY DEF FramesPlain
  <2>2. QED BY <2>1
<1>2. CASE pc = "probingEnded"
  BY <1>2 DEF Backing
<1>3. CASE pc # "probingEnded"
  <2>1. Nested(frames, m, undoStack) /\ TopBacking
    BY <1>1, <1>3 DEF FramesHold
  <2>2. PICK k \in Nat : k + 1 = Len(undoStack)
    <3>1. Len(undoStack) - 1 \in Nat /\ (Len(undoStack) - 1) + 1 = Len(undoStack)
      OBVIOUS
    <3>2. QED BY <3>1
  <2>3. PICK t \in Nat : t = Top.token /\ t <= k /\ undoStack[t + 1] = Top.cell
    <3>1. Top.token \in Nat
      BY <1>1 DEF FramesPlain, Top
    <3>2. ~(k + 1 <= Top.token) /\ InPlay(Top, undoStack)
      BY <2>1, <2>2 DEF TopBacking, Undone
    <3>3. QED BY <2>2, <3>1, <3>2 DEF InPlay
  <2>4. /\ Len(undoStack') = k
        /\ \A p \in 1..k : undoStack'[p] = undoStack[p]
    <3>1. Len(undoStack) - 1 = k
      BY <2>2
    <3>2. QED BY <3>1, ButLast
  <2>5. \A i \in 1..m : frames[i].token \in Nat /\ frames[i].token < t
    BY <1>1, <2>1, <2>3 DEF FramesPlain, TopBacking
  <2>6. Nested(frames, m, undoStack')
    <3>1. Tokens(frames, m)
      BY <2>5 DEF Tokens
    <3>2. \A i \in 1..m : frames[i].token + 1 < Len(undoStack)
      BY <2>2, <2>3, <2>5
    <3>3. Nested(frames, m, SubSeq(undoStack, 1, Len(undoStack) - 1))
      BY ONLY <2>1, <3>1, <3>2, m \in Nat, undoStack \in Seq(Cells), undoStack # <<>>, NestedShorter
    <3>4. QED BY <3>3
  <2>7. Top' = Top
    BY DEF Top
  <2>8. Undone' => t = k
    <3>1. Undone' => k <= t
      BY <2>3, <2>4, <2>7 DEF Undone
    <3>2. QED BY <2>2, <2>3, <3>1
  <2>9. Undone' => cells'[Top.cell] = Unassigned
    BY <2>2, <2>3, <2>8
  <2>10. ~Undone' => InPlay(Top, undoStack')
    <3>1. ASSUME ~Undone' PROVE t + 1 <= k
      <4>1. ~(k <= t)
        BY <2>3, <2>4, <2>7, <3>1 DEF Undone
      <4>2. QED BY <2>2, <2>3, <4>1
    <3>2. ASSUME ~Undone' PROVE InPlay(Top, undoStack')
      <4>1. t + 1 \in 1..k
        BY <2>2, <2>3, <3>1, <3>2
      <4>2. QED BY <2>3, <2>4, <3>1, <3>2, <4>1 DEF InPlay
    <3>3. QED BY <3>2
  <2>11. TopBacking'
    <3>1. \A j \in 1..(Len(frames) - 1) : frames[j].token < Top.token
      BY <2>1 DEF TopBacking
    <3>2. QED BY <2>3, <2>4, <2>7, <2>9, <2>10, <3>1 DEF TopBacking
  <2>12. Backing' /\ Len(frames') - 1 = m
    BY <1>1 DEF Backing
  <2>13. ~FreshTop'
    BY <2>7 DEF FreshTop
  <2>14. QED BY <2>6, <2>11, <2>12, <2>13 DEF FramesHold
<1>4. QED BY <1>2, <1>3

\* The top frame leaves; the one below it has done what is on the undo stack above
\* its token.
LEMMA FramesPop ==
  ASSUME FramesPlain, FramesHold, undoStack \in Seq(Cells), undoStack' = undoStack, frames # <<>>,
         pc # "probingEnded",
         Len(frames') = Len(frames) - 1, \A i \in 1..(Len(frames) - 1) : frames'[i] = frames[i],
         frames' # <<>> => Len(frames') \in 1..Len(frames'),
         ~FreshTop'
  PROVE  FramesHold'
<1>1. PICK m \in Nat : Len(frames) = m + 1 /\ m = Len(frames) - 1
  <2>1. Len(frames) - 1 \in Nat /\ Len(frames) = (Len(frames) - 1) + 1
    BY DEF FramesPlain
  <2>2. QED BY <2>1
<1>2. Nested(frames, m, undoStack) /\ Len(frames') = m /\ \A i \in 1..m : frames'[i] = frames[i]
  BY <1>1 DEF FramesHold
<1>3. ASSUME frames' # <<>> PROVE m \in 1..m /\ m - 1 \in 0..m /\ m \in 0..m
  BY <1>1, <1>2, <1>3
<1>4. ASSUME frames' # <<>> PROVE Nested(frames', m, undoStack) /\ Nested(frames', m - 1, undoStack) /\ TopBacking'
  <2>1. Nested(frames', m, undoStack)
    BY ONLY <1>1, <1>2, <1>3, <1>4, NestedFewer
  <2>2. Nested(frames', m - 1, undoStack)
    <3>1. m - 1 \in 0..m /\ \A i \in 1..(m - 1) : i \in 1..m
      BY <1>1, <1>3, <1>4
    <3>2. QED BY ONLY <1>1, <1>2, <3>1, NestedFewer
  <2>3. Top' = frames'[m] /\ m \in 1..m /\ frames'[m] = frames[m] /\ frames[m].token \in Nat
    <3>1. m \in 1..Len(frames)
      BY <1>1, <1>3, <1>4
    <3>2. QED BY <1>2, <1>3, <1>4, <3>1 DEF Top, FramesPlain
  <2>4. \A j \in 1..(m - 1) : frames'[j].token < Top'.token
    <3>1. \A j \in 1..(m - 1) : j \in 1..m /\ j < m
      BY <1>1
    <3>2. QED BY <2>1, <2>3, <3>1 DEF Nested
  <2>5. InPlay(Top', undoStack)
    BY <2>1, <2>3 DEF Nested
  <2>6. Top'.token <= Len(undoStack) /\ ~(Len(undoStack) <= Top'.token)
    BY <2>3, <2>5 DEF InPlay
  <2>7. ~Undone'
    BY <2>6 DEF Undone
  <2>8. QED BY <1>2, <2>1, <2>2, <2>4, <2>5, <2>6, <2>7 DEF TopBacking
<1>5. QED BY <1>2, <1>4 DEF FramesHold

LEMMA FramesGone == ASSUME frames' = <<>> \/ pc' = "probingEnded" PROVE FramesHold'
BY DEF FramesHold

\* Nothing that matters changes.
LEMMA FramesSame ==
  ASSUME FramesHold, pc # "probingEnded", Len(frames') = Len(frames), frames # <<>>,
         \A i \in 1..Len(frames) : frames'[i].token = frames[i].token /\ frames'[i].cell = frames[i].cell,
         FramesPlain,
         cells' = cells, undoStack' = undoStack, Backing, Backing', ~FreshTop, ~FreshTop'
  PROVE  FramesHold'
<1>1. PICK m \in Nat : Len(frames) = m + 1 /\ m = Len(frames) - 1 /\ m + 1 \in 1..(m + 1)
  <2>1. Len(frames) - 1 \in Nat /\ Len(frames) = (Len(frames) - 1) + 1
    BY DEF FramesPlain
  <2>2. QED BY <2>1
<1>2. \A i \in 1..m : i \in 1..(m + 1)
  BY <1>1
<1>3. Nested(frames', m, undoStack)
  BY <1>1, <1>2 DEF FramesHold, Nested, InPlay
<1>4. Top'.cell = Top.cell /\ Top'.token = Top.token
  BY <1>1 DEF Top
<1>5. TopBacking
  BY DEF FramesHold
<1>6. TopBacking'
  BY <1>1, <1>2, <1>4, <1>5 DEF TopBacking, Undone, InPlay
<1>7. QED BY <1>1, <1>3, <1>6 DEF FramesHold

\* Only the top frame may be waiting for its first value.
ValuesTried ==
  /\ \A i \in 1..(Len(frames) - 1) : frames[i].nextValue > 0
  /\ pc # "loop" /\ frames # <<>> => Top.nextValue > 0

Longer ==
  /\ undoStack' \in Seq(Cells) /\ Len(undoStack) <= Len(undoStack')
  /\ \A p \in 1..Len(undoStack) : undoStack'[p] = undoStack[p]

\* The undo stack only grows while a value is tried.
LEMMA GrownLonger ==
  ASSUME undoStack \in Seq(Cells), forced \in Seq(Cells),
         \/ undoStack' = undoStack
         \/ RecordForced
         \/ \E x \in Cells : undoStack' = Append(undoStack, x)
  PROVE  Longer
<1>1. PICK s \in Seq(Cells) : s = undoStack
  OBVIOUS
<1>2. CASE undoStack' = undoStack
  BY <1>2 DEF Longer
<1>3. CASE RecordForced
  <2>1. s \o forced \in Seq(Cells) /\ Len(s) <= Len(s \o forced) /\ \A p \in 1..Len(s) : (s \o forced)[p] = s[p]
    OBVIOUS
  <2>2. QED BY ONLY <1>1, <1>3, <2>1 DEF RecordForced, Longer
<1>4. CASE \E x \in Cells : undoStack' = Append(undoStack, x)
  <2>1. PICK x \in Cells : undoStack' = Append(s, x)
    BY <1>1, <1>4
  <2>2. /\ Append(s, x) \in Seq(Cells) /\ Len(s) <= Len(Append(s, x))
        /\ \A p \in 1..Len(s) : Append(s, x)[p] = s[p]
    OBVIOUS
  <2>3. QED BY ONLY <1>1, <2>1, <2>2 DEF Longer
<1>5. QED BY <1>2, <1>3, <1>4

\* The block that is solved stays the same.
LEMMA DecomposedInput == DecomposedNext => UNCHANGED input
<1> SUFFICES ASSUME DecomposedNext PROVE UNCHANGED input
  OBVIOUS
<1>1. CASE \/ Start \/ InitialInfeasible \/ InitialSolved \/ InitialBranch
           \/ Undo \/ Pop \/ ProbeZero \/ ProbeOne \/ ProbePropagate \/ ProbeContradiction \/ ProbeJudge
  BY <1>1 DEF Start, InitialInfeasible, InitialSolved, InitialBranch, Undo, Pop, ProbeZero, ProbeOne, Probe,
     ProbePropagate, ProbeContradiction, ProbeJudge
<1>2. CASE \/ BothInfeasible \/ TryPreferred \/ TryForced \/ TryAlternate \/ TryPropagate
           \/ Contradiction \/ Propagated \/ Cascade \/ CascadeKnown \/ CascadeCell \/ CascadePropagate \/ Cascaded
  BY <1>2 DEF BothInfeasible, TryPreferred, TryForced, TryAlternate, TryPropagate, Contradiction, Propagated,
     Cascade, CascadeKnown, CascadeCell, CascadePropagate, Cascaded
<1>3. CASE \/ ParityDone \/ CascadeDone \/ SkipRow \/ CompletionInfeasible \/ CompleteRow
           \/ FillKnown \/ FillCell \/ FillPropagate \/ Filled \/ FillDone
  BY <1>3 DEF ParityDone, CascadeDone, SkipRow, CompletionInfeasible, CompleteRow, FillKnown, FillCell,
     FillPropagate, Filled, FillDone
<1>4. CASE \/ VerifyBlocks \/ HashMismatch \/ SelectFromHeap \/ SelectNext \/ Yield \/ Exhausted \/ Propagating
  BY <1>4 DEF VerifyBlocks, HashMismatch, SelectFromHeap, SelectNext, Yield, Exhausted, Propagating
<1>5. QED BY <1>1, <1>2, <1>3, <1>4 DEF DecomposedNext

\* Where a frame's next value is taken, its cell is free, and the undo stack ends
\* at its token.
LEMMA Undoable ==
  ASSUME FramesPlain, FramesHold, undoStack \in Seq(Cells), frames # <<>>, Backing, ~FreshTop, Undone,
         pc # "probingEnded"
  PROVE  cells[Top.cell] = Unassigned /\ Top.token = Len(undoStack) /\ Top.cell \in Cells
<1>1. Top.token \in Nat /\ Top.cell \in Cells /\ Len(undoStack) \in Nat
  BY DEF FramesPlain, Top
<1>2. Top.token <= Len(undoStack) /\ cells[Top.cell] = Unassigned /\ Len(undoStack) <= Top.token
  BY DEF FramesHold, TopBacking, Undone
<1>3. QED BY <1>1, <1>2

LEMMA PlainFrames ==
  ASSUME NEW T, frames \in Seq(T), \A f \in T : f.token \in Nat /\ f.cell \in Cells
  PROVE  FramesPlain
BY DEF FramesPlain

LEMMA DecomposedPlain == ASSUME DecomposedShape PROVE FramesPlain
<1>1. frames \in Seq(FrameType)
  BY DEF DecomposedShape
<1>2. \A f \in FrameType : f.token \in Nat /\ f.cell \in Cells
  BY DEF FrameType
<1>3. QED BY ONLY <1>1, <1>2, PlainFrames

\* Every step of the search grows, shrinks or keeps the trail.
LEMMA DecomposedMoves ==
  ASSUME Basics, solver = "decomposed", DecomposedShape, CallTyped, FramesHold, ValuesTried, DecomposedNext
  PROVE  Grow \/ Shrink \/ Keep
<1> USE DEF Waiting
<1>0. /\ undoStack \in Seq(Cells) /\ forced \in Seq(Cells) /\ FramesPlain
      /\ frames \in Seq(FrameType)
  BY DecomposedPlain DEF Basics, BranchingTypeOK, EngineTypeOK, DecomposedShape
<1>1. CASE Start
  <2>1. forced' = <<>> /\ UNCHANGED <<store, undoStack>>
    BY <1>1 DEF Start, Propagate, brancher
  <2>2. QED BY ONLY <1>0, <2>1, StillKeeps
<1>2. CASE \/ InitialInfeasible \/ Pop \/ ProbeContradiction \/ BothInfeasible \/ Contradiction
           \/ Cascade \/ CascadeKnown \/ ParityDone \/ CascadeDone
  <2>1. pc' \notin Waiting /\ UNCHANGED <<store, undoStack>>
    BY <1>2 DEF InitialInfeasible, Pop, ProbeContradiction, BothInfeasible, Contradiction,
       Cascade, CascadeKnown, ParityDone, CascadeDone, brancher
  <2>2. QED BY ONLY <1>0, <2>1, StillKeeps
<1>3. CASE \/ SkipRow \/ CompletionInfeasible \/ CompleteRow \/ FillKnown \/ FillDone
           \/ VerifyBlocks \/ HashMismatch \/ SelectFromHeap \/ SelectNext \/ Yield \/ Exhausted
  <2>1. pc' \notin Waiting /\ UNCHANGED <<store, undoStack>>
    BY <1>3 DEF SkipRow, CompletionInfeasible, CompleteRow, FillKnown, FillDone,
       VerifyBlocks, HashMismatch, SelectFromHeap, SelectNext, Yield, Exhausted, brancher
  <2>2. QED BY ONLY <1>0, <2>1, StillKeeps
<1>4. CASE InitialSolved \/ InitialBranch \/ ProbeJudge \/ Propagated \/ Cascaded \/ Filled
  <2>1. pc \in Waiting /\ pc' \notin Waiting /\ RecordForced /\ UNCHANGED store
    BY <1>4 DEF InitialSolved, InitialBranch, ProbeJudge, Propagated, Cascaded, Filled
  <2>2. QED BY ONLY <1>0, <2>1, NoteKeeps
<1>5. CASE ProbePropagate \/ TryPropagate \/ CascadePropagate \/ FillPropagate
  <2>1. forced' = <<>> /\ UNCHANGED <<store, undoStack>>
    BY <1>5 DEF ProbePropagate, TryPropagate, CascadePropagate, FillPropagate, TryPropagateCell, Propagate, brancher
  <2>2. QED BY ONLY <1>0, <2>1, StillKeeps
<1>6. CASE Undo
  <2>1. /\ pc \notin Waiting /\ pc' = pc /\ UndoLast /\ frames # <<>>
        /\ ~Undone
    BY <1>6 DEF Undo, control
  <2>2. Top.token \in Nat
    <3>1. Top \in FrameType
      BY <1>0, <2>1, TopTyped
    <3>2. QED BY ONLY <3>1 DEF FrameType
  <2>3. undoStack # <<>>
    BY <1>0, <2>1, <2>2 DEF Undone
  <2>4. QED BY ONLY <1>0, <2>1, <2>3, UndoShrinks
<1>7. CASE ProbeZero
  <2>1. FreshTop /\ frames # <<>> /\ AssignAndRecord(Top.cell, 0) /\ pc = "loop" /\ pc' = "probe"
    BY <1>7 DEF ProbeZero, Probe, FreshTop
  <2>2. cells[Top.cell] = Unassigned /\ Top.cell \in Cells
    BY <1>0, <2>1 DEF FramesHold, FramesPlain, Top
  <2>3. pc \notin Waiting /\ pc' \notin Waiting
    BY <2>1
  <2>4. QED BY ONLY <1>0, <2>1, <2>2, <2>3, RecordGrows
<1>8. CASE ProbeOne \/ TryPreferred \/ TryForced \/ TryAlternate
  <2>1. frames # <<>> /\ Backing /\ ~FreshTop /\ Undone /\ pc \notin Waiting /\ pc' \notin Waiting /\ pc # "probingEnded"
    BY <1>8 DEF ProbeOne, Probe, TryPreferred, TryForced, TryAlternate, Backing, FreshTop, DecomposedShape
  <2>2. cells[Top.cell] = Unassigned /\ Top.cell \in Cells
    BY ONLY <1>0, <2>1, FramesHold, Undoable
  <2>3. PICK v \in {0, 1} : AssignAndRecord(Top.cell, v)
    <3>1. Top.preferred \in {0, 1}
      <4>1. Top \in FrameType
        BY <1>0, <2>1, TopTyped
      <4>2. QED BY ONLY <4>1 DEF FrameType
    <3>2. 1 - Top.preferred \in {0, 1}
      BY <3>1
    <3>3. QED BY <1>8, <3>1, <3>2 DEF ProbeOne, Probe, TryPreferred, TryForced, TryAlternate
  <2>4. QED BY ONLY <1>0, <2>1, <2>2, <2>3, RecordGrows
<1>9. CASE CascadeCell \/ FillCell
  <2>1. call.todo \in Seq(Due) /\ call.todo # <<>>
    BY <1>9 DEF CascadeCell, FillCell, CallTyped, SidecarAt, SidecarCall, CompleteAt, FillAt, CompleteCall
  <2>2. PICK x \in Cells, v \in {0, 1} : x = Head(call.todo).cell /\ v = Head(call.todo).value
    BY ONLY <2>1, DueTail
  <2>3. cells[x] = Unassigned /\ AssignAndRecord(x, v) /\ pc \notin Waiting /\ pc' \notin Waiting
    BY <1>9, <2>2 DEF CascadeCell, FillCell
  <2>4. QED BY ONLY <1>0, <2>3, RecordGrows
<1>10. CASE Propagating
  <2>1. pc \in Waiting
    BY <1>10 DEF Propagating, EngineStep, PopViolated, PopLine, ForceCell, Quiesce, DecomposedShape
  <2>2. QED BY ONLY <1>10, <2>1, Basics, PropagatingMoves
<1>11. QED
  BY <1>1, <1>2, <1>3, <1>4, <1>5, <1>6, <1>7, <1>8, <1>9, <1>10 DEF DecomposedNext

\* The top frame takes its next value.
LEMMA RetoppedValue ==
  ASSUME NEW fs \in Seq(FrameType), fs # <<>>, NEW v \in 0..2, NEW gs, gs = [fs EXCEPT ![Len(fs)].nextValue = v]
  PROVE  /\ gs \in Seq(FrameType)
         /\ Len(gs) = Len(fs) /\ \A i \in 1..(Len(fs) - 1) : gs[i] = fs[i]
         /\ gs[Len(fs)].cell = fs[Len(fs)].cell /\ gs[Len(fs)].token = fs[Len(fs)].token
         /\ gs[Len(fs)].nextValue = v
<1>1. PICK n \in Nat : n = Len(fs) /\ n \in 1..n /\ fs[n] \in FrameType /\ DOMAIN fs = 1..n
  OBVIOUS
<1>2. PICK f \in FrameType : f = fs[n]
  BY <1>1
<1>3. /\ [f EXCEPT !.nextValue = v].cell = f.cell /\ [f EXCEPT !.nextValue = v].token = f.token
      /\ [f EXCEPT !.nextValue = v].nextValue = v /\ [f EXCEPT !.nextValue = v] \in FrameType
  BY DEF FrameType
<1>4. PICK g \in FrameType : g = [f EXCEPT !.nextValue = v]
  BY <1>3
<1>5. \A i \in 1..(n - 1) : i \in 1..n /\ i # n
  BY <1>1
<1>6. gs = [fs EXCEPT ![n] = g]
  BY <1>1, <1>2, <1>4
<1>7. /\ [fs EXCEPT ![n] = g] \in Seq(FrameType) /\ Len([fs EXCEPT ![n] = g]) = n /\ [fs EXCEPT ![n] = g][n] = g
      /\ \A i \in 1..(n - 1) : [fs EXCEPT ![n] = g][i] = fs[i]
  BY <1>1, <1>5
<1>8. QED BY ONLY <1>1, <1>2, <1>3, <1>4, <1>6, <1>7

LEMMA RetoppedBoth ==
  ASSUME NEW fs \in Seq(FrameType), fs # <<>>, NEW v \in 0..2, NEW k \in Nat,
         NEW gs, gs = [fs EXCEPT ![Len(fs)].nextValue = v, ![Len(fs)].token = k]
  PROVE  /\ Len(gs) = Len(fs) /\ \A i \in 1..(Len(fs) - 1) : gs[i] = fs[i]
         /\ gs[Len(fs)].cell = fs[Len(fs)].cell /\ gs[Len(fs)].token = k /\ gs[Len(fs)].nextValue = v
<1>1. PICK n \in Nat : n = Len(fs) /\ n \in 1..n
  OBVIOUS
<1>2. PICK hs : hs = [fs EXCEPT ![Len(fs)].nextValue = v]
  OBVIOUS
<1>3. /\ hs \in Seq(FrameType) /\ Len(hs) = n /\ \A i \in 1..(n - 1) : hs[i] = fs[i]
      /\ hs[n].cell = fs[n].cell /\ hs[n].nextValue = v
  <2>1. PICK e \in FrameType : e = fs[n]
    BY <1>1
  <2>2. [e EXCEPT !.nextValue = v].cell = e.cell /\ [e EXCEPT !.nextValue = v].nextValue = v /\ [e EXCEPT !.nextValue = v] \in FrameType
    BY DEF FrameType
  <2>3. PICK g \in FrameType : g = [e EXCEPT !.nextValue = v]
    BY <2>2
  <2>4. \A i \in 1..(n - 1) : i \in 1..n /\ i # n
    BY <1>1
  <2>5. hs = [fs EXCEPT ![n] = g]
    BY <1>1, <1>2, <2>1, <2>3
  <2>6. /\ [fs EXCEPT ![n] = g] \in Seq(FrameType) /\ Len([fs EXCEPT ![n] = g]) = n /\ [fs EXCEPT ![n] = g][n] = g
        /\ \A i \in 1..(n - 1) : [fs EXCEPT ![n] = g][i] = fs[i]
    BY <1>1, <2>4
  <2>7. QED BY ONLY <1>1, <2>1, <2>2, <2>3, <2>5, <2>6
<1>4. gs = [hs EXCEPT ![n] = [hs[n] EXCEPT !.token = k]]
  BY ONLY <1>1, <1>2, gs = [fs EXCEPT ![Len(fs)].nextValue = v, ![Len(fs)].token = k]
<1>5. PICK f \in FrameType : f = hs[n]
  BY <1>1, <1>3
<1>6. /\ [f EXCEPT !.token = k].cell = f.cell /\ [f EXCEPT !.token = k].nextValue = f.nextValue
      /\ [f EXCEPT !.token = k].token = k /\ [f EXCEPT !.token = k] \in FrameType
  BY DEF FrameType
<1>7. PICK g \in FrameType : g = [f EXCEPT !.token = k]
  BY <1>6
<1>8. \A i \in 1..(n - 1) : i \in 1..n /\ i # n
  BY <1>1
<1>9. gs = [hs EXCEPT ![n] = g]
  BY ONLY <1>4, <1>5, <1>7
<1>10. /\ Len([hs EXCEPT ![n] = g]) = n /\ [hs EXCEPT ![n] = g][n] = g
       /\ \A i \in 1..(n - 1) : [hs EXCEPT ![n] = g][i] = hs[i]
  BY ONLY <1>1, <1>3, <1>8, g \in FrameType
<1>11. QED BY ONLY <1>1, <1>3, <1>5, <1>6, <1>7, <1>9, <1>10

\* A step that leaves the frames as they are, while the top one's value is tried.
LEMMA ForwardStep ==
  ASSUME undoStack \in Seq(Cells), DecomposedShape, FramesHold, ValuesTried, solver = "decomposed",
         frames # <<>>, ~Backing, frames' = frames, Longer
  PROVE  FramesHold' /\ ValuesTried'
<1>1. pc # "probingEnded" /\ FramesPlain
  BY DecomposedPlain DEF DecomposedShape, DecomposedPlaces
<1>2. Top' = Top /\ Top.nextValue > 0
  BY DEF Top, ValuesTried, Backing
<1>3. Top.nextValue \in Nat
  <2>1. Top \in FrameType
    BY TopTyped DEF DecomposedShape
  <2>2. QED BY ONLY <2>1 DEF FrameType
<1>4. ~FreshTop'
  <2>1. Top'.nextValue # 0
    BY ONLY <1>2, <1>3
  <2>2. QED BY <2>1 DEF FreshTop
<1>5. FramesHold'
  BY ONLY <1>1, <1>4, FramesHold, undoStack \in Seq(Cells), frames # <<>>, ~Backing, frames' = frames, Longer,
          FramesForward DEF Longer
<1>6. ValuesTried'
  BY <1>2 DEF ValuesTried
<1>7. QED BY <1>5, <1>6

\* A new frame, not tried yet, on top of frames that are.
LEMMA OpenStep ==
  ASSUME undoStack \in Seq(Cells), FramesPlain, Nested(frames, Len(frames), undoStack), solver' = "decomposed",
         \A i \in 1..Len(frames) : frames[i].nextValue > 0, frames \in Seq(FrameType),
         NEW g \in FrameType, frames' = Append(frames, g), g.nextValue = 0, cells'[g.cell] = Unassigned,
         pc' = "loop", Longer
  PROVE  FramesHold' /\ ValuesTried'
<1>1. PICK n \in Nat : n = Len(frames) /\ DOMAIN frames = 1..n
  BY DEF FramesPlain
<1>2. Len(frames') = n + 1 /\ frames'[n + 1] = g /\ \A i \in 1..n : frames'[i] = frames[i]
  BY <1>1
<1>3. Top' = g
  BY <1>2 DEF Top
<1>4. FreshTop' /\ cells'[Top'.cell] = Unassigned
  BY <1>3 DEF FreshTop
<1>5. FramesHold'
  BY ONLY <1>1, <1>2, <1>4, undoStack \in Seq(Cells), FramesPlain, Nested(frames, Len(frames), undoStack), Longer,
          FramesOpen DEF Longer
<1>6. ValuesTried'
  <2>1. \A i \in 1..n : frames'[i].nextValue > 0
    BY <1>1, <1>2
  <2>2. (n + 1) - 1 = n
    OBVIOUS
  <2>3. QED BY ONLY <1>2, <2>1, <2>2, pc' = "loop" DEF ValuesTried
<1>7. QED BY <1>5, <1>6

\* Every step keeps the open frames' cells in place.
LEMMA DecomposedFrames ==
  ASSUME Basics, solver = "decomposed", DecomposedShape, DecomposedShape', FramesHold, ValuesTried, Recorded,
         CallTyped, StatsExact, locals \in DecomposedLocals, locals' \in DecomposedLocals, DecomposedNext
  PROVE  FramesHold' /\ ValuesTried'
<1> USE DEF brancher, control
<1>0. /\ undoStack \in Seq(Cells) /\ forced \in Seq(Cells) /\ FramesPlain
      /\ frames \in Seq(FrameType) /\ frames' \in Seq(FrameType) /\ Len(undoStack) \in Nat
      /\ solver' = "decomposed" /\ pc # "probingEnded"
  BY DecomposedPlain, DecomposedInput DEF Basics, BranchingTypeOK, EngineTypeOK, DecomposedShape, DecomposedPlaces, input
<1>1. ASSUME frames' = <<>> PROVE FramesHold' /\ ValuesTried'
  BY <1>1 DEF FramesHold, ValuesTried
<1>2. CASE Start \/ InitialInfeasible \/ InitialSolved \/ Exhausted
  <2>1. frames' = <<>>
    BY <1>2 DEF Start, InitialInfeasible, InitialSolved, Exhausted, DecomposedShape
  <2>2. QED BY <1>1, <2>1
<1>3. CASE InitialBranch
  <2>1. PICK r \in Index : unknown[RowOf(r)] # 0
    BY <1>3 DEF InitialBranch, AllComplete, Complete
  <2>2. FirstOf(Open) \in Cells /\ cells[FirstOf(Open)] = Unassigned /\ frames = <<>>
    BY <1>3, <2>1, SomeOpen DEF DecomposedShape, Open, InitialBranch
  <2>3. PICK g \in FrameType : g = Frame(FirstOf(Open), FirstOf(Open), 0)
    BY <2>2, FrameTyped
  <2>4. g.nextValue = 0 /\ g.cell = FirstOf(Open) /\ frames' = <<g>>
    BY <1>3, <2>3 DEF Frame, InitialBranch
  <2>5. frames' = Append(frames, g)
    BY <2>2, <2>4
  <2>6. cells' = cells /\ pc' = "loop" /\ RecordForced
    BY <1>3 DEF InitialBranch, store
  <2>7. Longer
    BY ONLY <1>0, <2>6, GrownLonger
  <2>8. Nested(frames, Len(frames), undoStack) /\ \A i \in 1..Len(frames) : frames[i].nextValue > 0
    BY <2>2 DEF Nested
  <2>9. cells'[g.cell] = Unassigned
    BY <2>2, <2>4, <2>6
  <2>10. QED BY ONLY <1>0, <2>4, <2>5, <2>6, <2>7, <2>8, <2>9, OpenStep
<1>4. CASE SelectFromHeap \/ SelectNext
  <2>1. frames # <<>> /\ ~Backing /\ pc # "loop" /\ cells' = cells /\ undoStack' = undoStack /\ pc' = "loop"
    BY <1>4 DEF SelectFromHeap, SelectNext, RowsDone, DecomposedShape, Backing, store
  <2>2. Nested(frames, Len(frames), undoStack)
    BY <1>0, <2>1 DEF FramesHold
  <2>3. Longer
    BY ONLY <1>0, <2>1, GrownLonger
  <2>4. \A i \in 1..Len(frames) : frames[i].nextValue > 0
    <3>1. \A i \in 1..Len(frames) : i \in 1..(Len(frames) - 1) \/ i = Len(frames)
      BY <1>0
    <3>2. QED BY <2>1, <3>1 DEF ValuesTried, Top
  <2>5. locals'.belief \in {NoBelief} \cup Beliefs /\ Top.order \in Cells
    <3>1. Top \in FrameType
      BY <1>0, <2>1, TopTyped
    <3>2. Top.order \in Cells
      BY ONLY <3>1 DEF FrameType
    <3>3. QED BY <3>2 DEF DecomposedLocals
  <2>6. PICK g \in FrameType : frames' = Append(frames, g) /\ g.nextValue = 0 /\ cells[g.cell] = Unassigned
    <3>1. CASE SelectFromHeap
      <4>1. TurnHeap \in Seq(HeapEntry) /\ Fresh(TurnHeap) # 0
        BY <3>1, TurnHeapTyped DEF SelectFromHeap, Basics
      <4>2. PICK r \in Index : r = TurnHeap[Fresh(TurnHeap)][2]
        BY <4>1, FreshEntry
      <4>3. PICK x \in BestCells(r) : frames' = Append(frames, Frame(x, Top.order, PreferredOf(x, preferred(x))))
        BY <3>1, <4>2 DEF SelectFromHeap
      <4>4. x \in Cells /\ cells[x] = Unassigned
        BY BestTyped
      <4>5. preferred(x) \in {0, 1}
        BY DEF preferred
      <4>6. PreferredOf(x, preferred(x)) \in {0, 1}
        BY ONLY <2>5, <4>4, <4>5, BelievedTyped
      <4>7. Frame(x, Top.order, PreferredOf(x, preferred(x))) \in FrameType
        BY ONLY <2>5, <4>4, <4>6, FrameTyped
      <4>8. /\ Frame(x, Top.order, PreferredOf(x, preferred(x))).nextValue = 0
            /\ Frame(x, Top.order, PreferredOf(x, preferred(x))).cell = x
        BY DEF Frame
      <4>9. QED BY ONLY <4>3, <4>4, <4>7, <4>8
    <3>2. CASE SelectNext
      <4>1. PICK next : next = FirstOf(FreeAfter(Top.order)) /\ frames' = Append(frames, Frame(next, next, PreferredOf(next, 0)))
        BY <3>2 DEF SelectNext
      <4>2. next \in Cells /\ cells[next] = Unassigned
        <5>1. FreeAfter(Top.order) \in SUBSET Cells /\ FreeAfter(Top.order) # {}
          BY <3>2 DEF SelectNext, FreeAfter
        <5>2. IsFirst(next, FreeAfter(Top.order))
          BY ONLY <4>1, <5>1, FirstIsThere
        <5>3. QED BY <5>1, <5>2 DEF IsFirst, FreeAfter
      <4>3. PreferredOf(next, 0) \in {0, 1}
        BY ONLY <2>5, <4>2, BelievedTyped
      <4>4. Frame(next, next, PreferredOf(next, 0)) \in FrameType
        BY ONLY <4>2, <4>3, FrameTyped
      <4>5. Frame(next, next, PreferredOf(next, 0)).nextValue = 0 /\ Frame(next, next, PreferredOf(next, 0)).cell = next
        BY DEF Frame
      <4>6. QED BY ONLY <4>1, <4>2, <4>4, <4>5
    <3>3. QED BY <1>4, <3>1, <3>2
  <2>7. cells'[g.cell] = Unassigned
    BY <2>1, <2>6
  <2>8. QED BY ONLY <1>0, <2>1, <2>2, <2>3, <2>4, <2>6, <2>7, OpenStep
<1>5. CASE Undo
  <2>1. /\ frames # <<>> /\ Backing /\ ~Undone /\ UndoLast /\ frames' = frames /\ pc' = pc /\ solver' = solver
        /\ pc \in {"loop", "unprobe"} /\ (pc = "loop" => Top.nextValue > 0)
    BY <1>0, <1>5 DEF Undo, Backing
  <2>2. Top.token \in Nat /\ Top.nextValue \in Nat
    <3>1. Top \in FrameType
      BY <1>0, <2>1, TopTyped
    <3>2. QED BY ONLY <3>1 DEF FrameType
  <2>3. undoStack # <<>> /\ ~FreshTop
    BY <1>0, <2>1, <2>2 DEF Undone, FreshTop
  <2>4. HeldOnce(cells, undoStack)
    BY <1>0, RecordedParts
  <2>5. undoStack' = SubSeq(undoStack, 1, Len(undoStack) - 1) /\ cells'[undoStack[Len(undoStack)]] = Unassigned
    <3>1. undoStack[Len(undoStack)] \in Cells
      BY <1>0, <2>3
    <3>2. StoreTypeOK /\ Unassign(undoStack[Len(undoStack)])
      BY <2>1 DEF UndoLast, Basics
    <3>3. cells'[undoStack[Len(undoStack)]] = Unassigned
      BY ONLY <3>1, <3>2, UnassignEffect
    <3>4. QED BY <2>1, <3>3 DEF UndoLast
  <2>6. FramesHold'
    BY ONLY <1>0, <2>1, <2>3, <2>4, <2>5, FramesHold, FramesUndo
  <2>7. ValuesTried'
    BY <2>1 DEF ValuesTried, Top
  <2>8. QED BY <2>6, <2>7
<1>6. CASE Pop
  <2>1. frames # <<>> /\ frames' = SubSeq(frames, 1, Len(frames) - 1) /\ undoStack' = undoStack /\ pc = "loop" /\ pc' = "loop"
    BY <1>6 DEF Pop
  <2>2. Len(frames') = Len(frames) - 1 /\ \A i \in 1..(Len(frames) - 1) : frames'[i] = frames[i]
    <3>1. /\ Len(SubSeq(frames, 1, Len(frames) - 1)) = Len(frames) - 1
          /\ \A i \in 1..(Len(frames) - 1) : SubSeq(frames, 1, Len(frames) - 1)[i] = frames[i]
      BY ONLY <1>0, <2>1, ButLast
    <3>2. QED BY <2>1, <3>1
  <2>3. PICK m \in Nat : m = Len(frames') /\ (frames' # <<>> => m \in 1..m)
    BY <1>0
  <2>4. \A i \in 1..m : frames'[i].nextValue > 0 /\ frames'[i].nextValue # 0
    <3>1. \A i \in 1..m : frames'[i].nextValue > 0
      BY <2>2, <2>3 DEF ValuesTried
    <3>2. \A i \in 1..m : frames'[i].nextValue \in Nat
      <4>1. \A i \in 1..m : frames'[i] \in FrameType
        BY <1>0, <2>3
      <4>2. QED BY <4>1 DEF FrameType
    <3>3. QED BY ONLY <3>1, <3>2
  <2>5. frames' # <<>> => ~FreshTop'
    BY <2>3, <2>4 DEF FreshTop, Top
  <2>6. FramesHold'
    <3>1. CASE frames' = <<>>
      BY <1>1, <3>1
    <3>2. CASE frames' # <<>>
      BY ONLY <1>0, <2>1, <2>2, <2>3, <2>5, <3>2, FramesHold, FramesPop
    <3>3. QED BY <3>1, <3>2
  <2>7. ValuesTried'
    <3>1. \A i \in 1..(m - 1) : i \in 1..m
      BY <2>3
    <3>2. QED BY <2>1, <2>3, <2>4, <3>1 DEF ValuesTried
  <2>8. QED BY <2>6, <2>7
<1>7. CASE ProbeZero \/ TryForced \/ TryAlternate
  <2>1. frames # <<>> /\ Backing /\ pc' \in {"probe", "try"}
    BY <1>7 DEF ProbeZero, Probe, TryForced, TryAlternate, Backing, DecomposedShape
  <2>2. cells[Top.cell] = Unassigned /\ Top.cell \in Cells /\ (~ProbeZero => Top.token = Len(undoStack))
    <3>1. Top.cell \in Cells
      BY <1>0, <2>1 DEF FramesPlain, Top
    <3>2. CASE ProbeZero
      BY <1>0, <2>1, <3>1, <3>2 DEF ProbeZero, FramesHold, FreshTop
    <3>3. CASE TryForced \/ TryAlternate
      <4>1. ~FreshTop /\ Undone
        BY <3>3 DEF TryForced, TryAlternate, FreshTop
      <4>2. QED BY ONLY <1>0, <2>1, <4>1, FramesHold, Undoable
    <3>4. QED BY <1>7, <3>2, <3>3
  <2>3. undoStack' = Append(undoStack, Top.cell)
    BY <1>7 DEF ProbeZero, Probe, TryForced, TryAlternate, AssignAndRecord
  <2>4. /\ Len(frames') = Len(frames) /\ \A i \in 1..(Len(frames) - 1) : frames'[i] = frames[i]
        /\ Top'.cell = Top.cell /\ Top'.token = Len(undoStack) /\ Top'.nextValue > 0
    <3>1. PICK fs \in Seq(FrameType) : fs = frames /\ fs # <<>>
      BY <1>0, <2>1
    <3>2. PICK k \in Nat : k = Len(undoStack)
      BY <1>0
    <3>3. PICK v \in 0..2 : /\ v > 0
                            /\ \/ frames' = [fs EXCEPT ![Len(fs)].nextValue = v, ![Len(fs)].token = k]
                               \/ TryForced /\ frames' = [fs EXCEPT ![Len(fs)].nextValue = v]
      <4>1. 1 \in 0..2 /\ 2 \in 0..2 /\ 1 > 0 /\ 2 > 0
        OBVIOUS
      <4>2. \/ frames' = [fs EXCEPT ![Len(fs)].nextValue = 1, ![Len(fs)].token = k]
            \/ frames' = [fs EXCEPT ![Len(fs)].nextValue = 2, ![Len(fs)].token = k]
            \/ TryForced /\ frames' = [fs EXCEPT ![Len(fs)].nextValue = 2]
        BY <1>7, <3>1, <3>2 DEF ProbeZero, TryForced, TryAlternate
      <4>3. QED BY ONLY <4>1, <4>2
    <3>4. CASE frames' = [fs EXCEPT ![Len(fs)].nextValue = v, ![Len(fs)].token = k]
      <4>1. /\ Len(frames') = Len(fs) /\ \A i \in 1..(Len(fs) - 1) : frames'[i] = fs[i]
            /\ frames'[Len(fs)].cell = fs[Len(fs)].cell /\ frames'[Len(fs)].token = k /\ frames'[Len(fs)].nextValue = v
        BY ONLY <3>1, <3>4, RetoppedBoth, k \in Nat, v \in 0..2
      <4>2. QED BY <3>1, <3>2, <3>3, <4>1 DEF Top
    <3>5. CASE TryForced /\ frames' = [fs EXCEPT ![Len(fs)].nextValue = v]
      <4>1. /\ Len(frames') = Len(fs) /\ \A i \in 1..(Len(fs) - 1) : frames'[i] = fs[i]
            /\ frames'[Len(fs)].cell = fs[Len(fs)].cell /\ frames'[Len(fs)].token = fs[Len(fs)].token /\ frames'[Len(fs)].nextValue = v
        BY ONLY <3>1, <3>5, RetoppedValue, v \in 0..2
      <4>2. Top.token = Len(undoStack)
        <5>1. ~ProbeZero
          BY <3>5 DEF TryForced, ProbeZero
        <5>2. QED BY <2>2, <5>1
      <4>3. QED BY <3>1, <3>2, <3>3, <4>1, <4>2 DEF Top
    <3>6. QED BY <3>3, <3>4, <3>5
  <2>5. FramesHold'
    <3>1. pc' \notin {"loop", "unprobe", "deepReturn"}
      BY <2>1
    <3>2. QED BY ONLY <1>0, <2>1, <2>3, <2>4, <3>1, FramesHold, FramesTake
  <2>6. ValuesTried'
    BY <2>4 DEF ValuesTried
  <2>7. QED BY <2>5, <2>6
<1>8. CASE ProbeOne \/ TryPreferred
  <2>1. /\ frames # <<>> /\ Backing /\ ~FreshTop /\ Undone /\ pc # "loop" /\ pc' \in {"probe", "try"} /\ frames' = frames
        /\ undoStack' = Append(undoStack, Top.cell)
    BY <1>8 DEF ProbeOne, Probe, TryPreferred, Backing, FreshTop, DecomposedShape, AssignAndRecord
  <2>2. Top.token = Len(undoStack)
    BY ONLY <1>0, <2>1, FramesHold, Undoable
  <2>3. Top' = Top /\ Top.nextValue > 0
    BY <2>1 DEF Top, ValuesTried
  <2>4. FramesHold'
    <3>1. pc' \notin {"loop", "unprobe", "deepReturn"} /\ Top'.cell = Top.cell /\ Top'.token = Len(undoStack)
          /\ Len(frames') = Len(frames) /\ \A i \in 1..(Len(frames) - 1) : frames'[i] = frames[i]
      BY <2>1, <2>2, <2>3
    <3>2. QED BY ONLY <1>0, <2>1, <3>1, FramesHold, FramesTake
  <2>5. ValuesTried'
    BY <2>1, <2>3 DEF ValuesTried
  <2>6. QED BY <2>4, <2>5
<1>9. CASE BothInfeasible
  <2>1. /\ frames # <<>> /\ Backing /\ ~FreshTop /\ Backing' /\ cells' = cells /\ undoStack' = undoStack /\ pc' = "loop"
        /\ frames' = [frames EXCEPT ![Len(frames)].nextValue = 2]
    BY <1>9 DEF BothInfeasible, Backing, FreshTop, DecomposedShape, store
  <2>2. /\ Len(frames') = Len(frames) /\ \A i \in 1..(Len(frames) - 1) : frames'[i] = frames[i]
        /\ frames'[Len(frames)].cell = frames[Len(frames)].cell
        /\ frames'[Len(frames)].token = frames[Len(frames)].token /\ frames'[Len(frames)].nextValue = 2
    <3>1. 2 \in 0..2 /\ 0 \in Nat
      OBVIOUS
    <3>2. QED BY ONLY <1>0, <2>1, <3>1, RetoppedValue
  <2>3. ~FreshTop'
    BY <2>2 DEF FreshTop, Top
  <2>4. \A i \in 1..Len(frames) : frames'[i].token = frames[i].token /\ frames'[i].cell = frames[i].cell
    <3>1. \A i \in 1..Len(frames) : i \in 1..(Len(frames) - 1) \/ i = Len(frames)
      BY <1>0
    <3>2. QED BY ONLY <2>2, <3>1
  <2>5. FramesHold'
    BY ONLY <1>0, <2>1, <2>2, <2>3, <2>4, FramesHold, FramesSame
  <2>6. ValuesTried'
    BY <2>1, <2>2 DEF ValuesTried
  <2>7. QED BY <2>5, <2>6
<1>10. ASSUME frames # <<>>, ~Backing, frames' = frames,
              undoStack' = undoStack \/ RecordForced \/ \E x \in Cells : undoStack' = Append(undoStack, x)
       PROVE  FramesHold' /\ ValuesTried'
  <2>1. Longer
    BY ONLY <1>0, <1>10, GrownLonger
  <2>2. QED BY ONLY <1>0, <1>10, <2>1, DecomposedShape, FramesHold, ValuesTried, solver = "decomposed", ForwardStep
<1>11. CASE \/ ProbePropagate \/ ProbeContradiction \/ ProbeJudge \/ TryPropagate \/ Contradiction \/ Propagated
            \/ Cascade \/ CascadeKnown \/ CascadePropagate \/ Cascaded \/ ParityDone \/ CascadeDone
  <2>1. frames # <<>> /\ ~Backing
    BY <1>11 DEF ProbePropagate, ProbeContradiction, ProbeJudge, TryPropagate, Contradiction, Propagated,
       Cascade, CascadeKnown, CascadePropagate, Cascaded, ParityDone, CascadeDone, Backing, DecomposedShape
  <2>2. frames' = frames /\ (undoStack' = undoStack \/ RecordForced)
    BY <1>11 DEF ProbePropagate, ProbeContradiction, ProbeJudge, TryPropagate, Contradiction, Propagated,
       Cascade, CascadeKnown, CascadePropagate, Cascaded, ParityDone, CascadeDone
  <2>3. QED BY <1>10, <2>1, <2>2
<1>12. CASE \/ SkipRow \/ CompletionInfeasible \/ CompleteRow \/ FillKnown \/ FillPropagate \/ Filled \/ FillDone
            \/ VerifyBlocks \/ HashMismatch \/ Yield
  <2>1. frames # <<>> /\ ~Backing
    BY <1>12 DEF SkipRow, CompletionInfeasible, CompleteRow, FillKnown, FillPropagate, Filled, FillDone,
       VerifyBlocks, HashMismatch, Yield, RowsDone, Backing, DecomposedShape
  <2>2. frames' = frames /\ (undoStack' = undoStack \/ RecordForced)
    BY <1>12 DEF SkipRow, CompletionInfeasible, CompleteRow, FillKnown, FillPropagate, Filled, FillDone,
       VerifyBlocks, HashMismatch, Yield
  <2>3. QED BY <1>10, <2>1, <2>2
<1>13. CASE CascadeCell \/ FillCell
  <2>1. frames # <<>> /\ ~Backing /\ frames' = frames
    BY <1>13 DEF CascadeCell, FillCell, Backing, DecomposedShape
  <2>2. PICK x : x = Head(call.todo).cell /\ undoStack' = Append(undoStack, x)
    BY <1>13 DEF CascadeCell, FillCell, AssignAndRecord
  <2>3. x \in Cells
    <3>1. call.todo \in Seq(Due) /\ call.todo # <<>>
      BY <1>13 DEF CascadeCell, FillCell, CallTyped, SidecarAt, SidecarCall, CompleteAt, FillAt, CompleteCall
    <3>2. Head(call.todo).cell \in Cells
      BY ONLY <3>1, DueTail
    <3>3. QED BY <2>2, <3>2
  <2>4. QED BY <1>10, <2>1, <2>2, <2>3
<1>14. CASE Propagating
  <2>1. frames' = frames /\ undoStack' = undoStack /\ pc \in Waiting
    BY <1>14 DEF Propagating, EngineStep, PopViolated, PopLine, ForceCell, Quiesce, DecomposedShape
  <2>2. CASE frames = <<>>
    BY <1>1, <2>1, <2>2
  <2>3. CASE frames # <<>>
    BY <1>10, <2>1, <2>3 DEF Backing, Waiting
  <2>4. QED BY <2>2, <2>3
<1>15. QED
  BY <1>2, <1>3, <1>4, <1>5, <1>6, <1>7, <1>8, <1>9, <1>11, <1>12, <1>13, <1>14 DEF DecomposedNext

-------------------------------------------------------------------------------
(* The sidecars.                                                           *)

(* The sidecars' logs.                                                     *)

\* The first n entries say what the cells say; no cell is entered twice.
Sound(c, log, n) == \A k \in 1..n : c[log[k][1]] = log[k][2]
Distinct(log)    == \A j, k \in 1..Len(log) : j # k => log[j][1] # log[k][1]

\* No assigned cell changes.
Extends(c, d) == \A y \in Cells : c[y] # Unassigned => d[y] = c[y]

\* A frame's marks: what was entered before it is sound, and stays when the frame's
\* cells are taken back.
MarksHold(marks, logs, c, fs, s) ==
  \A i \in 1..Len(marks), kind \in Kinds :
    /\ marks[i][kind] <= Len(logs[kind])
    /\ \A j \in 1..i : marks[j][kind] <= marks[i][kind]
    /\ Sound(c, logs[kind], marks[i][kind])
    /\ \A k \in 1..marks[i][kind], p \in 1..Len(s) : fs[i].token < p => s[p] # logs[kind][k][1]

\* Entries of other cells that are right keep a log right.
LEMMA LogGrows ==
  ASSUME NEW log \in LogType, NEW more \in LogType, NEW c, NEW d, Extends(c, d),
         Distinct(log), Sound(c, log, Len(log)), Distinct(more), Sound(d, more, Len(more)),
         \A j \in 1..Len(log), k \in 1..Len(more) : log[j][1] # more[k][1]
  PROVE  Distinct(log \o more) /\ Sound(d, log \o more, Len(log \o more))
<1>1. PICK n, m \in Nat : n = Len(log) /\ m = Len(more)
  BY DEF LogType
<1>2. PICK both : both = log \o more
  OBVIOUS
<1>3. /\ Len(both) = n + m /\ \A i \in 1..n : both[i] = log[i]
      /\ \A j \in 1..m : both[n + j] = more[j]
      /\ \A i \in 1..(n + m) : i \in 1..n \/ \E j \in 1..m : i = n + j
      /\ \A i \in 1..(n + m), j \in 1..m : i = n + j => both[i] = more[j]
  <2>1. /\ Len(both) = n + m /\ \A i \in 1..n : both[i] = log[i]
    BY ONLY <1>1, <1>2, LogConcat, log \in LogType, more \in LogType
  <2>2. \A i \in 1..m : both[n + i] = more[i]
    BY ONLY <1>1, <1>2, LogConcat, log \in LogType, more \in LogType
  <2>3. \A i \in 1..(n + m) : i \in 1..n \/ \E j \in 1..m : i = n + j
    <3>1. Len(log \o more) = n + m
      BY <1>2, <2>1
    <3>2. \A i \in 1..Len(log \o more) : i \in 1..n \/ \E j \in 1..m : i = n + j
      BY ONLY <1>1, LogConcat, log \in LogType, more \in LogType
    <3>3. QED BY ONLY <3>1, <3>2
  <2>4. ASSUME NEW i \in 1..(n + m), NEW j \in 1..m, i = n + j PROVE both[i] = more[j]
    <3>1. both[n + j] = more[j]
      BY <2>2
    <3>2. QED BY <2>4, <3>1
  <2>5. QED BY <2>1, <2>2, <2>3, <2>4
<1>4. \A i \in 1..n : d[log[i][1]] = log[i][2]
  <2>1. \A i \in 1..n : log[i][1] \in Cells /\ log[i][2] \in {0, 1}
    BY <1>1 DEF LogType
  <2>2. \A i \in 1..n : c[log[i][1]] = log[i][2]
    BY <1>1 DEF Sound
  <2>3. QED BY <2>1, <2>2 DEF Extends, Unassigned
<1>5. Sound(d, both, n + m)
  <2>1. \A i \in 1..m : d[more[i][1]] = more[i][2]
    BY <1>1 DEF Sound
  <2>2. ASSUME NEW i \in 1..(n + m) PROVE d[both[i][1]] = both[i][2]
    <3>1. CASE i \in 1..n
      BY ONLY <1>3, <1>4, <3>1
    <3>2. CASE \E j \in 1..m : i = n + j
      <4>1. PICK j \in 1..m : i = n + j
        BY <3>2
      <4>2. both[i] = more[j]
        BY ONLY <1>3, <4>1, i \in 1..(n + m)
      <4>3. QED BY ONLY <2>1, <4>1, <4>2
    <3>3. QED BY <1>3, <3>1, <3>2
  <2>3. QED BY ONLY <2>2 DEF Sound
<1>6. Distinct(both)
  <2>1. /\ \A j, k \in 1..n : j # k => log[j][1] # log[k][1]
        /\ \A j, k \in 1..m : j # k => more[j][1] # more[k][1]
        /\ \A j \in 1..n, k \in 1..m : log[j][1] # more[k][1]
    BY <1>1 DEF Distinct
  <2>2. ASSUME NEW j \in 1..(n + m), NEW k \in 1..(n + m), j # k PROVE both[j][1] # both[k][1]
    <3>1. CASE j \in 1..n /\ k \in 1..n
      <4>1. both[j] = log[j] /\ both[k] = log[k]
        BY ONLY <1>3, <3>1
      <4>2. QED BY ONLY <2>1, <2>2, <3>1, <4>1
    <3>2. CASE j \in 1..n /\ \E q \in 1..m : k = n + q
      <4>1. PICK q \in 1..m : k = n + q
        BY <3>2
      <4>2. both[k] = more[q] /\ both[j] = log[j]
        BY ONLY <1>3, <3>2, <4>1
      <4>3. QED BY ONLY <2>1, <3>2, <4>1, <4>2
    <3>3. CASE (\E q \in 1..m : j = n + q) /\ k \in 1..n
      <4>1. PICK q \in 1..m : j = n + q
        BY <3>3
      <4>2. both[j] = more[q] /\ both[k] = log[k]
        BY ONLY <1>3, <3>3, <4>1
      <4>3. QED BY ONLY <2>1, <3>3, <4>1, <4>2
    <3>4. CASE (\E q \in 1..m : j = n + q) /\ (\E q \in 1..m : k = n + q)
      <4>1. PICK p, q \in 1..m : j = n + p /\ k = n + q
        BY <3>4
      <4>2. p # q
        BY <2>2, <4>1
      <4>3. both[j] = more[p] /\ both[k] = more[q]
        BY ONLY <1>3, <4>1, j \in 1..(n + m), k \in 1..(n + m)
      <4>4. QED BY ONLY <2>1, <4>1, <4>2, <4>3
    <3>5. QED BY ONLY <1>3, <3>1, <3>2, <3>3, <3>4, j \in 1..(n + m), k \in 1..(n + m)
  <2>3. QED BY ONLY <1>3, <2>2 DEF Distinct
<1>7. QED BY <1>2, <1>3, <1>5, <1>6

\* A beginning of a log.
LEMMA LogCut ==
  ASSUME NEW log \in LogType, NEW n \in 0..Len(log), NEW c
  PROVE  /\ Distinct(log) => Distinct(SubSeq(log, 1, n))
         /\ Sound(c, log, n) => Sound(c, SubSeq(log, 1, n), Len(SubSeq(log, 1, n)))
<1>1. PICK cut : cut = SubSeq(log, 1, n) /\ Len(cut) = n /\ \A i \in 1..n : cut[i] = log[i] /\ i \in 1..Len(log)
  <2>1. /\ Len(SubSeq(log, 1, n)) = n
        /\ \A i \in 1..n : SubSeq(log, 1, n)[i] = log[i] /\ i \in 1..Len(log)
    BY ONLY LogPrefix, log \in LogType, n \in 0..Len(log)
  <2>2. QED BY ONLY <2>1
<1>2. Distinct(log) => Distinct(cut)
  BY ONLY <1>1 DEF Distinct
<1>3. Sound(c, log, n) => Sound(c, cut, Len(cut))
  BY ONLY <1>1 DEF Sound
<1>4. QED BY <1>1, <1>2, <1>3

\* The marks that are left, when assigned cells keep their values and what comes on
\* the undo stack was not entered before a mark.
LEMMA MarksMove ==
  ASSUME NEW marks, NEW logs, NEW c, NEW fs, NEW s, MarksHold(marks, logs, c, fs, s), Len(marks) \in Nat, Len(s) \in Nat,
         NEW marks2, NEW logs2, NEW d, NEW fs2, NEW s2,
         Len(marks2) \in 0..Len(marks), \A i \in 1..Len(marks2) : marks2[i] = marks[i] /\ fs2[i].token = fs[i].token,
         \A i \in 1..Len(marks2), kind \in Kinds :
           /\ marks[i][kind] <= Len(logs2[kind])
           /\ \A k \in 1..marks[i][kind] : logs2[kind][k] = logs[kind][k] /\ d[logs[kind][k][1]] = c[logs[kind][k][1]],
         \A p \in 1..Len(s2) :
           \/ p \in 1..Len(s) /\ s2[p] = s[p]
           \/ \A i \in 1..Len(marks2), kind \in Kinds : \A k \in 1..marks[i][kind] : s2[p] # logs[kind][k][1]
  PROVE  MarksHold(marks2, logs2, d, fs2, s2)
<1>1. \A i \in 1..Len(marks2) : i \in 1..Len(marks) /\ \A j \in 1..i : j \in 1..Len(marks2)
  OBVIOUS
<1>2. ASSUME NEW i \in 1..Len(marks2), NEW kind \in Kinds
      PROVE  /\ marks2[i][kind] <= Len(logs2[kind])
             /\ \A j \in 1..i : marks2[j][kind] <= marks2[i][kind]
             /\ Sound(d, logs2[kind], marks2[i][kind])
             /\ \A k \in 1..marks2[i][kind], p \in 1..Len(s2) : fs2[i].token < p => s2[p] # logs2[kind][k][1]
  <2>0. i \in 1..Len(marks) /\ marks2[i] = marks[i] /\ fs2[i].token = fs[i].token
    BY <1>1
  <2>1. /\ \A j \in 1..i : marks[j][kind] <= marks[i][kind]
        /\ Sound(c, logs[kind], marks[i][kind])
        /\ \A k \in 1..marks[i][kind], p \in 1..Len(s) : fs[i].token < p => s[p] # logs[kind][k][1]
    BY <2>0 DEF MarksHold
  <2>2. /\ marks[i][kind] <= Len(logs2[kind])
        /\ \A k \in 1..marks[i][kind] : logs2[kind][k] = logs[kind][k] /\ d[logs[kind][k][1]] = c[logs[kind][k][1]]
    OBVIOUS
  <2>3. \A j \in 1..i : marks2[j][kind] <= marks2[i][kind]
    BY <1>1, <2>0, <2>1
  <2>4. Sound(d, logs2[kind], marks2[i][kind])
    BY ONLY <2>0, <2>1, <2>2 DEF Sound
  <2>5. \A p \in 1..Len(s2) :
           \/ p \in 1..Len(s) /\ s2[p] = s[p]
           \/ \A k \in 1..marks[i][kind] : s2[p] # logs[kind][k][1]
    OBVIOUS
  <2>6. \A k \in 1..marks2[i][kind], p \in 1..Len(s2) : fs2[i].token < p => s2[p] # logs2[kind][k][1]
    <3>1. ASSUME NEW k \in 1..marks[i][kind], NEW p \in 1..Len(s2), fs[i].token < p PROVE s2[p] # logs[kind][k][1]
      <4>1. CASE p \in 1..Len(s) /\ s2[p] = s[p]
        BY ONLY <2>1, <3>1, <4>1
      <4>2. CASE ~(p \in 1..Len(s) /\ s2[p] = s[p])
        BY ONLY <2>5, <4>2, k \in 1..marks[i][kind], p \in 1..Len(s2)
      <4>3. QED BY <4>1, <4>2
    <3>2. \A k \in 1..marks[i][kind] : logs2[kind][k] = logs[kind][k]
      BY ONLY <2>2
    <3>3. ASSUME NEW k \in 1..marks2[i][kind], NEW p \in 1..Len(s2), fs2[i].token < p PROVE s2[p] # logs2[kind][k][1]
      <4>1. k \in 1..marks[i][kind] /\ fs[i].token < p
        BY ONLY <2>0, <3>3, k \in 1..marks2[i][kind]
      <4>2. s2[p] # logs[kind][k][1] /\ logs2[kind][k] = logs[kind][k]
        BY ONLY <3>1, <3>2, <4>1, p \in 1..Len(s2)
      <4>3. QED BY ONLY <4>2
    <3>4. QED BY <3>3
  <2>7. QED BY <2>0, <2>2, <2>3, <2>4, <2>6
<1>3. QED BY <1>2 DEF MarksHold

\* The same when no mark and no log changes.
LEMMA MarksKept ==
  ASSUME NEW marks, NEW logs, NEW c, NEW fs, NEW s, MarksHold(marks, logs, c, fs, s),
         NEW d, NEW fs2, NEW s2, \A i \in 1..Len(marks) : fs2[i].token = fs[i].token,
         \A i \in 1..Len(marks), kind \in Kinds :
           /\ marks[i][kind] <= Len(logs[kind])
           /\ \A k \in 1..marks[i][kind] : d[logs[kind][k][1]] = c[logs[kind][k][1]],
         \A p \in 1..Len(s2) :
           \/ p \in 1..Len(s) /\ s2[p] = s[p]
           \/ \A i \in 1..Len(marks), kind \in Kinds : \A k \in 1..marks[i][kind] : s2[p] # logs[kind][k][1]
  PROVE  MarksHold(marks, logs, d, fs2, s2)
<1>1. ASSUME NEW i \in 1..Len(marks), NEW kind \in Kinds
      PROVE  /\ marks[i][kind] <= Len(logs[kind])
             /\ \A j \in 1..i : marks[j][kind] <= marks[i][kind]
             /\ Sound(d, logs[kind], marks[i][kind])
             /\ \A k \in 1..marks[i][kind], p \in 1..Len(s2) : fs2[i].token < p => s2[p] # logs[kind][k][1]
  <2>1. /\ \A j \in 1..i : marks[j][kind] <= marks[i][kind]
        /\ Sound(c, logs[kind], marks[i][kind])
        /\ \A k \in 1..marks[i][kind], p \in 1..Len(s) : fs[i].token < p => s[p] # logs[kind][k][1]
    BY DEF MarksHold
  <2>2. Sound(d, logs[kind], marks[i][kind])
    BY <2>1 DEF Sound
  <2>3. ASSUME NEW k \in 1..marks[i][kind], NEW p \in 1..Len(s2), fs2[i].token < p PROVE s2[p] # logs[kind][k][1]
    <3>1. CASE p \in 1..Len(s) /\ s2[p] = s[p]
      <4>1. fs[i].token < p
        BY <2>3
      <4>2. QED BY ONLY <2>1, <3>1, <4>1, k \in 1..marks[i][kind]
    <3>2. CASE ~(p \in 1..Len(s) /\ s2[p] = s[p])
      BY <3>2
    <3>3. QED BY <3>1, <3>2
  <2>4. QED BY <2>1, <2>2, <2>3
<1>2. QED BY ONLY <1>1 DEF MarksHold

\* A mark is added for a new frame.
LEMMA MarkAdded ==
  ASSUME NEW marks \in Seq([Kinds -> Nat]), NEW logs \in [Kinds -> LogType], NEW c, NEW fs, NEW s,
         MarksHold(marks, logs, c, fs, s),
         \A kind \in Kinds : Sound(c, logs[kind], Len(logs[kind])),
         \A kind \in Kinds : \A k \in 1..Len(logs[kind]), p \in 1..Len(s) :
           fs[Len(marks) + 1].token < p => s[p] # logs[kind][k][1]
  PROVE  MarksHold(Append(marks, [kind \in Kinds |-> Len(logs[kind])]), logs, c, fs, s)
<1>1. PICK n \in Nat : n = Len(marks)
  OBVIOUS
<1>2. \A kind \in Kinds : Len(logs[kind]) \in Nat
  BY DEF LogType
<1>3. PICK mark \in [Kinds -> Nat] : mark = [kind \in Kinds |-> Len(logs[kind])]
  BY <1>2
<1>4. PICK more : /\ more = Append(marks, mark) /\ Len(more) = n + 1 /\ more[n + 1] = mark
                  /\ \A i \in 1..n : more[i] = marks[i]
  <2>1. PICK T : T = [Kinds -> Nat]
    OBVIOUS
  <2>2. marks \in Seq(T) /\ mark \in T
    BY <2>1
  <2>3. /\ Len(Append(marks, mark)) = n + 1 /\ Append(marks, mark)[n + 1] = mark
        /\ \A i \in 1..n : Append(marks, mark)[i] = marks[i]
    BY ONLY <1>1, <2>2
  <2>4. QED BY <2>3
<1>5. \A i \in 1..(n + 1) : i \in 1..n \/ i = n + 1
  BY <1>1
<1>6. ASSUME NEW i \in 1..(n + 1), NEW kind \in Kinds
      PROVE  /\ more[i][kind] <= Len(logs[kind])
             /\ \A j \in 1..i : more[j][kind] <= more[i][kind]
             /\ Sound(c, logs[kind], more[i][kind])
             /\ \A k \in 1..more[i][kind], p \in 1..Len(s) : fs[i].token < p => s[p] # logs[kind][k][1]
  <2>1. CASE i \in 1..n
    <3>1. \A j \in 1..i : more[j] = marks[j]
      BY <1>1, <1>4, <2>1
    <3>2. QED BY <1>1, <1>4, <2>1, <3>1 DEF MarksHold
  <2>2. CASE i = n + 1
    <3>1. more[i][kind] = Len(logs[kind])
      BY <1>3, <1>4, <2>2
    <3>2. \A j \in 1..n : marks[j][kind] <= Len(logs[kind])
      BY <1>1 DEF MarksHold
    <3>3. \A j \in 1..(n + 1) : more[j][kind] <= Len(logs[kind])
      BY <1>2, <1>4, <1>5, <2>2, <3>1, <3>2
    <3>4. QED BY <1>1, <1>2, <2>2, <3>1, <3>3
  <2>3. QED BY <1>5, <2>1, <2>2
<1>7. MarksHold(more, logs, c, fs, s)
  BY ONLY <1>4, <1>6 DEF MarksHold
<1>8. QED BY <1>3, <1>4, <1>7

\* The wave's entries.
LEMMA WaveEntries ==
  ASSUME StoreTypeOK, Top.cell \in Cells, forced \in Seq(Cells), cells[Top.cell] # Unassigned, HeldOnce(cells, forced),
         \A q \in 1..Len(forced) : forced[q] # Top.cell
  PROVE  /\ Wave \in Seq(Cells)
         /\ Entries(Wave) \in LogType /\ Len(Entries(Wave)) = Len(forced) + 1
         /\ \A k \in 1..Len(Entries(Wave)) : Entries(Wave)[k] = <<Wave[k], cells[Wave[k]]>>
         /\ \A k \in 1..Len(Entries(Wave)) : Wave[k] = Top.cell \/ \E q \in 1..Len(forced) : Wave[k] = forced[q]
         /\ Distinct(Entries(Wave)) /\ Sound(cells, Entries(Wave), Len(Entries(Wave)))
         /\ Tail(Entries(Wave)) \in LogType
         /\ Distinct(Tail(Entries(Wave))) /\ Sound(cells, Tail(Entries(Wave)), Len(Tail(Entries(Wave))))
         /\ \A k \in 1..Len(Tail(Entries(Wave))) : \E q \in 1..Len(forced) : Tail(Entries(Wave))[k][1] = forced[q]
<1>1. PICK n \in Nat : n = Len(forced)
  OBVIOUS
<1>2. /\ Wave \in Seq(Cells) /\ Len(Wave) = n + 1 /\ Wave[1] = Top.cell /\ \A i \in 1..n : Wave[i + 1] = forced[i]
  BY <1>1, WaveShape
<1>3. \A i \in 1..(n + 1) : i = 1 \/ \E q \in 1..n : i = q + 1
  <2>1. \A i \in 1..(n + 1) : i # 1 => i - 1 \in 1..n /\ i = (i - 1) + 1
    OBVIOUS
  <2>2. QED BY <2>1
<1>4. \A i \in 1..(n + 1) : cells[Wave[i]] # Unassigned
  BY <1>1, <1>2, <1>3 DEF HeldOnce
<1>5. \A i \in 1..(n + 1) : Wave[i] = Top.cell \/ \E q \in 1..n : Wave[i] = forced[q]
  BY <1>2, <1>3
<1>6. ASSUME NEW j \in 1..(n + 1), NEW k \in 1..(n + 1), j # k PROVE Wave[j] # Wave[k]
  <2>1. CASE j = 1 /\ k # 1
    BY ONLY <1>1, <1>2, <1>3, <2>1, j \in 1..(n + 1), k \in 1..(n + 1), \A q \in 1..Len(forced) : forced[q] # Top.cell
  <2>2. CASE j # 1 /\ k = 1
    BY ONLY <1>1, <1>2, <1>3, <2>2, j \in 1..(n + 1), k \in 1..(n + 1), \A q \in 1..Len(forced) : forced[q] # Top.cell
  <2>3. CASE j # 1 /\ k # 1
    <3>1. PICK p, q \in 1..n : j = p + 1 /\ k = q + 1
      BY <1>3, <2>3
    <3>2. p # q
      BY <1>6, <3>1
    <3>3. forced[p] # forced[q]
      BY <1>1, <3>2 DEF HeldOnce
    <3>4. QED BY <1>2, <3>1, <3>3
  <2>4. QED BY <1>6, <2>1, <2>2, <2>3
<1>7. PICK e \in LogType : e = Entries(Wave) /\ Len(e) = n + 1 /\ \A i \in 1..(n + 1) : e[i] = <<Wave[i], cells[Wave[i]]>>
  BY <1>2, <1>4, EntriesTyped
<1>8. \A i \in 1..(n + 1) : e[i][1] = Wave[i] /\ e[i][2] = cells[Wave[i]]
  BY <1>7
<1>9. Distinct(e) /\ Sound(cells, e, n + 1)
  BY ONLY <1>6, <1>7, <1>8 DEF Distinct, Sound
<1>10. PICK t : /\ t = Tail(e) /\ t \in LogType /\ Len(t) = n /\ \A i \in 1..n : t[i] = e[i + 1] /\ i + 1 \in 1..(n + 1)
  <2>1. e # <<>>
    BY <1>7
  <2> DEFINE T == Cells \X {0, 1}
  <2>2. e \in Seq(T)
    BY DEF LogType
  <2> HIDE DEF T
  <2>3. Tail(e) \in Seq(T) /\ Len(Tail(e)) = n /\ \A i \in 1..n : Tail(e)[i] = e[i + 1] /\ i + 1 \in 1..(n + 1)
    BY <1>7, <2>1, <2>2
  <2>4. QED BY <2>3 DEF T, LogType
<1>11. Distinct(t) /\ Sound(cells, t, Len(t)) /\ \A i \in 1..n : t[i][1] = forced[i]
  <2>1. \A i, j \in 1..n : i # j => i + 1 # j + 1
    OBVIOUS
  <2>2. Distinct(t)
    BY ONLY <1>7, <1>9, <1>10, <2>1 DEF Distinct
  <2>3. Sound(cells, t, n)
    BY ONLY <1>9, <1>10 DEF Sound
  <2>4. \A i \in 1..n : t[i][1] = forced[i]
    BY ONLY <1>2, <1>8, <1>10
  <2>5. QED BY <1>10, <2>2, <2>3, <2>4
<1>12. QED BY ONLY <1>1, <1>2, <1>5, <1>7, <1>9, <1>10, <1>11

Log(kind) == locals.counted[kind]

\* Nothing has been entered that would have to be taken back first.
Unmarked == pc # "loop" \/ frames = <<>> \/ FreshTop

LogsHold ==
  \A kind \in Kinds : /\ Distinct(Log(kind))
                      /\ Unmarked => Sound(cells, Log(kind), Len(Log(kind)))

\* Each frame that has tried a value has its mark.
MarksCount == Len(locals.marks) = Len(frames) - (IF frames # <<>> /\ Top.nextValue = 0 THEN 1 ELSE 0)

\* Nothing is entered of this kind since the last mark.
AtMark(kind) == Len(Log(kind)) = locals.marks[Len(frames)][kind]

NotCounted ==
  /\ pc \in ProbeAt \cup {"try", "result"} => \A kind \in Kinds : AtMark(kind)
  /\ pc \in SidecarAt => AtMark("blocks") /\ (call.kind = "parity" => AtMark("sums"))
  /\ pc \in CompleteAt => AtMark("blocks")

\* The cells that the last propagation forced are recorded above the branched one.
WaveRecorded == pc \in {"sidecar", "complete", "fill"} =>
  /\ \A q \in 1..Len(forced) : \E p \in 1..Len(undoStack) : Top.token + 1 < p /\ undoStack[p] = forced[q]
  /\ \A p, q \in 1..Len(forced) : p # q => forced[p] # forced[q]

ForcedUncounted == pc \in Waiting =>
  \A kind \in Kinds : \A k \in 1..Len(Log(kind)), q \in 1..Len(forced) : Log(kind)[k][1] # forced[q]

SidecarsHold ==
  /\ LogsHold /\ MarksCount /\ NotCounted /\ WaveRecorded /\ ForcedUncounted
  /\ MarksHold(locals.marks, locals.counted, cells, frames, undoStack)

DecomposedInv ==
  /\ Basics /\ StatsExact /\ Recorded /\ solver = "decomposed" /\ DecomposedShape /\ CallTyped
  /\ locals \in DecomposedLocals /\ FramesHold /\ ValuesTried /\ SidecarsHold

\* What the invariant says of types.
LEMMA DecomposedTypes ==
  ASSUME DecomposedInv
  PROVE  /\ undoStack \in Seq(Cells) /\ forced \in Seq(Cells) /\ StoreTypeOK
         /\ locals.counted \in [Kinds -> LogType] /\ locals.marks \in Seq([Kinds -> Nat])
         /\ frames \in Seq(FrameType) /\ FramesPlain
         /\ Len(undoStack) \in Nat /\ Len(forced) \in Nat /\ Len(locals.marks) \in Nat /\ Len(frames) \in Nat
         /\ \A kind \in Kinds : Log(kind) \in LogType /\ Len(Log(kind)) \in Nat
<1>1. locals.counted \in [Kinds -> LogType] /\ locals.marks \in Seq([Kinds -> Nat])
  BY DEF DecomposedInv, DecomposedLocals
<1>2. frames \in Seq(FrameType) /\ FramesPlain
  BY DecomposedPlain DEF DecomposedInv, DecomposedShape
<1>3. \A kind \in Kinds : Log(kind) \in LogType /\ Len(Log(kind)) \in Nat
  BY <1>1 DEF Log, LogType
<1>4. undoStack \in Seq(Cells) /\ forced \in Seq(Cells) /\ StoreTypeOK
  BY DEF DecomposedInv, Basics, BranchingTypeOK, EngineTypeOK
<1>5. Len(locals.marks) \in Nat
  BY <1>1
<1>6. QED BY <1>1, <1>2, <1>3, <1>4, <1>5

LEMMA DecomposedTop ==
  ASSUME DecomposedInv, frames # <<>>
  PROVE  /\ Top \in FrameType /\ Top.cell \in Cells /\ Top.token \in Nat /\ Top.nextValue \in 0..2
         /\ Top = frames[Len(frames)] /\ Len(frames) \in 1..Len(frames)
<1>1. frames \in Seq(FrameType)
  BY DecomposedTypes
<1>2. Top \in FrameType /\ Len(frames) \in 1..Len(frames)
  BY <1>1, TopTyped
<1>3. Top.cell \in Cells /\ Top.token \in Nat /\ Top.nextValue \in 0..2
  BY ONLY <1>2 DEF FrameType
<1>4. QED BY <1>2, <1>3 DEF Top

\* Where a value is being tried, the branched cell is assigned and on the undo stack.
LEMMA BranchedHeld ==
  ASSUME DecomposedInv, frames # <<>>, ~Backing
  PROVE  /\ Top.token + 1 \in 1..Len(undoStack) /\ undoStack[Top.token + 1] = Top.cell
         /\ cells[Top.cell] # Unassigned
<1>1. Nested(frames, Len(frames), undoStack)
  BY DEF DecomposedInv, FramesHold, DecomposedShape, DecomposedPlaces
<1>2. InPlay(Top, undoStack) /\ Top.token \in Nat /\ Len(undoStack) \in Nat
  BY <1>1, DecomposedTop, DecomposedTypes DEF Nested
<1>3. Top.token + 1 \in 1..Len(undoStack) /\ undoStack[Top.token + 1] = Top.cell
  BY <1>2 DEF InPlay
<1>4. HeldOnce(cells, undoStack)
  BY DecomposedTypes, RecordedParts DEF DecomposedInv
<1>5. QED BY <1>3, <1>4 DEF HeldOnce

\* The branched cell and the cells forced from it are assigned, and different.
LEMMA WaveHeld ==
  ASSUME DecomposedInv, pc \in {"result", "sidecarPropagated", "sidecar", "complete"}
  PROVE  /\ Top.cell \in Cells /\ cells[Top.cell] # Unassigned /\ HeldOnce(cells, forced)
         /\ \A q \in 1..Len(forced) : forced[q] # Top.cell
<1>1. frames # <<>> /\ ~Backing
  BY DEF DecomposedInv, DecomposedShape, Backing
<1>2. /\ Top.token + 1 \in 1..Len(undoStack) /\ undoStack[Top.token + 1] = Top.cell
      /\ cells[Top.cell] # Unassigned /\ Top.cell \in Cells /\ Top.token \in Nat
  BY <1>1, BranchedHeld, DecomposedTop
<1>3. HeldOnce(cells, undoStack)
  BY DecomposedTypes, RecordedParts DEF DecomposedInv
<1>4. CASE pc \in {"result", "sidecarPropagated"}
  <2>1. pc \in Waiting
    BY <1>4 DEF Waiting
  <2>2. HeldOnce(cells, forced) /\ \A p \in 1..Len(undoStack), q \in 1..Len(forced) : undoStack[p] # forced[q]
    BY <2>1, DecomposedTypes, RecordedParts DEF DecomposedInv
  <2>3. QED BY <1>2, <2>2
<1>5. CASE pc \in {"sidecar", "complete"}
  <2>1. /\ \A q \in 1..Len(forced) : \E p \in 1..Len(undoStack) : Top.token + 1 < p /\ undoStack[p] = forced[q]
        /\ \A p, q \in 1..Len(forced) : p # q => forced[p] # forced[q]
    BY <1>5 DEF DecomposedInv, SidecarsHold, WaveRecorded
  <2>2. ASSUME NEW q \in 1..Len(forced) PROVE cells[forced[q]] # Unassigned /\ forced[q] # Top.cell
    <3>1. PICK p \in 1..Len(undoStack) : Top.token + 1 < p /\ undoStack[p] = forced[q]
      BY <2>1
    <3>2. p # Top.token + 1
      BY <1>2, <3>1
    <3>3. QED BY <1>2, <1>3, <3>1, <3>2 DEF HeldOnce
  <2>3. QED BY <1>2, <2>1, <2>2 DEF HeldOnce
<1>6. QED BY <1>4, <1>5

\* What stands above the top frame's token was not entered before its mark.
LEMMA UncountedAbove ==
  ASSUME DecomposedInv, frames # <<>>, Top.nextValue > 0, NEW kind \in Kinds, AtMark(kind),
         NEW p \in 1..Len(undoStack), Top.token < p
  PROVE  \A k \in 1..Len(Log(kind)) : Log(kind)[k][1] # undoStack[p]
<1>1. Len(locals.marks) = Len(frames) /\ Len(frames) \in 1..Len(locals.marks)
  <2>1. MarksCount
    BY DEF DecomposedInv, SidecarsHold
  <2>2. Top.nextValue \in 0..2 /\ Len(frames) \in 1..Len(frames)
    BY DecomposedTop
  <2>3. ~(frames # <<>> /\ Top.nextValue = 0)
    BY <2>2
  <2>4. Len(locals.marks) = Len(frames) - 0
    BY ONLY <2>1, <2>3 DEF MarksCount
  <2>5. Len(frames) \in Nat
    BY DecomposedTypes
  <2>6. QED BY ONLY <2>2, <2>4, <2>5
<1>2. /\ locals.marks[Len(frames)][kind] = Len(Log(kind)) /\ frames[Len(frames)].token < p
  BY DEF AtMark, Top
<1>3. MarksHold(locals.marks, locals.counted, cells, frames, undoStack)
  BY DEF DecomposedInv, SidecarsHold
<1>4. \A k \in 1..locals.marks[Len(frames)][kind] : undoStack[p] # locals.counted[kind][k][1]
  BY ONLY <1>1, <1>2, <1>3, kind \in Kinds, p \in 1..Len(undoStack) DEF MarksHold
<1>5. QED BY <1>2, <1>4 DEF Log

\* What a step puts on the undo stack has not been entered.
NewOnStack ==
  \A p \in 1..Len(undoStack') :
    \/ p \in 1..Len(undoStack) /\ undoStack'[p] = undoStack[p]
    \/ \A kind \in Kinds : \A k \in 1..Len(Log(kind)) : undoStack'[p] # Log(kind)[k][1]

\* What comes onto the undo stack has not been counted.
LEMMA StackGrows ==
  ASSUME DecomposedInv, Unmarked,
         \/ undoStack' = undoStack
         \/ pc \in Waiting /\ RecordForced
         \/ \E x \in Cells : cells[x] = Unassigned /\ undoStack' = Append(undoStack, x)
  PROVE  NewOnStack
<1>1. PICK n, m \in Nat : n = Len(undoStack) /\ m = Len(forced)
  BY DecomposedTypes
<1>2. CASE undoStack' = undoStack
  BY <1>2 DEF NewOnStack
<1>3. CASE pc \in Waiting /\ RecordForced
  <2>1. undoStack' = undoStack \o forced
    BY <1>3 DEF RecordForced
  <2>2. \A p \in 1..Len(undoStack') : \/ p \in 1..n /\ undoStack'[p] = undoStack[p]
                                      \/ \E q \in 1..m : undoStack'[p] = forced[q]
    <3>1. PICK a, b \in Seq(Cells) : a = undoStack /\ b = forced /\ Len(a) = n /\ Len(b) = m
      BY <1>1, DecomposedTypes
    <3>2. Len(a \o b) = n + m /\ \A p \in 1..n : (a \o b)[p] = a[p]
      BY <3>1
    <3>3. \A p \in 1..(n + m) : p \notin 1..n => p - n \in 1..m /\ (a \o b)[p] = b[p - n]
      BY <3>1
    <3>4. undoStack' = a \o b
      BY <2>1, <3>1
    <3>5. ASSUME NEW p \in 1..(n + m)
          PROVE  (p \in 1..n /\ (a \o b)[p] = a[p]) \/ \E q \in 1..m : (a \o b)[p] = b[q]
      BY ONLY <3>2, <3>3, p \in 1..(n + m)
    <3>6. QED BY ONLY <3>1, <3>2, <3>4, <3>5
  <2>3. \A kind \in Kinds : \A k \in 1..Len(Log(kind)), q \in 1..m : Log(kind)[k][1] # forced[q]
    BY <1>1, <1>3 DEF DecomposedInv, SidecarsHold, ForcedUncounted
  <2>4. QED BY ONLY <1>1, <2>2, <2>3 DEF NewOnStack
<1>4. CASE \E x \in Cells : cells[x] = Unassigned /\ undoStack' = Append(undoStack, x)
  <2>1. PICK x \in Cells : cells[x] = Unassigned /\ undoStack' = Append(undoStack, x)
    BY <1>4
  <2>2. \A p \in 1..Len(undoStack') : (p \in 1..n /\ undoStack'[p] = undoStack[p]) \/ undoStack'[p] = x
    <3>1. undoStack \in Seq(Cells)
      BY DecomposedTypes
    <3>2. QED BY <1>1, <2>1, <3>1
  <2>3. \A kind \in Kinds : \A k \in 1..Len(Log(kind)) : x # Log(kind)[k][1]
    <3>1. ASSUME NEW kind \in Kinds, NEW k \in 1..Len(Log(kind)) PROVE x # Log(kind)[k][1]
      <4>1. Sound(cells, Log(kind), Len(Log(kind)))
        BY DEF DecomposedInv, SidecarsHold, LogsHold
      <4>2. Log(kind)[k][2] \in {0, 1}
        BY DecomposedTypes DEF LogType
      <4>3. QED BY <2>1, <4>1, <4>2 DEF Sound, Unassigned
    <3>2. QED BY <3>1
  <2>4. QED BY ONLY <1>1, <2>1, <2>2, <2>3 DEF NewOnStack
<1>5. QED BY <1>2, <1>3, <1>4

\* No assigned cell changes while a value is tried.
LEMMA StoreExtends ==
  ASSUME StoreTypeOK, UNCHANGED cells \/ \E x \in Cells, v \in {0, 1} : cells[x] = Unassigned /\ Assign(x, v)
  PROVE  Extends(cells, cells')
<1>1. CASE UNCHANGED cells
  BY <1>1 DEF Extends
<1>2. CASE \E x \in Cells, v \in {0, 1} : cells[x] = Unassigned /\ Assign(x, v)
  <2>1. PICK x \in Cells, v \in {0, 1} : cells[x] = Unassigned /\ Assign(x, v)
    BY <1>2
  <2>2. \A y \in Cells \ {x} : cells'[y] = cells[y]
    BY ONLY <2>1, StoreTypeOK, AssignEffect, x \in Cells, v \in {0, 1}
  <2>3. QED BY <2>1, <2>2 DEF Extends
<1>3. QED BY <1>1, <1>2

\* Each log stays or grows by sound entries of other cells.
Entered(kind) ==
  \/ locals'.counted[kind] = locals.counted[kind]
  \/ \E more \in LogType :
       /\ locals'.counted[kind] = locals.counted[kind] \o more
       /\ Distinct(more) /\ Sound(cells', more, Len(more))
       /\ \A j \in 1..Len(Log(kind)), k \in 1..Len(more) : Log(kind)[j][1] # more[k][1]

\* So the logs and marks stay right while a value is tried.
LEMMA LogsForward ==
  ASSUME DecomposedInv, Unmarked, locals'.marks = locals.marks, \A kind \in Kinds : Entered(kind),
         Extends(cells, cells'), NewOnStack, undoStack' \in Seq(Cells),
         \A i \in 1..Len(locals.marks) : frames'[i].token = frames[i].token
  PROVE  LogsHold' /\ MarksHold(locals.marks, locals.counted, cells, frames, undoStack)'
<1>1. ASSUME NEW kind \in Kinds
      PROVE  /\ Distinct(Log(kind)') /\ Sound(cells', Log(kind)', Len(Log(kind)'))
             /\ Len(Log(kind)) <= Len(Log(kind)') /\ \A k \in 1..Len(Log(kind)) : Log(kind)'[k] = Log(kind)[k]
  <2>0. PICK log \in LogType : log = Log(kind)
    BY DecomposedTypes
  <2>1. Distinct(log) /\ Sound(cells, log, Len(log)) /\ Len(log) \in Nat
    BY <2>0, DecomposedTypes DEF DecomposedInv, SidecarsHold, LogsHold
  <2>2. CASE Log(kind)' = log
    <3>1. \A k \in 1..Len(log) : log[k][1] \in Cells /\ log[k][2] \in {0, 1}
      BY DEF LogType
    <3>2. Sound(cells', log, Len(log))
      BY <2>1, <3>1 DEF Sound, Extends, Unassigned
    <3>3. QED BY <2>0, <2>1, <2>2, <3>2
  <2>3. CASE Log(kind)' # log
    <3>1. PICK more \in LogType : /\ Log(kind)' = log \o more
                                  /\ Distinct(more) /\ Sound(cells', more, Len(more))
                                  /\ \A j \in 1..Len(log), k \in 1..Len(more) : log[j][1] # more[k][1]
      BY <2>0, <2>3 DEF Entered, Log
    <3>2. Distinct(log \o more) /\ Sound(cells', log \o more, Len(log \o more))
      BY ONLY <2>1, <3>1, Extends(cells, cells'), LogGrows, log \in LogType, more \in LogType
    <3>3. Len(log \o more) = Len(log) + Len(more) /\ \A k \in 1..Len(log) : (log \o more)[k] = log[k]
      BY ONLY LogConcat, log \in LogType, more \in LogType
    <3>4. Len(log) \in Nat /\ Len(more) \in Nat
      BY DEF LogType
    <3>5. Len(log) <= Len(log \o more)
      BY ONLY <3>3, <3>4
    <3>6. QED BY ONLY <2>0, <3>1, <3>2, <3>3, <3>5
  <2>4. QED BY <2>2, <2>3
<1>2. LogsHold'
  BY <1>1 DEF LogsHold
<1>3. PICK n \in Nat : n = Len(locals.marks) /\ Len(locals.marks') = n
  BY DecomposedTypes
<1>4. MarksHold(locals.marks, locals.counted, cells, frames, undoStack)
  BY DEF DecomposedInv, SidecarsHold
<1>5. ASSUME NEW i \in 1..n, NEW kind \in Kinds
      PROVE  /\ locals.marks[i][kind] \in Nat /\ locals.marks[i][kind] <= Len(Log(kind))
             /\ locals.marks[i][kind] <= Len(Log(kind)')
             /\ \A k \in 1..locals.marks[i][kind] : /\ k \in 1..Len(Log(kind)) /\ Log(kind)'[k] = Log(kind)[k]
                                                    /\ cells'[Log(kind)[k][1]] = cells[Log(kind)[k][1]]
  <2>1. locals.marks[i][kind] \in Nat
    <3>1. locals.marks[i] \in [Kinds -> Nat]
      BY <1>3, DecomposedTypes
    <3>2. QED BY <3>1
  <2>2. locals.marks[i][kind] <= Len(Log(kind))
    BY <1>3, <1>4 DEF MarksHold, Log
  <2>3. Len(Log(kind)) \in Nat /\ Len(Log(kind)') \in Nat
    <3>1. Len(Log(kind)) \in Nat
      BY DecomposedTypes
    <3>2. CASE Log(kind)' = Log(kind)
      BY <3>1, <3>2
    <3>3. CASE Log(kind)' # Log(kind)
      <4>1. PICK more \in LogType : Log(kind)' = Log(kind) \o more
        BY <3>3 DEF Entered, Log
      <4>2. Log(kind) \in LogType
        BY DecomposedTypes
      <4>3. Log(kind) \o more \in LogType
        BY ONLY <4>2, LogConcat, more \in LogType
      <4>4. QED BY <3>1, <4>1, <4>3 DEF LogType
    <3>4. QED BY <3>2, <3>3
  <2>4. \A k \in 1..locals.marks[i][kind] : k \in 1..Len(Log(kind))
    BY ONLY <2>1, <2>2, <2>3
  <2>5. \A k \in 1..Len(Log(kind)) : cells'[Log(kind)[k][1]] = cells[Log(kind)[k][1]]
    <3>1. Sound(cells, Log(kind), Len(Log(kind)))
      BY DEF DecomposedInv, SidecarsHold, LogsHold
    <3>2. \A k \in 1..Len(Log(kind)) : Log(kind)[k][1] \in Cells /\ Log(kind)[k][2] \in {0, 1}
      BY DecomposedTypes DEF LogType
    <3>3. QED BY <3>1, <3>2 DEF Sound, Extends, Unassigned
  <2>6. Len(Log(kind)) <= Len(Log(kind)') /\ \A k \in 1..Len(Log(kind)) : Log(kind)'[k] = Log(kind)[k]
    BY <1>1
  <2>7. locals.marks[i][kind] <= Len(Log(kind)')
    BY ONLY <2>1, <2>2, <2>3, <2>6
  <2>8. QED BY ONLY <2>1, <2>2, <2>4, <2>5, <2>6, <2>7
<1>6. MarksHold(locals.marks', locals.counted', cells', frames', undoStack')
  <2>1. n \in 0..n /\ Len(undoStack) \in Nat
    BY <1>3, DecomposedTypes
  <2>2. \A i \in 1..n : locals'.marks[i] = locals.marks[i] /\ frames'[i].token = frames[i].token
    BY <1>3
  <2>3. \A i \in 1..n, kind \in Kinds :
          /\ locals.marks[i][kind] <= Len(locals'.counted[kind])
          /\ \A k \in 1..locals.marks[i][kind] : /\ locals'.counted[kind][k] = locals.counted[kind][k]
                                                 /\ cells'[locals.counted[kind][k][1]] = cells[locals.counted[kind][k][1]]
    BY <1>5 DEF Log
  <2>4. \A p \in 1..Len(undoStack') :
          \/ p \in 1..Len(undoStack) /\ undoStack'[p] = undoStack[p]
          \/ \A i \in 1..n, kind \in Kinds : \A k \in 1..locals.marks[i][kind] : undoStack'[p] # locals.counted[kind][k][1]
    BY <1>5 DEF NewOnStack, Log
  <2>5. PICK m, l, c, f, s, l2, c2, f2, s2 :
          /\ m = locals.marks /\ l = locals.counted /\ c = cells /\ f = frames /\ s = undoStack
          /\ l2 = locals'.counted /\ c2 = cells' /\ f2 = frames' /\ s2 = undoStack'
    OBVIOUS
  <2>6. MarksHold(m, l, c, f, s) /\ Len(m) \in Nat /\ Len(s) \in Nat /\ Len(m) \in 0..Len(m)
    BY ONLY <1>3, <1>4, <2>1, <2>5
  <2>7. \A i \in 1..Len(m) : m[i] = m[i] /\ f2[i].token = f[i].token
    BY ONLY <1>3, <2>2, <2>5
  <2>8. \A i \in 1..Len(m), kind \in Kinds :
           /\ m[i][kind] <= Len(l2[kind])
           /\ \A k \in 1..m[i][kind] : l2[kind][k] = l[kind][k] /\ c2[l[kind][k][1]] = c[l[kind][k][1]]
    BY ONLY <1>3, <2>3, <2>5
  <2>9. \A p \in 1..Len(s2) :
           \/ p \in 1..Len(s) /\ s2[p] = s[p]
           \/ \A i \in 1..Len(m), kind \in Kinds : \A k \in 1..m[i][kind] : s2[p] # l[kind][k][1]
    BY ONLY <1>3, <2>4, <2>5
  <2>10. MarksHold(m, l2, c2, f2, s2)
    BY ONLY <2>6, <2>7, <2>8, <2>9, MarksMove
  <2>11. locals'.marks = m
    BY <2>5
  <2>12. QED BY ONLY <2>5, <2>10, <2>11
<1>7. QED BY <1>2, <1>6

\* Where a value has been tried, there is a mark to go back to.
LEMMA LastMark ==
  ASSUME DecomposedInv, frames # <<>>, Top.nextValue > 0
  PROVE  /\ Len(locals.marks) = Len(frames) /\ Len(frames) \in 1..Len(locals.marks) /\ locals.marks # <<>>
         /\ \A kind \in Kinds : locals.marks[Len(locals.marks)][kind] \in 0..Len(locals.counted[kind])
<1>1. Len(locals.marks) = Len(frames) /\ Len(frames) \in 1..Len(locals.marks)
  <2>1. MarksCount
    BY DEF DecomposedInv, SidecarsHold
  <2>2. Top.nextValue \in 0..2 /\ Len(frames) \in 1..Len(frames)
    BY DecomposedTop
  <2>3. ~(frames # <<>> /\ Top.nextValue = 0)
    BY <2>2
  <2>4. Len(locals.marks) = Len(frames) - 0
    BY ONLY <2>1, <2>3 DEF MarksCount
  <2>5. Len(frames) \in Nat
    BY DecomposedTypes
  <2>6. QED BY ONLY <2>2, <2>4, <2>5
<1>2. locals.marks # <<>>
  BY <1>1
<1>3. MarksHold(locals.marks, locals.counted, cells, frames, undoStack)
  BY DEF DecomposedInv, SidecarsHold
<1>4. \A kind \in Kinds : locals.marks[Len(locals.marks)][kind] <= Len(locals.counted[kind])
  BY ONLY <1>1, <1>3 DEF MarksHold
<1>5. \A kind \in Kinds : locals.marks[Len(locals.marks)][kind] \in Nat /\ Len(locals.counted[kind]) \in Nat
  <2>1. locals.marks[Len(locals.marks)] \in [Kinds -> Nat]
    BY <1>1, DecomposedTypes
  <2>2. \A kind \in Kinds : Len(locals.counted[kind]) \in Nat
    BY DecomposedTypes DEF Log
  <2>3. QED BY <2>1, <2>2
<1>6. QED BY <1>1, <1>2, <1>4, <1>5

\* The locals after the last mark is gone back to.
LEMMA UnwoundHolds ==
  ASSUME DecomposedInv, frames # <<>>, Top.nextValue > 0, NEW l, l = Unwound(locals)
  PROVE  /\ l \in DecomposedLocals /\ Len(l.marks) = Len(frames) - 1
         /\ \A i \in 1..Len(l.marks) : l.marks[i] = locals.marks[i]
         /\ MarksHold(l.marks, l.counted, cells, frames, undoStack)
         /\ \A kind \in Kinds : Distinct(l.counted[kind]) /\ Sound(cells, l.counted[kind], Len(l.counted[kind]))
<1>1. /\ locals \in DecomposedLocals
      /\ MarksHold(locals.marks, locals.counted, cells, frames, undoStack) /\ LogsHold
  BY DEF DecomposedInv, SidecarsHold
<1>2. PICK n \in Nat : /\ n = Len(frames) /\ n = Len(locals.marks) /\ n \in 1..n
                       /\ \A kind \in Kinds : locals.marks[n][kind] \in 0..Len(locals.counted[kind])
  BY LastMark, DecomposedTypes
<1>3. locals.marks # <<>>
  BY LastMark
<1>4. /\ l \in DecomposedLocals
      /\ l.marks = SubSeq(locals.marks, 1, n - 1)
      /\ \A kind \in Kinds : l.counted[kind] = SubSeq(locals.counted[kind], 1, locals.marks[n][kind])
  <2>1. \A kind \in Kinds : locals.marks[Len(locals.marks)][kind] <= Len(locals.counted[kind])
    BY <1>2, DecomposedTypes DEF Log
  <2>2. QED BY ONLY <1>1, <1>2, <1>3, <2>1, UnwoundTyped, l = Unwound(locals)
<1>5. Len(l.marks) = n - 1 /\ \A i \in 1..(n - 1) : l.marks[i] = locals.marks[i]
  <2>1. PICK T : T = [Kinds -> Nat]
    OBVIOUS
  <2>2. locals.marks \in Seq(T)
    BY <2>1, DecomposedTypes
  <2>3. QED BY ONLY <1>2, <1>3, <1>4, <2>2, ButLast
<1>6. ASSUME NEW kind \in Kinds
      PROVE  /\ Len(l.counted[kind]) = locals.marks[n][kind]
             /\ \A k \in 1..locals.marks[n][kind] : l.counted[kind][k] = locals.counted[kind][k]
             /\ Distinct(l.counted[kind]) /\ Sound(cells, l.counted[kind], Len(l.counted[kind]))
  <2>1. PICK log \in LogType : log = locals.counted[kind]
    BY DecomposedTypes
  <2>2. PICK m \in 0..Len(log) : m = locals.marks[n][kind]
    BY <1>2, <2>1
  <2>3. Len(SubSeq(log, 1, m)) = m /\ \A k \in 1..m : SubSeq(log, 1, m)[k] = log[k]
    BY LogPrefix
  <2>4. Distinct(log) /\ Sound(cells, log, m)
    BY <1>1, <1>2, <2>1, <2>2 DEF LogsHold, Log, MarksHold
  <2>5. Distinct(SubSeq(log, 1, m)) /\ Sound(cells, SubSeq(log, 1, m), Len(SubSeq(log, 1, m)))
    BY ONLY <2>4, LogCut, log \in LogType, m \in 0..Len(log)
  <2>6. l.counted[kind] = SubSeq(log, 1, m)
    BY <1>4, <2>1, <2>2
  <2>7. QED BY ONLY <2>1, <2>2, <2>3, <2>5, <2>6
<1>7. MarksHold(l.marks, l.counted, cells, frames, undoStack)
  <2>1. PICK m, g, m2, g2, c, f, s : /\ m = locals.marks /\ g = locals.counted /\ m2 = l.marks /\ g2 = l.counted
                                     /\ c = cells /\ f = frames /\ s = undoStack
    OBVIOUS
  <2>2. MarksHold(m, g, c, f, s) /\ Len(m) \in Nat /\ Len(s) \in Nat /\ Len(m2) \in 0..Len(m)
    BY <1>1, <1>2, <1>5, <2>1, DecomposedTypes
  <2>3. \A i \in 1..Len(m2) : m2[i] = m[i] /\ f[i].token = f[i].token
    BY ONLY <1>5, <2>1
  <2>4. \A i \in 1..Len(m2), kind \in Kinds :
           /\ m[i][kind] <= Len(g2[kind])
           /\ \A k \in 1..m[i][kind] : g2[kind][k] = g[kind][k] /\ c[g[kind][k][1]] = c[g[kind][k][1]]
    <3>1. ASSUME NEW i \in 1..(n - 1), NEW kind \in Kinds
          PROVE  m[i][kind] <= Len(g2[kind]) /\ \A k \in 1..m[i][kind] : g2[kind][k] = g[kind][k]
      <4>1. i \in 1..n /\ n \in 1..n
        BY <1>2
      <4>2. m[i][kind] <= m[n][kind]
        BY <1>1, <1>2, <2>1, <4>1 DEF MarksHold
      <4>3. Len(g2[kind]) = m[n][kind] /\ \A k \in 1..m[n][kind] : g2[kind][k] = g[kind][k]
        BY <1>6, <2>1
      <4>4. m[i][kind] \in Nat /\ m[n][kind] \in Nat
        <5>1. m[i] \in [Kinds -> Nat] /\ m[n] \in [Kinds -> Nat]
          <6>1. locals.marks \in Seq([Kinds -> Nat])
            BY DecomposedTypes
          <6>2. \A j \in 1..Len(locals.marks) : locals.marks[j] \in [Kinds -> Nat]
            BY ONLY <6>1
          <6>3. QED BY ONLY <1>2, <2>1, <4>1, <6>2
        <5>2. QED BY <5>1
      <4>5. \A k \in 1..m[i][kind] : k \in 1..m[n][kind]
        BY ONLY <4>2, <4>4
      <4>6. QED BY <4>2, <4>3, <4>5
    <3>2. Len(m2) = n - 1
      BY <1>5, <2>1
    <3>3. QED BY ONLY <3>1, <3>2
  <2>5. \A p \in 1..Len(s) :
           \/ p \in 1..Len(s) /\ s[p] = s[p]
           \/ \A i \in 1..Len(m2), kind \in Kinds : \A k \in 1..m[i][kind] : s[p] # g[kind][k][1]
    OBVIOUS
  <2>6. MarksHold(m2, g2, c, f, s)
    BY ONLY <2>2, <2>3, <2>4, <2>5, MarksMove
  <2>7. QED BY <2>1, <2>6
<1>8. QED BY ONLY <1>2, <1>4, <1>5, <1>6, <1>7

\* What is counted: entries that say what the cells will say, of other cells than
\* those counted before.
NewEntries(kind, entries) ==
  /\ Distinct(entries) /\ Sound(cells', entries, Len(entries))
  /\ \A j \in 1..Len(Log(kind)), k \in 1..Len(entries) : Log(kind)[j][1] # entries[k][1]

\* The cells of a wave have not been counted before it.
LEMMA WaveUncounted ==
  ASSUME DecomposedInv, NEW kind \in Kinds, UNCHANGED cells, AtMark(kind),
         pc \in {"result", "sidecar", "complete"}
  PROVE  Entries(Wave) \in LogType /\ NewEntries(kind, Entries(Wave))
<1>1. /\ Top.cell \in Cells /\ cells[Top.cell] # Unassigned /\ HeldOnce(cells, forced)
      /\ \A q \in 1..Len(forced) : forced[q] # Top.cell
  BY WaveHeld
<1>2. PICK e \in LogType : /\ e = Entries(Wave) /\ Distinct(e) /\ Sound(cells, e, Len(e))
                           /\ \A k \in 1..Len(e) : e[k] = <<Wave[k], cells[Wave[k]]>>
                           /\ \A k \in 1..Len(e) : Wave[k] = Top.cell \/ \E q \in 1..Len(forced) : Wave[k] = forced[q]
  BY <1>1, WaveEntries, DecomposedTypes
<1>3. frames # <<>> /\ ~Backing /\ Top.nextValue > 0
  BY DEF DecomposedInv, DecomposedShape, Backing, ValuesTried
<1>4. /\ Top.token + 1 \in 1..Len(undoStack) /\ undoStack[Top.token + 1] = Top.cell /\ Top.token \in Nat
  BY <1>3, BranchedHeld, DecomposedTop
<1>5. \A p \in 1..Len(undoStack) : Top.token < p => \A k \in 1..Len(Log(kind)) : Log(kind)[k][1] # undoStack[p]
  BY <1>3, UncountedAbove
<1>6. \A k \in 1..Len(Log(kind)) : Log(kind)[k][1] # Top.cell
  <2>1. Top.token < Top.token + 1
    BY <1>4
  <2>2. QED BY ONLY <1>4, <1>5, <2>1
<1>7. \A k \in 1..Len(Log(kind)), q \in 1..Len(forced) : Log(kind)[k][1] # forced[q]
  <2>1. CASE pc = "result"
    BY <2>1 DEF DecomposedInv, SidecarsHold, ForcedUncounted, Waiting
  <2>2. CASE pc \in {"sidecar", "complete"}
    <3>1. ASSUME NEW q \in 1..Len(forced) PROVE \A k \in 1..Len(Log(kind)) : Log(kind)[k][1] # forced[q]
      <4>1. PICK p \in 1..Len(undoStack) : Top.token + 1 < p /\ undoStack[p] = forced[q]
        BY <2>2 DEF DecomposedInv, SidecarsHold, WaveRecorded
      <4>2. Top.token < p
        BY <1>4, <4>1
      <4>3. QED BY ONLY <1>5, <4>1, <4>2
    <3>2. QED BY <3>1
  <2>3. QED BY <2>1, <2>2
<1>8. \A j \in 1..Len(Log(kind)), k \in 1..Len(e) : Log(kind)[j][1] # e[k][1]
  <2>1. \A k \in 1..Len(e) : e[k][1] = Wave[k]
    BY <1>2
  <2>2. QED BY ONLY <1>2, <1>6, <1>7, <2>1
<1>9. NewEntries(kind, e)
  BY ONLY <1>2, <1>8, UNCHANGED cells DEF NewEntries
<1>10. QED BY <1>2, <1>9

LEMMA CountedWhat ==
  ASSUME DecomposedInv, Propagated \/ CascadeCell \/ Cascaded \/ ParityDone \/ VerifyBlocks
  PROVE  \E kind \in Kinds, entries \in LogType :
           /\ locals' = Counting(locals, kind, entries) /\ NewEntries(kind, entries)
           /\ Propagated => kind = "parity"
           /\ CascadeCell \/ Cascaded => kind = call.kind
           /\ ParityDone => kind = "sums"
           /\ VerifyBlocks => kind = "blocks"
<1>0. "parity" \in Kinds /\ "sums" \in Kinds /\ "blocks" \in Kinds
  BY DEF Kinds
<1>1. NotCounted /\ ForcedUncounted /\ LogsHold
  BY DEF DecomposedInv, SidecarsHold
<1>2. pc \in SidecarAt => call.kind \in {"parity", "sums"} /\ call.kind \in Kinds
  BY DEF DecomposedInv, CallTyped, SidecarCall, Kinds
<1>3. CASE Propagated
  <2>1. pc = "result" /\ cells' = cells /\ locals' = Counting(locals, "parity", Entries(Wave)) /\ ~CascadeCell /\ ~Cascaded
        /\ ~ParityDone /\ ~VerifyBlocks
    BY <1>3 DEF Propagated, store, CascadeCell, Cascaded, ParityDone, VerifyBlocks
  <2>2. AtMark("parity")
    BY <1>0, <1>1, <2>1 DEF NotCounted
  <2>3. Entries(Wave) \in LogType /\ NewEntries("parity", Entries(Wave))
    BY ONLY <1>0, <2>1, <2>2, DecomposedInv, WaveUncounted
  <2>4. QED BY ONLY <1>0, <2>1, <2>3
<1>4. CASE ParityDone
  <2>1. pc = "sidecar" /\ call.kind = "parity" /\ cells' = cells /\ locals' = Counting(locals, "sums", Entries(Wave))
        /\ ~Propagated /\ ~CascadeCell /\ ~Cascaded /\ ~VerifyBlocks
    BY <1>4 DEF Propagated, store, CascadeCell, Cascaded, ParityDone, VerifyBlocks
  <2>2. AtMark("sums")
    BY <1>0, <1>1, <2>1 DEF NotCounted, SidecarAt
  <2>3. Entries(Wave) \in LogType /\ NewEntries("sums", Entries(Wave))
    BY ONLY <1>0, <2>1, <2>2, DecomposedInv, WaveUncounted
  <2>4. QED BY ONLY <1>0, <2>1, <2>3
<1>5. CASE VerifyBlocks
  <2>1. pc = "complete" /\ cells' = cells /\ locals' = Counting(locals, "blocks", Verified(Wave).entries)
        /\ ~Propagated /\ ~CascadeCell /\ ~Cascaded /\ ~ParityDone
    BY <1>5 DEF Propagated, store, CascadeCell, Cascaded, ParityDone, VerifyBlocks
  <2>2. AtMark("blocks")
    BY <1>0, <1>1, <2>1 DEF NotCounted, CompleteAt
  <2>3. Entries(Wave) \in LogType /\ NewEntries("blocks", Entries(Wave))
    BY ONLY <1>0, <2>1, <2>2, DecomposedInv, WaveUncounted
  <2>4. PICK e \in LogType : e = Entries(Wave) /\ NewEntries("blocks", e)
    BY <2>3
  <2>5. PICK n \in 0..Len(e) : Verified(Wave).entries = SubSeq(e, 1, n)
    <3>1. Top.cell \in Cells
      BY <2>1, WaveHeld
    <3>2. Wave \in Seq(Cells)
      BY <3>1, WaveShape, DecomposedTypes
    <3>3. PICK n \in 0..Len(Wave) : Verified(Wave).entries = SubSeq(Entries(Wave), 1, n)
      BY <3>2, VerifiedShape, DecomposedTypes
    <3>4. Len(e) = Len(Wave)
      <4>1. /\ cells[Top.cell] # Unassigned /\ HeldOnce(cells, forced) /\ \A q \in 1..Len(forced) : forced[q] # Top.cell
        BY <2>1, WaveHeld
      <4>2. Len(Entries(Wave)) = Len(forced) + 1
        BY <3>1, <4>1, WaveEntries, DecomposedTypes
      <4>3. Len(Wave) = Len(forced) + 1
        BY <3>1, WaveShape, DecomposedTypes
      <4>4. QED BY <2>4, <4>2, <4>3
    <3>5. QED BY ONLY <2>4, <3>3, <3>4
  <2>6. /\ SubSeq(e, 1, n) \in LogType /\ Len(SubSeq(e, 1, n)) = n
        /\ \A i \in 1..n : SubSeq(e, 1, n)[i] = e[i] /\ i \in 1..Len(e)
    BY LogPrefix
  <2>7. NewEntries("blocks", SubSeq(e, 1, n))
    BY ONLY <2>4, <2>6 DEF NewEntries, Distinct, Sound
  <2>8. QED BY ONLY <1>0, <2>1, <2>5, <2>6, <2>7
<1>6. CASE Cascaded
  <2>1. pc = "sidecarPropagated" /\ cells' = cells /\ locals' = Counting(locals, call.kind, Tail(Entries(Wave)))
        /\ ~Propagated /\ ~CascadeCell /\ ~VerifyBlocks /\ ~ParityDone
    BY <1>6 DEF Propagated, store, CascadeCell, Cascaded, ParityDone, VerifyBlocks
  <2>2. /\ Top.cell \in Cells /\ cells[Top.cell] # Unassigned /\ HeldOnce(cells, forced)
        /\ \A q \in 1..Len(forced) : forced[q] # Top.cell
    BY <2>1, WaveHeld
  <2>3. PICK t \in LogType : /\ t = Tail(Entries(Wave)) /\ Distinct(t) /\ Sound(cells, t, Len(t))
                             /\ \A k \in 1..Len(t) : \E q \in 1..Len(forced) : t[k][1] = forced[q]
    BY <2>2, WaveEntries, DecomposedTypes
  <2>4. PICK kind \in Kinds : kind = call.kind
    BY <1>2, <2>1 DEF SidecarAt
  <2>5. \A k \in 1..Len(Log(kind)), q \in 1..Len(forced) : Log(kind)[k][1] # forced[q]
    BY <1>1, <2>1 DEF ForcedUncounted, Waiting
  <2>6. NewEntries(kind, t)
    BY ONLY <2>1, <2>3, <2>5 DEF NewEntries
  <2>7. QED BY ONLY <2>1, <2>3, <2>4, <2>6
<1>7. CASE CascadeCell
  <2>1. /\ pc = "sidecar" /\ call.todo # <<>> /\ cells[Head(call.todo).cell] = Unassigned
        /\ AssignAndRecord(Head(call.todo).cell, Head(call.todo).value)
        /\ locals' = Counting(locals, call.kind, <<<<Head(call.todo).cell, Head(call.todo).value>>>>)
        /\ ~Propagated /\ ~Cascaded /\ ~VerifyBlocks /\ ~ParityDone
    BY <1>7 DEF Propagated, CascadeCell, Cascaded, ParityDone, VerifyBlocks
  <2>2. call.todo \in Seq(Due)
    BY <2>1 DEF DecomposedInv, CallTyped, SidecarAt, SidecarCall
  <2>3. PICK x \in Cells, v \in {0, 1} : x = Head(call.todo).cell /\ v = Head(call.todo).value
    BY ONLY <2>1, <2>2, DueTail
  <2>4. PICK kind \in Kinds : kind = call.kind
    BY <1>2, <2>1 DEF SidecarAt
  <2>5. PICK t \in LogType : t = <<<<x, v>>>> /\ Len(t) = 1 /\ t[1] = <<x, v>>
    <3>1. PICK T : T = Cells \X {0, 1}
      OBVIOUS
    <3>2. <<x, v>> \in T
      BY <3>1
    <3>3. <<<<x, v>>>> \in Seq(T)
      BY ONLY <3>2
    <3>4. QED BY <3>1, <3>3 DEF LogType
  <2>6. cells'[x] = v
    <3>1. StoreTypeOK /\ Assign(x, v)
      BY <2>1, <2>3, DecomposedTypes DEF AssignAndRecord
    <3>2. QED BY ONLY <3>1, AssignEffect, x \in Cells, v \in {0, 1}
  <2>7. \A j \in 1..Len(Log(kind)) : Log(kind)[j][1] # x
    <3>1. Sound(cells, Log(kind), Len(Log(kind)))
      BY <1>1, <2>1 DEF LogsHold, Unmarked
    <3>2. \A j \in 1..Len(Log(kind)) : Log(kind)[j][2] \in {0, 1}
      BY DecomposedTypes DEF LogType
    <3>3. QED BY <2>1, <2>3, <3>1, <3>2 DEF Sound, Unassigned
  <2>8. NewEntries(kind, t)
    BY ONLY <2>5, <2>6, <2>7 DEF NewEntries, Distinct, Sound
  <2>9. QED BY ONLY <2>1, <2>3, <2>4, <2>5, <2>8
<1>8. QED BY <1>3, <1>4, <1>5, <1>6, <1>7

\* The locals that a turn of the main loop leaves.
LEMMA TurnTyped ==
  ASSUME locals \in DecomposedLocals, StoreTypeOK, Len(frames) \in Nat, Turn
  PROVE  /\ locals' \in DecomposedLocals
         /\ locals'.counted = locals.counted /\ locals'.marks = locals.marks
<1> DEFINE heap == IF (locals.iterations + 1) % kReseed = 0 THEN Pushed(locals.rowHeap, AllRows) ELSE locals.rowHeap
           rest == IF Fresh(heap) = 0 THEN <<>> ELSE SubSeq(heap, Fresh(heap) + 1, Len(heap))
<1>1. heap \in Seq(HeapEntry)
  BY TurnHeapTyped DEF TurnHeap
<1>2. PICK h : h = heap /\ h \in Seq(HeapEntry) /\ rest = IF Fresh(h) = 0 THEN <<>> ELSE SubSeq(h, Fresh(h) + 1, Len(h))
  BY <1>1
<1>3. rest \in Seq(HeapEntry)
  <2>1. CASE Fresh(h) = 0
    <3>1. <<>> \in Seq(HeapEntry)
      OBVIOUS
    <3>2. QED BY ONLY <1>2, <2>1, <3>1
  <2>2. CASE Fresh(h) # 0
    <3>1. Fresh(h) \in 1..Len(h)
      BY <1>2, <2>2, FreshEntry
    <3>2. PICK T : T = HeapEntry
      OBVIOUS
    <3>3. h \in Seq(T)
      BY <1>2, <3>2
    <3>4. PICK i, n \in Nat : i = Fresh(h) + 1 /\ n = Len(h) /\ 1 <= i
      BY ONLY <3>1, <3>3
    <3>5. SubSeq(h, i, n) \in Seq(T)
      BY ONLY <3>3, <3>4
    <3>6. QED BY ONLY <1>2, <2>2, <3>2, <3>4, <3>5
  <2>3. QED BY <2>1, <2>2
<1>4. (locals.iterations + 1) % kReseed \in 0..(kReseed - 1)
  <2>1. locals.iterations \in Nat
    BY kReseedAssumption DEF DecomposedLocals
  <2>2. QED BY <2>1, kReseedAssumption
<1>5. update(locals.detector, Len(frames)) \in DetectorType
  <2>1. locals.detector \in DetectorType
    BY DEF DecomposedLocals
  <2>2. QED BY ONLY <2>1, UpdateTyped, Len(frames) \in Nat
<1>6. PICK belief \in {NoBelief} \cup Beliefs :
        locals' = [locals EXCEPT !.iterations = (locals.iterations + 1) % kReseed,
                                 !.detector = update(locals.detector, Len(frames)),
                                 !.belief = belief, !.rowHeap = rest]
  <2>1. locals.belief \in {NoBelief} \cup Beliefs
    BY DEF DecomposedLocals
  <2>2. QED BY <2>1 DEF Turn
<1> HIDE DEF heap, rest
<1>7. PICK i \in 0..(kReseed - 1), d \in DetectorType, r \in Seq(HeapEntry) :
        locals' = [locals EXCEPT !.iterations = i, !.detector = d, !.belief = belief, !.rowHeap = r]
  BY <1>3, <1>4, <1>5, <1>6
<1>8. QED BY ONLY <1>7, locals \in DecomposedLocals, belief \in {NoBelief} \cup Beliefs DEF DecomposedLocals

LEMMA PushedLocals ==
  ASSUME locals \in DecomposedLocals, StoreTypeOK, NEW rows \in Seq(Index), NEW l,
         l = [locals EXCEPT !.rowHeap = Pushed(@, rows)]
  PROVE  l \in DecomposedLocals /\ l.counted = locals.counted /\ l.marks = locals.marks
<1>1. locals.rowHeap \in Seq(HeapEntry) /\ unknown \in [Lines -> Nat]
  BY DEF DecomposedLocals, StoreTypeOK
<1>2. PICK r \in Seq(HeapEntry) : r = Pushed(locals.rowHeap, rows)
  BY ONLY <1>1, PushedTyped, rows \in Seq(Index)
<1>3. l = [locals EXCEPT !.rowHeap = r]
  BY <1>2
<1>4. QED BY ONLY <1>3, r \in Seq(HeapEntry), locals \in DecomposedLocals DEF DecomposedLocals

LEMMA WaveRows ==
  ASSUME forced \in Seq(Cells), Top.cell \in Cells
  PROVE  [i \in DOMAIN Wave |-> Wave[i][1]] \in Seq(Index)
<1>1. PICK w \in Seq(Cells) : w = Wave
  BY WaveShape
<1>2. PICK n \in Nat : DOMAIN w = 1..n /\ \A i \in 1..n : w[i] \in Cells
  OBVIOUS
<1>3. \A i \in 1..n : w[i][1] \in Index
  BY <1>2, CellParts
<1>4. [i \in 1..n |-> w[i][1]] \in Seq(Index)
  BY ONLY <1>3, n \in Nat
<1>5. QED BY ONLY <1>1, <1>2, <1>4

\* Which part of the locals a step leaves alone.
LEMMA DecomposedLocalsStep ==
  ASSUME DecomposedInv, DecomposedNext
  PROVE  /\ locals' \in DecomposedLocals
         /\ ~(Pop \/ ProbeZero \/ TryAlternate) => locals'.marks = locals.marks
         /\ ~(InitialBranch \/ Pop \/ ProbeZero \/ TryAlternate \/ Propagated \/ CascadeCell \/ Cascaded
               \/ ParityDone \/ VerifyBlocks) => locals'.counted = locals.counted
<1>0. /\ locals \in DecomposedLocals /\ StoreTypeOK /\ forced \in Seq(Cells) /\ Len(frames) \in Nat
  BY DecomposedTypes DEF DecomposedInv
<1>1. CASE UNCHANGED locals
  BY <1>0, <1>1
<1>2. CASE InitialBranch
  <2>1. PICK l : l = [locals EXCEPT !.rowHeap = Pushed(@, AllRows)]
    OBVIOUS
  <2>2. AllRows \in Seq(Index)
    BY kSAssumption DEF AllRows, Index
  <2>3. l \in DecomposedLocals /\ l.marks = locals.marks
    BY ONLY <1>0, <2>1, <2>2, PushedLocals
  <2>4. PICK g \in [Kinds -> LogType] : g = CountedAtLoad
    BY <1>0, LoadTyped
  <2>5. locals' = [l EXCEPT !.counted = g]
    BY <1>2, <2>1, <2>4 DEF InitialBranch
  <2>6. locals' \in DecomposedLocals /\ locals'.marks = locals.marks
    BY ONLY <2>3, <2>5, g \in [Kinds -> LogType] DEF DecomposedLocals
  <2>7. QED BY <1>2, <2>6
<1>3. CASE Pop \/ TryAlternate
  <2>1. frames # <<>> /\ Top.nextValue > 0 /\ (locals' = Unwound(locals) \/ locals' = Marked(Unwound(locals)))
    BY <1>3 DEF Pop, TryAlternate
  <2>2. PICK l \in DecomposedLocals : l = Unwound(locals)
    BY <2>1, UnwoundHolds
  <2>3. Marked(l) \in DecomposedLocals
    BY MarkedTyped
  <2>4. QED BY <1>3, <2>1, <2>2, <2>3
<1>4. CASE ProbeZero
  <2>1. locals' = Marked(locals)
    BY <1>4 DEF ProbeZero
  <2>2. QED BY <1>0, <1>4, <2>1, MarkedTyped
<1>5. CASE Propagated \/ CascadeCell \/ Cascaded \/ ParityDone \/ VerifyBlocks
  <2>1. PICK kind \in Kinds, entries \in LogType : locals' = Counting(locals, kind, entries)
    BY <1>5, CountedWhat
  <2>2. locals' \in DecomposedLocals /\ locals'.marks = locals.marks
    BY ONLY <1>0, <2>1, CountingTyped
  <2>3. QED BY <1>5, <2>2
<1>6. CASE CascadeDone
  <2>1. frames # <<>>
    BY <1>6 DEF CascadeDone, DecomposedInv, DecomposedShape
  <2>2. [i \in DOMAIN Wave |-> Wave[i][1]] \in Seq(Index)
    BY <1>0, <2>1, DecomposedTop, WaveRows
  <2>3. locals' \in DecomposedLocals /\ locals'.counted = locals.counted /\ locals'.marks = locals.marks
    BY ONLY <1>0, <1>6, <2>2, PushedLocals DEF CascadeDone
  <2>4. QED BY <2>3
<1>7. CASE CompleteRow
  <2>1. PICK b \in BOOLEAN : locals' = [locals EXCEPT !.guessed = b]
    <3>1. locals.guessed \in BOOLEAN
      BY <1>0 DEF DecomposedLocals
    <3>2. QED BY <1>7, <3>1 DEF CompleteRow
  <2>2. QED BY <1>0, <2>1 DEF DecomposedLocals
<1>8. CASE SelectFromHeap \/ SelectNext \/ Yield
  <2>1. Turn
    BY <1>8 DEF SelectFromHeap, SelectNext, Yield
  <2>2. QED BY ONLY <1>0, <2>1, TurnTyped
<1>9. CASE \/ Start \/ InitialInfeasible \/ InitialSolved \/ Undo \/ ProbeOne \/ ProbePropagate \/ ProbeContradiction
           \/ ProbeJudge \/ BothInfeasible \/ TryPreferred \/ TryForced \/ TryPropagate \/ Contradiction
  <2>1. UNCHANGED locals
    BY <1>9 DEF Start, InitialInfeasible, InitialSolved, Undo, ProbeOne, ProbePropagate, ProbeContradiction, control,
       ProbeJudge, BothInfeasible, TryPreferred, TryForced, TryPropagate, Contradiction
  <2>2. QED BY <1>1, <2>1
<1>10. CASE \/ Cascade \/ CascadeKnown \/ CascadePropagate \/ SkipRow \/ CompletionInfeasible \/ FillKnown \/ FillCell
            \/ FillPropagate \/ Filled \/ FillDone \/ HashMismatch \/ Exhausted \/ Propagating
  <2>1. UNCHANGED locals
    BY <1>10 DEF Cascade, CascadeKnown, CascadePropagate, SkipRow, CompletionInfeasible, FillKnown, FillCell, control,
       FillPropagate, Filled, FillDone, HashMismatch, Exhausted, Propagating
  <2>2. QED BY <1>1, <2>1
<1>11. QED
  BY <1>2, <1>3, <1>4, <1>5, <1>6, <1>7, <1>8, <1>9, <1>10 DEF DecomposedNext

\* Every step runs the engine, or leaves it alone.
LEMMA EngineMoves ==
  ASSUME EngineTypeOK, UNCHANGED target,
         \/ UNCHANGED engine \/ EngineStep
         \/ \E lines \in Seq(Lines) : Propagate(lines)
         \/ \E x \in Cells : TryPropagateCell(x)
  PROVE  EngineTypeOK'
<1>1. CASE UNCHANGED engine
  BY <1>1 DEF EngineTypeOK, engine, queue
<1>2. CASE EngineStep
  BY <1>2, EngineStepTyped
<1>3. CASE \E lines \in Seq(Lines) : Propagate(lines)
  BY <1>3, PropagateTyped
<1>4. CASE \E x \in Cells : TryPropagateCell(x)
  BY <1>4, TryTyped
<1>5. QED BY <1>1, <1>2, <1>3, <1>4

LEMMA DecomposedEngine ==
  ASSUME DecomposedInv, DecomposedNext
  PROVE  \/ UNCHANGED engine \/ EngineStep
         \/ \E lines \in Seq(Lines) : Propagate(lines)
         \/ \E x \in Cells : TryPropagateCell(x)
<1>1. CASE Start
  BY <1>1, AllLinesTyped DEF Start
<1>2. CASE ProbePropagate \/ TryPropagate
  <2>1. frames # <<>> /\ TryPropagateCell(Top.cell)
    BY <1>2 DEF ProbePropagate, TryPropagate, DecomposedInv, DecomposedShape
  <2>2. Top.cell \in Cells
    BY <2>1, DecomposedTop
  <2>3. QED BY <2>1, <2>2
<1>3. CASE CascadePropagate \/ FillPropagate
  <2>1. call.todo \in Seq(Due) /\ call.todo # <<>>
    BY <1>3 DEF CascadePropagate, FillPropagate, DecomposedInv, CallTyped, SidecarAt, SidecarCall, CompleteAt, FillAt, CompleteCall
  <2>2. Head(call.todo).cell \in Cells
    BY ONLY <2>1, DueTail
  <2>3. QED BY <1>3, <2>2 DEF CascadePropagate, FillPropagate
<1>4. CASE \/ InitialInfeasible \/ InitialSolved \/ InitialBranch \/ Undo \/ Pop \/ ProbeZero \/ ProbeOne \/ ProbeContradiction
           \/ ProbeJudge \/ BothInfeasible \/ TryPreferred \/ TryForced \/ TryAlternate \/ Contradiction \/ Propagated
  <2>1. UNCHANGED engine
    BY <1>4 DEF InitialInfeasible, InitialSolved, InitialBranch, Undo, Pop, ProbeZero, ProbeOne, Probe, ProbeContradiction,
       ProbeJudge, BothInfeasible, TryPreferred, TryForced, TryAlternate, Contradiction, Propagated
  <2>2. QED BY <2>1
<1>5. CASE \/ Cascade \/ CascadeKnown \/ CascadeCell \/ Cascaded \/ ParityDone \/ CascadeDone \/ SkipRow
           \/ CompletionInfeasible \/ CompleteRow \/ FillKnown \/ FillCell \/ Filled \/ FillDone
           \/ VerifyBlocks \/ HashMismatch \/ SelectFromHeap \/ SelectNext \/ Yield \/ Exhausted
  <2>1. UNCHANGED engine
    BY <1>5 DEF Cascade, CascadeKnown, CascadeCell, Cascaded, ParityDone, CascadeDone, SkipRow,
       CompletionInfeasible, CompleteRow, FillKnown, FillCell, Filled, FillDone,
       VerifyBlocks, HashMismatch, SelectFromHeap, SelectNext, Yield, Exhausted
  <2>2. QED BY <2>1
<1>6. CASE Propagating
  BY <1>6 DEF Propagating
<1>7. QED BY <1>1, <1>2, <1>3, <1>4, <1>5, <1>6 DEF DecomposedNext

\* What a step does to the undo stack.
StackMoves ==
  \/ undoStack' = undoStack
  \/ pc \in Waiting /\ RecordForced
  \/ \E x \in Cells, v \in {0, 1} : cells[x] = Unassigned /\ AssignAndRecord(x, v)
  \/ undoStack # <<>> /\ UndoLast

LEMMA StackTyped ==
  ASSUME undoStack \in Seq(Cells), forced \in Seq(Cells), StackMoves
  PROVE  undoStack' \in Seq(Cells)
<1>1. CASE undoStack' = undoStack
  BY <1>1
<1>2. CASE RecordForced
  BY <1>2 DEF RecordForced
<1>3. CASE \E x \in Cells, v \in {0, 1} : AssignAndRecord(x, v)
  BY <1>3 DEF AssignAndRecord
<1>4. CASE undoStack # <<>> /\ UndoLast
  BY <1>4, ButLast DEF UndoLast
<1>5. QED BY <1>1, <1>2, <1>3, <1>4 DEF StackMoves

\* The undo stack stays a sequence of cells.
LEMMA DecomposedStack == ASSUME DecomposedInv, DecomposedNext PROVE StackMoves
<1> USE DEF Waiting
<1>0. /\ undoStack \in Seq(Cells) /\ FramesPlain /\ FramesHold /\ DecomposedShape /\ Len(undoStack) \in Nat
  BY DecomposedTypes DEF DecomposedInv
<1>1. CASE \/ Start \/ InitialInfeasible \/ Pop \/ ProbePropagate \/ ProbeContradiction \/ BothInfeasible \/ TryPropagate
           \/ Contradiction \/ Cascade \/ CascadeKnown \/ CascadePropagate \/ ParityDone \/ CascadeDone
  <2>1. undoStack' = undoStack
    BY <1>1 DEF Start, InitialInfeasible, Pop, ProbePropagate, ProbeContradiction, BothInfeasible, TryPropagate,
       Contradiction, Cascade, CascadeKnown, CascadePropagate, ParityDone, CascadeDone, brancher
  <2>2. QED BY <2>1 DEF StackMoves
<1>2. CASE \/ SkipRow \/ CompletionInfeasible \/ CompleteRow \/ FillKnown \/ FillPropagate \/ FillDone
           \/ VerifyBlocks \/ HashMismatch \/ SelectFromHeap \/ SelectNext \/ Yield \/ Exhausted \/ Propagating
  <2>1. undoStack' = undoStack
    BY <1>2 DEF SkipRow, CompletionInfeasible, CompleteRow, FillKnown, FillPropagate, FillDone,
       VerifyBlocks, HashMismatch, SelectFromHeap, SelectNext, Yield, Exhausted, Propagating, brancher
  <2>2. QED BY <2>1 DEF StackMoves
<1>3. CASE InitialSolved \/ InitialBranch \/ ProbeJudge \/ Propagated \/ Cascaded \/ Filled
  BY <1>3 DEF InitialSolved, InitialBranch, ProbeJudge, Propagated, Cascaded, Filled, StackMoves
<1>4. CASE Undo
  <2>1. frames # <<>> /\ UndoLast /\ ~(Len(undoStack) <= Top.token)
    BY <1>4 DEF Undo, Undone
  <2>2. Top.token \in Nat
    BY <2>1, DecomposedTop
  <2>3. undoStack # <<>>
    BY <1>0, <2>1, <2>2
  <2>4. QED BY <2>1, <2>3 DEF StackMoves
<1>5. CASE ProbeZero
  <2>1. frames # <<>> /\ FreshTop /\ AssignAndRecord(Top.cell, 0) /\ pc # "probingEnded"
    BY <1>5 DEF ProbeZero, Probe, FreshTop, DecomposedInv
  <2>2. cells[Top.cell] = Unassigned /\ Top.cell \in Cells
    BY <1>0, <2>1, DecomposedTop DEF FramesHold
  <2>3. QED BY <2>1, <2>2 DEF StackMoves
<1>6. CASE ProbeOne \/ TryPreferred \/ TryForced \/ TryAlternate
  <2>1. frames # <<>> /\ Backing /\ ~FreshTop /\ Undone /\ pc # "probingEnded"
    BY <1>0, <1>6 DEF ProbeOne, Probe, TryPreferred, TryForced, TryAlternate, Backing, FreshTop, DecomposedShape
  <2>2. cells[Top.cell] = Unassigned /\ Top.cell \in Cells
    BY ONLY <1>0, <2>1, Undoable
  <2>3. PICK v \in {0, 1} : AssignAndRecord(Top.cell, v)
    <3>1. Top.preferred \in {0, 1}
      <4>1. Top \in FrameType
        BY <2>1, DecomposedTop
      <4>2. QED BY ONLY <4>1 DEF FrameType
    <3>2. 1 - Top.preferred \in {0, 1}
      BY <3>1
    <3>3. QED BY <1>6, <3>1, <3>2 DEF ProbeOne, Probe, TryPreferred, TryForced, TryAlternate
  <2>4. QED BY <2>2, <2>3 DEF StackMoves
<1>7. CASE CascadeCell \/ FillCell
  <2>1. call.todo \in Seq(Due) /\ call.todo # <<>>
    BY <1>7 DEF CascadeCell, FillCell, DecomposedInv, CallTyped, SidecarAt, SidecarCall, CompleteAt, FillAt, CompleteCall
  <2>2. PICK x \in Cells, v \in {0, 1} : x = Head(call.todo).cell /\ v = Head(call.todo).value
    BY ONLY <2>1, DueTail
  <2>3. cells[x] = Unassigned /\ AssignAndRecord(x, v)
    BY <1>7, <2>2 DEF CascadeCell, FillCell
  <2>4. QED BY <2>3 DEF StackMoves
<1>8. QED BY <1>1, <1>2, <1>3, <1>4, <1>5, <1>6, <1>7 DEF DecomposedNext

\* What is given out are sets of cells.
LEMMA DecomposedAnswers ==
  ASSUME answers \in Seq(SUBSET Cells), rowBits \in SUBSET Cells, DecomposedNext
  PROVE  answers' \in Seq(SUBSET Cells)
<1>1. CASE InitialSolved
  <2>1. PICK T : T = SUBSET Cells
    OBVIOUS
  <2>2. <<rowBits>> \in Seq(T) /\ <<>> \in Seq(T)
    BY <2>1
  <2>3. answers' = <<rowBits>> \/ answers' = <<>>
    BY <1>1 DEF InitialSolved
  <2>4. QED BY <2>1, <2>2, <2>3
<1>2. CASE Yield
  <2>1. PICK T : T = SUBSET Cells
    OBVIOUS
  <2>2. Append(answers, rowBits) \in Seq(T)
    BY <2>1
  <2>3. QED BY <1>2, <2>1, <2>2 DEF Yield
<1>3. CASE \/ Start \/ InitialInfeasible \/ InitialBranch \/ Undo \/ Pop \/ ProbeZero \/ ProbeOne \/ ProbePropagate
           \/ ProbeContradiction \/ ProbeJudge \/ BothInfeasible \/ TryPreferred \/ TryForced \/ TryAlternate \/ TryPropagate
           \/ Contradiction \/ Propagated
  <2>1. answers' = answers
    BY <1>3 DEF Start, InitialInfeasible, InitialBranch, Undo, Pop, ProbeZero, ProbeOne, Probe, ProbePropagate, control,
       ProbeContradiction, ProbeJudge, BothInfeasible, TryPreferred, TryForced, TryAlternate, TryPropagate, Contradiction,
       Propagated
  <2>2. QED BY <2>1
<1>4. CASE \/ Cascade \/ CascadeKnown \/ CascadeCell \/ CascadePropagate \/ Cascaded \/ ParityDone \/ CascadeDone
           \/ SkipRow \/ CompletionInfeasible \/ CompleteRow \/ FillKnown \/ FillCell \/ FillPropagate \/ Filled \/ FillDone
           \/ VerifyBlocks \/ HashMismatch \/ SelectFromHeap \/ SelectNext \/ Exhausted \/ Propagating
  <2>1. answers' = answers
    BY <1>4 DEF Cascade, CascadeKnown, CascadeCell, CascadePropagate, Cascaded, ParityDone, CascadeDone,
       SkipRow, CompletionInfeasible, CompleteRow, FillKnown, FillCell, FillPropagate, Filled, FillDone,
       VerifyBlocks, HashMismatch, SelectFromHeap, SelectNext, Exhausted, Propagating, control
  <2>2. QED BY <2>1
<1>5. QED BY <1>1, <1>2, <1>3, <1>4 DEF DecomposedNext

\* The part of the invariant that is not about the sidecars.
LEMMA DecomposedBase ==
  ASSUME DecomposedInv, DecomposedNext
  PROVE  /\ (Basics /\ StatsExact /\ Recorded)' /\ solver' = "decomposed" /\ DecomposedShape' /\ CallTyped'
         /\ locals' \in DecomposedLocals /\ FramesHold' /\ ValuesTried'
<1>1. /\ Basics /\ StatsExact /\ Recorded /\ solver = "decomposed" /\ DecomposedShape /\ CallTyped
      /\ locals \in DecomposedLocals /\ FramesHold /\ ValuesTried
  BY DEF DecomposedInv
<1>2. locals' \in DecomposedLocals
  BY DecomposedLocalsStep
<1>3. DecomposedShape'
  BY ONLY <1>1, <1>2, DecomposedNext, DecomposedShapeStep
<1>4. CallTyped'
  BY ONLY <1>1, <1>3, DecomposedNext, DecomposedCallsStep
<1>5. FramesHold' /\ ValuesTried'
  BY ONLY <1>1, <1>2, <1>3, DecomposedNext, DecomposedFrames
<1>6. UNCHANGED input
  BY DecomposedInput
<1>7. (StoreTypeOK /\ StatsExact /\ Recorded)'
  BY ONLY <1>1, DecomposedNext, DecomposedMoves, StoreStep
<1>8. EngineTypeOK'
  <2>1. EngineTypeOK /\ UNCHANGED target
    BY <1>1, <1>6 DEF Basics, input
  <2>2. QED BY <2>1, DecomposedEngine, EngineMoves
<1>9. BranchingTypeOK'
  <2>1. undoStack' \in Seq(Cells)
    BY DecomposedStack, DecomposedTypes, StackTyped
  <2>2. minUnassignedRow' = 0 /\ 0 \in Index
    BY <1>3, kSAssumption DEF DecomposedShape, Index
  <2>3. QED BY <2>1, <2>2 DEF BranchingTypeOK
<1>10. answers' \in Seq(SUBSET Cells)
  <2>1. rowBits \in SUBSET Cells /\ answers \in Seq(SUBSET Cells)
    BY <1>1 DEF Basics, StoreTypeOK
  <2>2. QED BY ONLY <2>1, DecomposedNext, DecomposedAnswers
<1>11. InputTyped' /\ solver' = "decomposed"
  BY <1>1, <1>6 DEF Basics, InputTyped, input
<1>12. Basics'
  BY <1>7, <1>8, <1>9, <1>10, <1>11 DEF Basics
<1>13. QED BY <1>2, <1>3, <1>4, <1>5, <1>7, <1>11, <1>12

(* What the logs' invariant becomes under each kind of step.               *)

LEMMA NewStack ==
  ASSUME DecomposedInv, Unmarked, StackMoves, ~(undoStack # <<>> /\ UndoLast)
  PROVE  NewOnStack
<1>1. \/ undoStack' = undoStack
      \/ pc \in Waiting /\ RecordForced
      \/ \E x \in Cells : cells[x] = Unassigned /\ undoStack' = Append(undoStack, x)
  BY DEF StackMoves, AssignAndRecord
<1>2. QED BY ONLY <1>1, DecomposedInv, Unmarked, StackGrows

\* Cells keep their values in every step but an undo.
LEMMA DecomposedExtends ==
  ASSUME DecomposedInv, DecomposedNext, ~Undo
  PROVE  Extends(cells, cells') /\ (Unmarked => NewOnStack)
<1> USE DEF Waiting
<1>1. Extends(cells, cells')
  <2>1. CASE Propagating
    <3>1. UNCHANGED cells \/ ForceCell
      BY <2>1 DEF Propagating, EngineStep, PopViolated, PopLine, Quiesce, store
    <3>2. EngineTypeOK /\ StoreTypeOK
      BY DEF DecomposedInv, Basics
    <3>3. UNCHANGED cells \/ \E x \in Cells, v \in {0, 1} : cells[x] = Unassigned /\ Assign(x, v)
      BY <3>1, <3>2, ForcedCell
    <3>4. QED BY ONLY <3>2, <3>3, StoreExtends
  <2>2. CASE ~Propagating
    <3>1. UNCHANGED cells \/ \E x \in Cells, v \in {0, 1} : cells[x] = Unassigned /\ AssignAndRecord(x, v)
      <4>1. CASE ProbeZero \/ ProbeOne \/ TryPreferred \/ TryForced \/ TryAlternate \/ CascadeCell \/ FillCell
        <5>1. undoStack' # undoStack
          <6>1. PICK x : undoStack' = Append(undoStack, x)
            BY <4>1 DEF ProbeZero, ProbeOne, Probe, TryPreferred, TryForced, TryAlternate, CascadeCell, FillCell, AssignAndRecord
          <6>2. undoStack \in Seq(Cells)
            BY DecomposedTypes
          <6>3. Len(Append(undoStack, x)) = Len(undoStack) + 1 /\ Len(undoStack) \in Nat
            BY ONLY <6>2
          <6>4. QED BY <6>1, <6>3
        <5>2. ~(undoStack # <<>> /\ UndoLast)
          <6>1. PICK x : undoStack' = Append(undoStack, x)
            BY <4>1 DEF ProbeZero, ProbeOne, Probe, TryPreferred, TryForced, TryAlternate, CascadeCell, FillCell, AssignAndRecord
          <6>2. undoStack \in Seq(Cells)
            BY DecomposedTypes
          <6>3. Len(Append(undoStack, x)) = Len(undoStack) + 1 /\ Len(undoStack) \in Nat
            BY ONLY <6>2
          <6>4. undoStack # <<>> => Len(SubSeq(undoStack, 1, Len(undoStack) - 1)) = Len(undoStack) - 1
            BY ONLY <6>2, ButLast
          <6>5. QED BY <6>1, <6>3, <6>4 DEF UndoLast
        <5>3. pc \notin Waiting
          BY <4>1 DEF ProbeZero, ProbeOne, Probe, TryPreferred, TryForced, TryAlternate, CascadeCell, FillCell
        <5>4. QED BY <5>1, <5>2, <5>3, DecomposedStack DEF StackMoves
      <4>2. CASE \/ Start \/ InitialInfeasible \/ InitialSolved \/ InitialBranch \/ Pop \/ ProbePropagate \/ ProbeContradiction
                 \/ ProbeJudge \/ BothInfeasible \/ TryPropagate \/ Contradiction \/ Propagated
        BY <4>2 DEF Start, InitialInfeasible, InitialSolved, InitialBranch, Pop, ProbePropagate, ProbeContradiction,
           ProbeJudge, BothInfeasible, TryPropagate, Contradiction, Propagated, store
      <4>3. CASE \/ Cascade \/ CascadeKnown \/ CascadePropagate \/ Cascaded \/ ParityDone \/ CascadeDone
                 \/ SkipRow \/ CompletionInfeasible \/ CompleteRow \/ FillKnown \/ FillPropagate \/ Filled \/ FillDone
                 \/ VerifyBlocks \/ HashMismatch \/ SelectFromHeap \/ SelectNext \/ Yield \/ Exhausted
        BY <4>3 DEF Cascade, CascadeKnown, CascadePropagate, Cascaded, ParityDone, CascadeDone,
           SkipRow, CompletionInfeasible, CompleteRow, FillKnown, FillPropagate, Filled, FillDone,
           VerifyBlocks, HashMismatch, SelectFromHeap, SelectNext, Yield, Exhausted, store
      <4>4. QED BY <2>2, <4>1, <4>2, <4>3 DEF DecomposedNext
    <3>2. UNCHANGED cells \/ \E x \in Cells, v \in {0, 1} : cells[x] = Unassigned /\ Assign(x, v)
      BY <3>1 DEF AssignAndRecord
    <3>3. QED BY <3>2, StoreExtends, DecomposedTypes
  <2>3. QED BY <2>1, <2>2
<1>2. ASSUME undoStack # <<>>, UndoLast PROVE FALSE
  <2>1. undoStack \in Seq(Cells)
    BY DecomposedTypes
  <2>2. PICK x \in Cells : x = undoStack[Len(undoStack)] /\ Unassign(x)
    BY <1>2, <2>1 DEF UndoLast
  <2>3. cells'[x] = Unassigned
    BY <2>2, UnassignEffect, DecomposedTypes
  <2>4. HeldOnce(cells, undoStack)
    BY <2>1, DecomposedTypes, RecordedParts DEF DecomposedInv
  <2>5. cells[x] # Unassigned
    BY <1>2, <2>1, <2>2, <2>4 DEF HeldOnce
  <2>6. QED BY <1>1, <2>3, <2>5 DEF Extends
<1>3. QED BY <1>1, <1>2, DecomposedStack, NewStack

\* The notes on what is not counted, and on what the last wave was.
LEMMA QuietNotes ==
  ASSUME NotCounted, locals'.counted = locals.counted, locals'.marks = locals.marks, Len(frames') = Len(frames),
         pc' \in ProbeAt \cup {"try", "result"} => pc \in ProbeAt \cup {"try", "result"},
         pc' \in SidecarAt => pc \in SidecarAt /\ call'.kind = call.kind,
         pc' \in CompleteAt => pc \in CompleteAt \cup SidecarAt
  PROVE  NotCounted'
BY DEF NotCounted, AtMark, Log

LEMMA WaveNotes ==
  ASSUME DecomposedInv, frames # <<>>, ~Backing, frames' = frames, forced' = forced,
         \/ WaveRecorded /\ pc \in {"sidecar", "complete", "fill"} /\ undoStack' = undoStack
         \/ pc \in Waiting /\ RecordForced
  PROVE  WaveRecorded'
<1>0. Top' = Top /\ WaveRecorded
  BY DEF Top, DecomposedInv, SidecarsHold
<1>1. CASE WaveRecorded /\ pc \in {"sidecar", "complete", "fill"} /\ undoStack' = undoStack
  BY <1>0, <1>1 DEF WaveRecorded
<1>2. CASE pc \in Waiting /\ RecordForced
  <2>1. PICK n, m \in Nat, a, b \in Seq(Cells) : /\ a = undoStack /\ b = forced /\ n = Len(a) /\ m = Len(b)
    BY DecomposedTypes
  <2>2. Top.token + 1 <= n /\ Top.token \in Nat
    BY <2>1, BranchedHeld, DecomposedTop
  <2>3. Len(a \o b) = n + m /\ \A q \in 1..m : (a \o b)[n + q] = b[q] /\ n + q \in 1..(n + m) /\ Top.token + 1 < n + q
    BY <2>1, <2>2
  <2>4. undoStack' = a \o b
    BY <1>2, <2>1 DEF RecordForced
  <2>5. ASSUME NEW q \in 1..m PROVE \E p \in 1..Len(undoStack') : Top.token + 1 < p /\ undoStack'[p] = b[q]
    <3>1. n + q \in 1..Len(undoStack') /\ undoStack'[n + q] = b[q] /\ Top.token + 1 < n + q
      BY ONLY <2>3, <2>4, q \in 1..m
    <3>2. QED BY ONLY <3>1
  <2>6. HeldOnce(cells, forced)
    BY <1>2, DecomposedTypes, RecordedParts DEF DecomposedInv
  <2>7. \A p, q \in 1..m : p # q => b[p] # b[q]
    BY <2>1, <2>6 DEF HeldOnce
  <2>8. forced' = b /\ Len(b) = m
    BY <2>1
  <2>9. QED BY ONLY <1>0, <2>5, <2>7, <2>8 DEF WaveRecorded
<1>3. QED BY <1>1, <1>2

\* A mark is placed, and the top frame's cell is tried.
LEMMA MarkPlaced ==
  ASSUME StoreTypeOK, undoStack \in Seq(Cells), frames # <<>>, Len(frames) \in 1..Len(frames), Len(frames) \in Nat,
         NEW l \in DecomposedLocals, Len(l.marks) = Len(frames) - 1,
         MarksHold(l.marks, l.counted, cells, frames, undoStack),
         \A kind \in Kinds : Distinct(l.counted[kind]) /\ Sound(cells, l.counted[kind], Len(l.counted[kind])),
         Top.cell \in Cells, cells[Top.cell] = Unassigned, NEW v \in {0, 1}, AssignAndRecord(Top.cell, v),
         Len(frames') = Len(frames), \A i \in 1..(Len(frames) - 1) : frames'[i] = frames[i],
         Top'.token = Len(undoStack), locals' = Marked(l)
  PROVE  /\ LogsHold' /\ MarksHold(locals.marks, locals.counted, cells, frames, undoStack)'
         /\ Len(locals'.marks) = Len(frames') /\ \A kind \in Kinds : AtMark(kind)'
<1>1. PICK n \in Nat : n = Len(l.marks) /\ Len(frames) = n + 1
  BY DEF DecomposedLocals
<1>2. PICK g \in [Kinds -> LogType], m \in Seq([Kinds -> Nat]) : g = l.counted /\ m = l.marks
  BY DEF DecomposedLocals
<1>3. PICK mark \in [Kinds -> Nat] : mark = [kind \in Kinds |-> Len(g[kind])]
  <2>1. \A kind \in Kinds : Len(g[kind]) \in Nat
    BY DEF LogType
  <2>2. QED BY <2>1
<1>4. locals'.counted = g /\ locals'.marks = Append(m, mark)
  BY ONLY <1>2, <1>3, MarkedTyped, l \in DecomposedLocals, locals' = Marked(l)
<1>5. PICK x \in Cells : x = Top.cell /\ cells[x] = Unassigned /\ Assign(x, v) /\ undoStack' = Append(undoStack, x)
  BY DEF AssignAndRecord
<1>6. \A y \in Cells \ {x} : cells'[y] = cells[y]
  BY ONLY <1>5, StoreTypeOK, AssignEffect, x \in Cells, v \in {0, 1}
<1>7. ASSUME NEW kind \in Kinds, NEW k \in 1..Len(g[kind])
      PROVE  g[kind][k][1] # x /\ cells'[g[kind][k][1]] = cells[g[kind][k][1]]
  <2>1. g[kind][k][1] \in Cells /\ g[kind][k][2] \in {0, 1}
    <3>1. g[kind] \in LogType
      OBVIOUS
    <3>2. QED BY ONLY <3>1, k \in 1..Len(g[kind]) DEF LogType
  <2>2. cells[g[kind][k][1]] = g[kind][k][2]
    BY <1>2 DEF Sound
  <2>3. g[kind][k][1] # x
    <3>1. g[kind][k][2] # Unassigned
      BY <2>1 DEF Unassigned
    <3>2. QED BY ONLY <1>5, <2>2, <3>1
  <2>4. QED BY ONLY <1>6, <2>1, <2>3
<1>8. \A kind \in Kinds : Distinct(g[kind]) /\ Sound(cells', g[kind], Len(g[kind]))
  <2>1. \A kind \in Kinds : Distinct(g[kind]) /\ Sound(cells, g[kind], Len(g[kind]))
    BY <1>2
  <2>2. ASSUME NEW kind \in Kinds, NEW k \in 1..Len(g[kind])
        PROVE  cells'[g[kind][k][1]] = g[kind][k][2]
    <3>1. cells[g[kind][k][1]] = g[kind][k][2]
      BY ONLY <2>1, kind \in Kinds, k \in 1..Len(g[kind]) DEF Sound
    <3>2. QED BY ONLY <1>7, <3>1, kind \in Kinds, k \in 1..Len(g[kind])
  <2>3. QED BY ONLY <2>1, <2>2 DEF Sound
<1>9. LogsHold'
  BY ONLY <1>4, <1>8 DEF LogsHold, Log
<1>10. /\ Len(undoStack') = Len(undoStack) + 1 /\ Len(undoStack) \in Nat
       /\ \A p \in 1..(Len(undoStack) + 1) : (p \in 1..Len(undoStack) /\ undoStack'[p] = undoStack[p]) \/ undoStack'[p] = x
  BY <1>5
<1>11. PICK c, f, s, c2, f2, s2 : /\ c = cells /\ f = frames /\ s = undoStack /\ c2 = cells' /\ f2 = frames' /\ s2 = undoStack'
  OBVIOUS
<1>12. MarksHold(m, g, c2, f2, s2)
  <2>1. MarksHold(m, g, c, f, s) /\ Len(m) \in Nat /\ Len(s) \in Nat /\ Len(m) \in 0..Len(m)
    BY <1>1, <1>2, <1>10, <1>11
  <2>2. \A i \in 1..Len(m) : f2[i].token = f[i].token
    BY <1>1, <1>2, <1>11
  <2>3. ASSUME NEW i \in 1..Len(m), NEW kind \in Kinds
        PROVE  m[i][kind] <= Len(g[kind]) /\ \A k \in 1..m[i][kind] : k \in 1..Len(g[kind])
    <3>1. m[i][kind] <= Len(g[kind])
      BY <2>1 DEF MarksHold
    <3>2. m[i][kind] \in Nat /\ Len(g[kind]) \in Nat
      <4>1. m[i] \in [Kinds -> Nat] /\ g[kind] \in LogType
        OBVIOUS
      <4>2. QED BY <4>1 DEF LogType
    <3>3. QED BY ONLY <3>1, <3>2
  <2>4. \A i \in 1..Len(m), kind \in Kinds :
           /\ m[i][kind] <= Len(g[kind])
           /\ \A k \in 1..m[i][kind] : c2[g[kind][k][1]] = c[g[kind][k][1]]
    BY <1>7, <1>11, <2>3
  <2>5. \A p \in 1..Len(s2) :
           \/ p \in 1..Len(s) /\ s2[p] = s[p]
           \/ \A i \in 1..Len(m), kind \in Kinds : \A k \in 1..m[i][kind] : s2[p] # g[kind][k][1]
    <3>1. ASSUME NEW p \in 1..Len(s2), ~(p \in 1..Len(s) /\ s2[p] = s[p]), NEW i \in 1..Len(m), NEW kind \in Kinds, NEW k \in 1..m[i][kind]
          PROVE  s2[p] # g[kind][k][1]
      <4>1. s2[p] = x
        BY ONLY <1>10, <1>11, <3>1
      <4>2. k \in 1..Len(g[kind])
        BY <2>3
      <4>3. QED BY <1>7, <4>1, <4>2
    <3>2. QED BY <3>1
  <2>6. QED BY ONLY <2>1, <2>2, <2>4, <2>5, MarksKept
<1>13. MarksHold(Append(m, mark), g, c2, f2, s2)
  <2>1. \A kind \in Kinds : Sound(c2, g[kind], Len(g[kind]))
    BY <1>8, <1>11
  <2>2. f2[Len(m) + 1].token = Len(undoStack)
    BY <1>1, <1>2, <1>11 DEF Top
  <2>3. \A kind \in Kinds : \A k \in 1..Len(g[kind]), p \in 1..Len(s2) : f2[Len(m) + 1].token < p => s2[p] # g[kind][k][1]
    <3>1. \A p \in 1..Len(s2) : f2[Len(m) + 1].token < p => s2[p] = x
      BY <1>10, <1>11, <2>2
    <3>2. QED BY <1>7, <3>1
  <2>4. MarksHold(Append(m, [kind \in Kinds |-> Len(g[kind])]), g, c2, f2, s2)
    BY ONLY <1>12, <2>1, <2>3, MarkAdded, m \in Seq([Kinds -> Nat]), g \in [Kinds -> LogType]
  <2>5. QED BY <1>3, <2>4
<1>14. PICK T : T = [Kinds -> Nat]
  OBVIOUS
<1>15. Len(Append(m, mark)) = n + 1 /\ Append(m, mark)[n + 1] = mark
  <2>1. m \in Seq(T) /\ mark \in T /\ n = Len(m)
    BY <1>1, <1>2, <1>14
  <2>2. QED BY ONLY <2>1
<1>16. \A kind \in Kinds : AtMark(kind)'
  BY <1>1, <1>3, <1>4, <1>15 DEF AtMark, Log
<1>17. MarksHold(locals.marks, locals.counted, cells, frames, undoStack)'
  BY ONLY <1>4, <1>11, <1>13
<1>18. QED BY <1>1, <1>4, <1>9, <1>15, <1>16, <1>17

\* What the frames become where no mark moves.
FramesKept ==
  \/ frames' = frames
  \/ /\ frames # <<>> /\ Top.nextValue > 0 /\ frames' = [frames EXCEPT ![Len(frames)].nextValue = 2]
  \/ \E f \in FrameType : /\ f.nextValue = 0 /\ frames' = Append(frames, f) /\ (frames # <<>> => Top.nextValue > 0)

\* Where no frame is opened, closed or retried, the frames stay.
LEMMA FramesKeptStep ==
  ASSUME DecomposedInv, DecomposedNext, ~(InitialBranch \/ Pop \/ ProbeZero \/ TryAlternate)
  PROVE  FramesKept
<1>1. CASE \/ Start \/ InitialInfeasible \/ InitialSolved \/ Undo \/ ProbeOne \/ ProbePropagate \/ ProbeContradiction
           \/ ProbeJudge \/ TryPreferred \/ TryPropagate \/ Contradiction \/ Propagated
  <2>1. frames' = frames
    BY <1>1 DEF Start, InitialInfeasible, InitialSolved, Undo, ProbeOne, ProbePropagate, ProbeContradiction, control,
       ProbeJudge, TryPreferred, TryPropagate, Contradiction, Propagated
  <2>2. QED BY <2>1 DEF FramesKept
<1>2. CASE \/ Cascade \/ CascadeKnown \/ CascadeCell \/ CascadePropagate \/ Cascaded \/ ParityDone \/ CascadeDone
           \/ SkipRow \/ CompletionInfeasible \/ CompleteRow \/ FillKnown \/ FillCell \/ FillPropagate \/ Filled
           \/ FillDone \/ VerifyBlocks \/ HashMismatch \/ Yield \/ Exhausted \/ Propagating
  <2>1. frames' = frames
    BY <1>2 DEF Cascade, CascadeKnown, CascadeCell, CascadePropagate, Cascaded, ParityDone, CascadeDone,
       SkipRow, CompletionInfeasible, CompleteRow, FillKnown, FillCell, FillPropagate, Filled,
       FillDone, VerifyBlocks, HashMismatch, Yield, Exhausted, Propagating, control
  <2>2. QED BY <2>1 DEF FramesKept
<1>3. CASE BothInfeasible \/ TryForced
  <2>1. pc = "unprobe" /\ frames' = [frames EXCEPT ![Len(frames)].nextValue = 2]
    BY <1>3 DEF BothInfeasible, TryForced
  <2>2. frames # <<>> /\ Top.nextValue > 0
    BY <2>1 DEF DecomposedInv, DecomposedShape, ValuesTried
  <2>3. QED BY <2>1, <2>2 DEF FramesKept
<1>4. CASE SelectFromHeap \/ SelectNext
  <2>1. pc = "hashes" /\ frames # <<>> /\ Top.nextValue > 0
    BY <1>4 DEF SelectFromHeap, SelectNext, RowsDone, DecomposedInv, DecomposedShape, ValuesTried
  <2>2. PICK f : frames' = Append(frames, f) /\ f.nextValue = 0
    <3>1. CASE SelectFromHeap
      <4>1. PICK x, y, v : frames' = Append(frames, Frame(x, y, v))
        BY <3>1 DEF SelectFromHeap
      <4>2. Frame(x, y, v).nextValue = 0
        BY DEF Frame
      <4>3. QED BY <4>1, <4>2
    <3>2. CASE SelectNext
      <4>1. PICK x, y, v : frames' = Append(frames, Frame(x, y, v))
        BY <3>2 DEF SelectNext
      <4>2. Frame(x, y, v).nextValue = 0
        BY DEF Frame
      <4>3. QED BY <4>1, <4>2
    <3>3. QED BY <1>4, <3>1, <3>2
  <2>3. f \in FrameType
    <3>1. frames' \in Seq(FrameType) /\ frames \in Seq(FrameType)
      BY DecomposedBase, DecomposedTypes DEF DecomposedShape
    <3>2. PICK n, s : n \in Nat /\ n = Len(frames) /\ s = Append(frames, f) /\ Len(s) = n + 1 /\ s[n + 1] = f
      <4>1. PICK T : T = FrameType \cup {f}
        OBVIOUS
      <4>2. frames \in Seq(T) /\ f \in T
        BY <3>1, <4>1
      <4>3. Len(frames) \in Nat /\ Len(Append(frames, f)) = Len(frames) + 1 /\ Append(frames, f)[Len(frames) + 1] = f
        BY ONLY <4>2
      <4>4. QED BY <4>3
    <3>3. s \in Seq(FrameType) /\ n + 1 \in 1..Len(s)
      BY <2>2, <3>1, <3>2
    <3>4. s[n + 1] \in FrameType
      BY ONLY <3>3
    <3>5. QED BY <3>2, <3>4
  <2>4. QED BY <2>1, <2>2, <2>3 DEF FramesKept
<1>5. QED BY <1>1, <1>2, <1>3, <1>4 DEF DecomposedNext

\* The marks still count the frames that have tried a value, and stand at their tokens.
LEMMA MarksStay ==
  ASSUME DecomposedInv, FramesKept, locals'.marks = locals.marks
  PROVE  MarksCount' /\ \A i \in 1..Len(locals.marks) : frames'[i].token = frames[i].token
<1>1. PICK n, m \in Nat : n = Len(frames) /\ m = Len(locals.marks)
  BY DecomposedTypes
<1>2. MarksCount /\ frames \in Seq(FrameType)
  BY DecomposedTypes DEF DecomposedInv, SidecarsHold
<1>3. m <= n
  BY <1>1, <1>2 DEF MarksCount
<1>4. CASE frames' = frames
  BY <1>2, <1>4 DEF MarksCount, Top
<1>5. CASE frames # <<>> /\ Top.nextValue > 0 /\ frames' = [frames EXCEPT ![Len(frames)].nextValue = 2]
  <2>1. /\ Len(frames') = n /\ \A i \in 1..(n - 1) : frames'[i] = frames[i]
        /\ frames'[n].token = frames[n].token /\ frames'[n].nextValue = 2
    BY ONLY <1>1, <1>2, <1>5, RetoppedValue, 2 \in 0..2
  <2>2. m = n
    <3>1. Top.nextValue \in 0..2
      BY <1>5, DecomposedTop
    <3>2. QED BY <1>1, <1>2, <1>5, <3>1 DEF MarksCount
  <2>3. Top'.nextValue = 2
    BY <2>1 DEF Top
  <2>4. MarksCount'
    BY <1>1, <2>1, <2>2, <2>3 DEF MarksCount
  <2>5. \A i \in 1..n : i \in 1..(n - 1) \/ i = n
    BY <1>1
  <2>6. \A i \in 1..m : frames'[i].token = frames[i].token
    BY ONLY <2>1, <2>2, <2>5
  <2>7. QED BY <1>1, <2>4, <2>6
<1>6. CASE \E f \in FrameType : f.nextValue = 0 /\ frames' = Append(frames, f) /\ (frames # <<>> => Top.nextValue > 0)
  <2>1. PICK f \in FrameType : f.nextValue = 0 /\ frames' = Append(frames, f) /\ (frames # <<>> => Top.nextValue > 0)
    BY <1>6
  <2>2. /\ Len(frames') = n + 1 /\ \A i \in 1..n : frames'[i] = frames[i]
        /\ frames'[n + 1] = f /\ frames' # <<>>
    BY <1>1, <1>2, <2>1
  <2>3. m = n
    <3>1. frames # <<>> => Top.nextValue \in 0..2
      BY DecomposedTop
    <3>2. QED BY <1>1, <1>2, <2>1, <3>1 DEF MarksCount
  <2>4. Top'.nextValue = 0
    BY <2>1, <2>2 DEF Top
  <2>5. MarksCount'
    BY <1>1, <2>2, <2>3, <2>4 DEF MarksCount
  <2>6. QED BY <1>1, <2>2, <2>3, <2>5
<1>7. QED BY <1>4, <1>5, <1>6 DEF FramesKept

\* Where a propagation has just begun or goes on.
LEMMA WaitingNext ==
  ASSUME DecomposedInv, DecomposedNext, pc' \in Waiting
  PROVE  locals' = locals /\ (forced' = <<>> \/ Propagating)
<1> USE DEF Waiting
<1>1. CASE Start
  <2>1. forced' = <<>> /\ locals' = locals
    <3>1. EngineTypeOK /\ UNCHANGED target /\ Propagate(AllLines)
      BY <1>1 DEF Start, DecomposedInv, Basics, input
    <3>2. QED BY <1>1, <3>1, AllLinesTyped, PropagateTyped DEF Start
  <2>2. QED BY <2>1
<1>2. CASE ProbePropagate \/ TryPropagate \/ CascadePropagate \/ FillPropagate
  <2>1. locals' = locals /\ \E x : TryPropagateCell(x)
    BY <1>2 DEF ProbePropagate, TryPropagate, CascadePropagate, FillPropagate
  <2>2. PICK x : TryPropagateCell(x)
    BY <2>1
  <2>3. forced' = <<>>
    BY <2>2 DEF TryPropagateCell, Propagate
  <2>4. QED BY <2>1, <2>3
<1>3. CASE Propagating
  BY <1>3 DEF Propagating, control
<1>4. CASE \/ InitialInfeasible \/ InitialSolved \/ InitialBranch \/ Undo \/ Pop \/ ProbeZero \/ ProbeOne
           \/ ProbeContradiction \/ ProbeJudge \/ BothInfeasible \/ TryPreferred \/ TryForced \/ TryAlternate
           \/ Contradiction \/ Propagated
  <2>1. pc' \notin Waiting
    BY <1>4 DEF InitialInfeasible, InitialSolved, InitialBranch, Undo, Pop, ProbeZero, ProbeOne, Probe, control,
       ProbeContradiction, ProbeJudge, BothInfeasible, TryPreferred, TryForced, TryAlternate, Contradiction, Propagated
  <2>2. QED BY <2>1
<1>5. CASE \/ Cascade \/ CascadeKnown \/ CascadeCell \/ Cascaded \/ ParityDone \/ CascadeDone
           \/ SkipRow \/ CompletionInfeasible \/ CompleteRow \/ FillKnown \/ FillCell \/ Filled
           \/ FillDone \/ VerifyBlocks \/ HashMismatch \/ SelectFromHeap \/ SelectNext \/ Yield \/ Exhausted
  <2>1. pc' \notin Waiting
    BY <1>5 DEF Cascade, CascadeKnown, CascadeCell, Cascaded, ParityDone, CascadeDone,
       SkipRow, CompletionInfeasible, CompleteRow, FillKnown, FillCell, Filled,
       FillDone, VerifyBlocks, HashMismatch, SelectFromHeap, SelectNext, Yield, Exhausted
  <2>2. QED BY <2>1
<1>6. QED BY <1>1, <1>2, <1>3, <1>4, <1>5 DEF DecomposedNext

\* The recorded wave stays while its forced cells do.
LEMMA ForcedStay ==
  ASSUME DecomposedInv, DecomposedNext PROVE ForcedUncounted'
<1>1. SUFFICES ASSUME pc' \in Waiting PROVE ForcedUncounted'
  BY DEF ForcedUncounted
<1>2. locals' = locals
  BY <1>1, WaitingNext
<1>3. CASE forced' = <<>>
  BY <1>3 DEF ForcedUncounted
<1>4. CASE Propagating
  <2>1. pc \in Waiting /\ EngineStep /\ EngineTypeOK
    BY <1>1, <1>4 DEF Propagating, control, DecomposedInv, Basics
  <2>2. ForcedUncounted /\ LogsHold
    BY DEF DecomposedInv, SidecarsHold
  <2>3. CASE forced' = forced
    BY <1>2, <2>1, <2>2, <2>3 DEF ForcedUncounted, Log
  <2>4. CASE forced' # forced
    <3>1. ForceCell
      BY <2>1, <2>4 DEF EngineStep, PopViolated, PopLine, Quiesce
    <3>2. PICK x \in Cells : cells[x] = Unassigned /\ forced' = Append(forced, x)
      BY <2>1, <3>1, ForcedCell
    <3>3. \A q \in 1..Len(forced') : (q \in 1..Len(forced) /\ forced'[q] = forced[q]) \/ forced'[q] = x
      <4>1. forced \in Seq(Cells)
        BY DecomposedTypes
      <4>2. QED BY <3>2, <4>1
    <3>4. ASSUME NEW kind \in Kinds, NEW k \in 1..Len(Log(kind)) PROVE Log(kind)[k][1] # x
      <4>1. Sound(cells, Log(kind), Len(Log(kind)))
        BY <2>1, <2>2 DEF LogsHold, Unmarked, Waiting
      <4>2. Log(kind)[k][2] \in {0, 1}
        BY DecomposedTypes DEF LogType
      <4>3. QED BY <3>2, <4>1, <4>2 DEF Sound, Unassigned
    <3>5. ASSUME NEW kind \in Kinds, NEW k \in 1..Len(Log(kind)), NEW q \in 1..Len(forced')
          PROVE  Log(kind)[k][1] # forced'[q]
      <4>1. CASE q \in 1..Len(forced) /\ forced'[q] = forced[q]
        BY <2>1, <2>2, <4>1 DEF ForcedUncounted
      <4>2. CASE forced'[q] = x
        BY <3>4, <4>2
      <4>3. QED BY <3>3, <4>1, <4>2
    <3>6. \A kind \in Kinds : Log(kind)' = Log(kind)
      BY <1>2 DEF Log
    <3>7. QED BY <3>5, <3>6 DEF ForcedUncounted
  <2>5. QED BY <2>3, <2>4
<1>5. QED BY <1>1, <1>3, <1>4, WaitingNext

\* The steps in which no mark moves and nothing is taken back.
Onward == DecomposedNext /\ ~(InitialBranch \/ Undo \/ Pop \/ ProbeZero \/ TryAlternate)

Counts == Propagated \/ CascadeCell \/ Cascaded \/ ParityDone \/ VerifyBlocks

LEMMA OnwardUnmarked == ASSUME DecomposedInv, Onward PROVE Unmarked
<1>1. CASE pc # "loop"
  BY <1>1 DEF Unmarked
<1>2. CASE pc = "loop"
  <2>1. ~Propagating
    BY <1>2 DEF Propagating, EngineStep, PopViolated, PopLine, ForceCell, Quiesce, DecomposedInv, DecomposedShape, Waiting
  <2>2. Exhausted
    <3>1. ~(\/ Start \/ InitialInfeasible \/ InitialSolved \/ ProbeOne \/ ProbePropagate \/ ProbeContradiction
            \/ ProbeJudge \/ BothInfeasible \/ TryPreferred \/ TryForced \/ TryPropagate \/ Contradiction \/ Propagated)
      BY <1>2 DEF Start, InitialInfeasible, InitialSolved, ProbeOne, ProbePropagate, ProbeContradiction,
         ProbeJudge, BothInfeasible, TryPreferred, TryForced, TryPropagate, Contradiction, Propagated
    <3>2. ~(\/ Cascade \/ CascadeKnown \/ CascadeCell \/ CascadePropagate \/ Cascaded \/ ParityDone \/ CascadeDone
            \/ SkipRow \/ CompletionInfeasible \/ CompleteRow \/ FillKnown \/ FillCell \/ FillPropagate \/ Filled
            \/ FillDone \/ VerifyBlocks \/ HashMismatch \/ SelectFromHeap \/ SelectNext \/ Yield)
      BY <1>2 DEF Cascade, CascadeKnown, CascadeCell, CascadePropagate, Cascaded, ParityDone, CascadeDone,
         SkipRow, CompletionInfeasible, CompleteRow, FillKnown, FillCell, FillPropagate, Filled,
         FillDone, VerifyBlocks, HashMismatch, SelectFromHeap, SelectNext, Yield, RowsDone
    <3>3. QED BY <2>1, <3>1, <3>2 DEF Onward, DecomposedNext
  <2>3. QED BY <2>2 DEF Exhausted, Unmarked
<1>3. QED BY <1>1, <1>2

\* Which log grows.
LEMMA OnwardEntered ==
  ASSUME DecomposedInv, Onward
  PROVE  /\ \A kind \in Kinds : Entered(kind)
         /\ ~Counts => locals'.counted = locals.counted
         /\ Propagated => \A kind \in Kinds : kind # "parity" => Log(kind)' = Log(kind)
         /\ CascadeCell \/ Cascaded => \A kind \in Kinds : kind # call.kind => Log(kind)' = Log(kind)
         /\ ParityDone => \A kind \in Kinds : kind # "sums" => Log(kind)' = Log(kind)
<1>1. CASE ~Counts
  <2>1. locals'.counted = locals.counted
    BY <1>1, DecomposedLocalsStep DEF Counts, Onward
  <2>2. QED BY <1>1, <2>1 DEF Entered, Counts
<1>2. CASE Counts
  <2>1. PICK which \in Kinds, entries \in LogType :
           /\ locals' = Counting(locals, which, entries) /\ NewEntries(which, entries)
           /\ Propagated => which = "parity"
           /\ CascadeCell \/ Cascaded => which = call.kind
           /\ ParityDone => which = "sums"
    BY <1>2, CountedWhat DEF Counts
  <2>2. locals \in DecomposedLocals
    BY DEF DecomposedInv
  <2>3. \A k \in Kinds : locals'.counted[k] = IF k = which /\ Loaded(which) THEN locals.counted[k] \o entries ELSE locals.counted[k]
    BY ONLY <2>1, <2>2, CountingTyped, which \in Kinds, entries \in LogType
  <2>4. \A kind \in Kinds : Entered(kind)
    <3>1. ASSUME NEW kind \in Kinds, kind = which /\ Loaded(which) PROVE Entered(kind)
      <4>1. locals'.counted[kind] = locals.counted[kind] \o entries
        BY <2>3, <3>1
      <4>2. NewEntries(kind, entries)
        BY <2>1, <3>1
      <4>3. QED BY ONLY <4>1, <4>2, entries \in LogType DEF Entered, NewEntries
    <3>2. ASSUME NEW kind \in Kinds, ~(kind = which /\ Loaded(which)) PROVE Entered(kind)
      <4>1. locals'.counted[kind] = locals.counted[kind]
        BY <2>3, <3>2
      <4>2. QED BY ONLY <4>1 DEF Entered
    <3>3. QED BY <3>1, <3>2
  <2>5. \A kind \in Kinds : kind # which => Log(kind)' = Log(kind)
    BY <2>3 DEF Log
  <2>6. QED BY <1>2, <2>1, <2>4, <2>5
<1>3. QED BY <1>1, <1>2

LEMMA OnwardLogs ==
  ASSUME DecomposedInv, Onward
  PROVE  LogsHold' /\ MarksCount' /\ MarksHold(locals.marks, locals.counted, cells, frames, undoStack)'
<1>1. Unmarked
  BY OnwardUnmarked
<1>2. locals'.marks = locals.marks /\ FramesKept
  BY DecomposedLocalsStep, FramesKeptStep DEF Onward
<1>3. MarksCount' /\ \A i \in 1..Len(locals.marks) : frames'[i].token = frames[i].token
  BY <1>2, MarksStay
<1>4. \A kind \in Kinds : Entered(kind)
  BY OnwardEntered
<1>5. Extends(cells, cells') /\ NewOnStack
  BY <1>1, DecomposedExtends DEF Onward
<1>6. undoStack' \in Seq(Cells)
  BY DecomposedBase DEF Onward, Basics, BranchingTypeOK
<1>7. QED BY ONLY <1>1, <1>2, <1>3, <1>4, <1>5, <1>6, DecomposedInv, LogsForward

LEMMA OnwardNotCounted == ASSUME DecomposedInv, Onward PROVE NotCounted'
<1> USE DEF ProbeAt, SidecarAt, CompleteAt, FillAt
<1>0. NotCounted /\ locals'.marks = locals.marks
  BY DecomposedLocalsStep DEF DecomposedInv, SidecarsHold, Onward
<1>1. CASE \/ Start \/ InitialInfeasible \/ InitialSolved \/ BothInfeasible \/ Contradiction \/ CompletionInfeasible
           \/ VerifyBlocks \/ HashMismatch \/ SelectFromHeap \/ SelectNext \/ Yield \/ Exhausted
  <2>1. pc' \in {"initial", "ended", "loop", "hashes"}
    BY <1>1 DEF Start, InitialInfeasible, InitialSolved, BothInfeasible, Contradiction, CompletionInfeasible,
       VerifyBlocks, HashMismatch, SelectFromHeap, SelectNext, Yield, Exhausted
  <2>2. QED BY <2>1 DEF NotCounted
<1>2. CASE \/ ProbeOne \/ ProbePropagate \/ ProbeContradiction \/ ProbeJudge \/ TryPreferred \/ TryForced \/ TryPropagate
           \/ CascadePropagate \/ CascadeDone \/ SkipRow \/ CompleteRow
           \/ FillKnown \/ FillCell \/ FillPropagate \/ Filled \/ FillDone \/ Propagating
  <2>1. locals'.counted = locals.counted
    <3>1. ~Counts
      <4>1. CASE \/ ProbeOne \/ ProbePropagate \/ ProbeContradiction \/ ProbeJudge \/ TryPreferred \/ TryForced \/ TryPropagate
                 \/ CascadePropagate \/ FillKnown \/ FillCell \/ FillPropagate \/ Filled \/ FillDone
        BY <4>1 DEF Counts, Propagated, CascadeCell, Cascaded, ParityDone, VerifyBlocks, ProbeOne, ProbePropagate, Probe,
           ProbeContradiction, ProbeJudge, TryPreferred, TryForced, TryPropagate, CascadePropagate,
           FillKnown, FillCell, FillPropagate, Filled, FillDone
      <4>2. CASE CascadeDone
        BY <4>2 DEF Counts, Propagated, CascadeCell, Cascaded, ParityDone, VerifyBlocks, CascadeDone
      <4>3. CASE SkipRow \/ CompleteRow
        <5>1. pc = "complete" /\ call.at <= Len(call.memory)
          BY <4>3 DEF SkipRow, CompleteRow
        <5>2. call \in CompleteCall
          BY <5>1 DEF DecomposedInv, CallTyped
        <5>3. call.at \in Nat /\ Len(call.memory) \in Nat
          BY <5>2 DEF CompleteCall
        <5>4. ~(call.at > Len(call.memory))
          BY ONLY <5>1, <5>3
        <5>5. QED BY <5>1, <5>4 DEF Counts, Propagated, CascadeCell, Cascaded, ParityDone, VerifyBlocks
      <4>4. CASE Propagating
        <5>1. pc \in Waiting /\ pc' = pc /\ locals' = locals /\ prop = "run"
          BY <4>4 DEF Propagating, EngineStep, PopViolated, PopLine, ForceCell, Quiesce, DecomposedInv, DecomposedShape, control
        <5>2. QED BY <5>1 DEF Counts, Propagated, CascadeCell, Cascaded, ParityDone, VerifyBlocks, Waiting
      <4>5. QED BY <1>2, <4>1, <4>2, <4>3, <4>4
    <3>2. QED BY <3>1, OnwardEntered
  <2>2. Len(frames') = Len(frames)
    <3>1. CASE TryForced
      BY <3>1, DecomposedTypes DEF TryForced
    <3>2. CASE ~TryForced
      BY <1>2, <3>2 DEF ProbeOne, ProbePropagate, ProbeContradiction, ProbeJudge, TryPreferred, TryPropagate,
         CascadePropagate, CascadeDone, SkipRow, CompleteRow, FillKnown, FillCell, FillPropagate, Filled,
         FillDone, Propagating, control
    <3>3. QED BY <3>1, <3>2
  <2>3. /\ pc' \in ProbeAt \cup {"try", "result"} => pc \in ProbeAt \cup {"try", "result"}
        /\ pc' \in SidecarAt => pc \in SidecarAt /\ call'.kind = call.kind
        /\ pc' \in CompleteAt => pc \in CompleteAt \cup SidecarAt
    BY <1>2 DEF ProbeOne, ProbePropagate, Probe, ProbeContradiction, ProbeJudge, TryPreferred, TryForced, TryPropagate,
       CascadePropagate, CascadeDone, SkipRow, CompleteRow, FillKnown, FillCell, FillPropagate, Filled,
       FillDone, Propagating, control
  <2>4. QED BY ONLY <1>0, <2>1, <2>2, <2>3, QuietNotes
<1>3. CASE Cascade \/ CascadeKnown \/ CascadeCell \/ Cascaded
  <2>1. /\ pc \in SidecarAt /\ pc' \in SidecarAt /\ frames' = frames
    BY <1>3 DEF Cascade, CascadeKnown, CascadeCell, Cascaded
  <2>2. call \in SidecarCall
    BY <2>1 DEF DecomposedInv, CallTyped
  <2>3. call'.kind = call.kind
    BY <1>3, <2>2 DEF Cascade, CascadeKnown, CascadeCell, Cascaded, SidecarCall
  <2>4. call.kind \in {"parity", "sums"}
    BY <2>2 DEF SidecarCall
  <2>5. \A kind \in Kinds : kind # call.kind => Log(kind)' = Log(kind)
    <3>1. CASE CascadeCell \/ Cascaded
      BY <3>1, OnwardEntered
    <3>2. CASE Cascade \/ CascadeKnown
      BY <3>2 DEF Cascade, CascadeKnown, Log
    <3>3. QED BY <1>3, <3>1, <3>2
  <2>6. Log("blocks")' = Log("blocks") /\ (call.kind = "parity" => Log("sums")' = Log("sums"))
    BY <2>4, <2>5 DEF Kinds
  <2>7. AtMark("blocks") /\ (call.kind = "parity" => AtMark("sums"))
    BY <1>0, <2>1 DEF NotCounted
  <2>8. pc' \notin {"probe", "probed", "unprobe", "try", "result", "complete", "fill", "fillPropagate", "filled"}
    BY <2>1
  <2>9. QED BY ONLY <1>0, <2>1, <2>3, <2>6, <2>7, <2>8 DEF NotCounted, AtMark, ProbeAt, SidecarAt, CompleteAt, FillAt
<1>4. CASE Propagated
  <2>1. pc = "result" /\ pc' = "sidecar" /\ frames' = frames
    BY <1>4 DEF Propagated
  <2>2. Log("blocks")' = Log("blocks") /\ Log("sums")' = Log("sums")
    BY <1>4, OnwardEntered DEF Kinds
  <2>3. AtMark("blocks") /\ AtMark("sums")
    BY <1>0, <2>1 DEF NotCounted, Kinds
  <2>4. QED BY ONLY <1>0, <2>1, <2>2, <2>3 DEF NotCounted, AtMark, ProbeAt, SidecarAt, CompleteAt, FillAt
<1>5. CASE ParityDone
  <2>1. pc = "sidecar" /\ pc' = "sidecar" /\ frames' = frames
    BY <1>5 DEF ParityDone
  <2>2. call'.kind = "sums"
    <3>1. call \in SidecarCall
      BY <2>1 DEF DecomposedInv, CallTyped
    <3>2. QED BY <1>5, <3>1 DEF ParityDone, SidecarCall
  <2>3. Log("blocks")' = Log("blocks")
    BY <1>5, OnwardEntered DEF Kinds
  <2>4. AtMark("blocks")
    BY <1>0, <2>1 DEF NotCounted
  <2>5. QED BY ONLY <1>0, <2>1, <2>2, <2>3, <2>4 DEF NotCounted, AtMark, ProbeAt, SidecarAt, CompleteAt, FillAt
<1>6. QED BY <1>1, <1>2, <1>3, <1>4, <1>5 DEF Onward, DecomposedNext

LEMMA OnwardWave == ASSUME DecomposedInv, Onward PROVE WaveRecorded'
<1>1. CASE Propagated \/ Cascaded \/ Filled
  <2>1. pc \in Waiting /\ RecordForced /\ frames' = frames /\ forced' = forced /\ ~Backing
    BY <1>1 DEF Propagated, Cascaded, Filled, Waiting, Backing, engine
  <2>2. frames # <<>>
    BY <1>1 DEF Propagated, Cascaded, Filled, DecomposedInv, DecomposedShape
  <2>3. QED BY <2>1, <2>2, WaveNotes
<1>2. CASE Cascade \/ CascadeKnown \/ ParityDone \/ CascadeDone \/ SkipRow \/ CompleteRow \/ FillKnown \/ FillDone
  <2>1. /\ pc \in {"sidecar", "complete", "fill"} /\ undoStack' = undoStack /\ frames' = frames /\ forced' = forced /\ ~Backing
    BY <1>2 DEF Cascade, CascadeKnown, ParityDone, CascadeDone, SkipRow, CompleteRow, FillKnown, FillDone, Backing, engine, brancher
  <2>2. frames # <<>> /\ WaveRecorded
    BY <2>1 DEF DecomposedInv, DecomposedShape, SidecarsHold
  <2>3. QED BY ONLY <2>1, <2>2, DecomposedInv, WaveNotes
<1>3. CASE \/ Start \/ InitialInfeasible \/ InitialSolved \/ ProbeOne \/ ProbePropagate \/ ProbeContradiction
           \/ ProbeJudge \/ BothInfeasible \/ TryPreferred \/ TryForced \/ TryPropagate \/ Contradiction
           \/ CascadeCell \/ CascadePropagate \/ CompletionInfeasible \/ FillCell \/ FillPropagate
           \/ VerifyBlocks \/ HashMismatch \/ SelectFromHeap \/ SelectNext \/ Yield \/ Exhausted \/ Propagating
  <2>1. pc' \notin {"sidecar", "complete", "fill"}
    <3>1. CASE Propagating
      BY <3>1 DEF Propagating, EngineStep, PopViolated, PopLine, ForceCell, Quiesce, DecomposedInv, DecomposedShape, Waiting, control
    <3>2. CASE ~Propagating
      BY <1>3, <3>2 DEF Start, InitialInfeasible, InitialSolved, ProbeOne, Probe, ProbePropagate, ProbeContradiction,
         ProbeJudge, BothInfeasible, TryPreferred, TryForced, TryPropagate, Contradiction,
         CascadeCell, CascadePropagate, CompletionInfeasible, FillCell, FillPropagate,
         VerifyBlocks, HashMismatch, SelectFromHeap, SelectNext, Yield, Exhausted
    <3>3. QED BY <3>1, <3>2
  <2>2. QED BY <2>1 DEF WaveRecorded
<1>4. QED BY <1>1, <1>2, <1>3 DEF Onward, DecomposedNext

\* The sidecars' part, for a step that tries a value.
LEMMA OnwardSidecars == ASSUME DecomposedInv, Onward PROVE SidecarsHold'
<1>1. DecomposedNext
  BY DEF Onward
<1>2. ForcedUncounted'
  BY <1>1, ForcedStay
<1>3. QED BY <1>2, OnwardLogs, OnwardNotCounted, OnwardWave DEF SidecarsHold

\* For the first frame, with what is counted at loading.
LEMMA LoadedSidecars == ASSUME DecomposedInv, InitialBranch PROVE SidecarsHold'
<1>0. /\ pc = "initial" /\ pc' = "loop" /\ frames = <<>> /\ cells' = cells /\ locals'.marks = locals.marks
      /\ StoreTypeOK /\ DecomposedNext
  BY DecomposedTypes, DecomposedLocalsStep DEF InitialBranch, DecomposedInv, DecomposedShape, store, DecomposedNext
<1>1. Len(locals.marks) = 0
  BY <1>0 DEF DecomposedInv, SidecarsHold, MarksCount
<1>2. Len(frames') = 1 /\ frames' # <<>> /\ Top'.nextValue = 0
  BY DEF InitialBranch, Frame, Top
<1>3. PICK xs \in Seq({x \in Cells : cells[x] # Unassigned}) :
        /\ NoRepeats(xs) /\ \A kind \in Kinds : CountedAtLoad[kind] = IF Loaded(kind) THEN Entries(xs) ELSE <<>>
  BY <1>0, LoadTyped
<1>4. xs \in Seq(Cells) /\ \A i \in 1..Len(xs) : cells[xs[i]] # Unassigned
  <2>1. PICK T : T = {x \in Cells : cells[x] # Unassigned}
    OBVIOUS
  <2>2. xs \in Seq(T) /\ \A x \in T : x \in Cells /\ cells[x] # Unassigned
    BY <2>1
  <2>3. QED BY <2>2
<1>5. /\ Len(Entries(xs)) = Len(xs) /\ \A i \in 1..Len(xs) : Entries(xs)[i] = <<xs[i], cells[xs[i]]>>
  BY ONLY <1>0, <1>4, EntriesTyped
<1>6. \A i \in 1..Len(xs) : Entries(xs)[i][1] = xs[i] /\ Entries(xs)[i][2] = cells[xs[i]]
  BY <1>5
<1>7. Distinct(Entries(xs)) /\ Sound(cells, Entries(xs), Len(Entries(xs)))
  BY ONLY <1>3, <1>5, <1>6 DEF Distinct, Sound, NoRepeats
<1>8. Distinct(<<>>) /\ Sound(cells, <<>>, Len(<<>>))
  BY DEF Distinct, Sound
<1>9. \A kind \in Kinds : Log(kind)' = Entries(xs) \/ Log(kind)' = <<>>
  <2>1. locals'.counted = CountedAtLoad
    <3>1. locals \in DecomposedLocals
      BY DEF DecomposedInv
    <3>2. PICK h, g : h = Pushed(locals.rowHeap, AllRows) /\ g = CountedAtLoad
      OBVIOUS
    <3>3. locals' = [locals EXCEPT !.rowHeap = h, !.counted = g]
      BY <3>2 DEF InitialBranch
    <3>4. QED BY ONLY <3>1, <3>2, <3>3 DEF DecomposedLocals
  <2>2. QED BY <1>3, <2>1 DEF Log
<1>10. LogsHold'
  BY ONLY <1>0, <1>7, <1>8, <1>9 DEF LogsHold
<1>11. MarksHold(locals.marks, locals.counted, cells, frames, undoStack)'
  BY <1>0, <1>1 DEF MarksHold
<1>12. MarksCount'
  BY <1>0, <1>1, <1>2 DEF MarksCount
<1>13. NotCounted' /\ WaveRecorded'
  BY <1>0 DEF NotCounted, WaveRecorded, ProbeAt, SidecarAt, CompleteAt, FillAt
<1>14. QED BY <1>0, <1>10, <1>11, <1>12, <1>13, ForcedStay DEF SidecarsHold

\* What stands before a mark is not taken back with what stands above it.
LEMMA UndoneSidecars == ASSUME DecomposedInv, Undo PROVE SidecarsHold'
<1>0. /\ pc \in {"loop", "unprobe"} /\ frames # <<>> /\ ~Undone /\ UndoLast /\ (pc = "loop" => Top.nextValue > 0)
      /\ pc' = pc /\ frames' = frames /\ locals' = locals /\ call' = call /\ DecomposedNext
  BY DEF Undo, control, DecomposedNext
<1>1. /\ undoStack \in Seq(Cells) /\ Len(undoStack) \in Nat /\ Top.token \in Nat /\ StoreTypeOK /\ Top.nextValue \in 0..2
      /\ Len(frames) \in Nat /\ Len(locals.marks) \in Nat /\ Len(frames) \in 1..Len(frames)
  BY <1>0, DecomposedTypes, DecomposedTop
<1>2. Top.nextValue > 0 /\ ~FreshTop /\ Backing
  BY <1>0, <1>1 DEF DecomposedInv, ValuesTried, FreshTop, Backing
<1>3. undoStack # <<>> /\ Top.token < Len(undoStack) /\ Len(undoStack) \in 1..Len(undoStack)
  BY <1>0, <1>1 DEF Undone
<1>4. PICK x \in Cells : /\ x = undoStack[Len(undoStack)] /\ \A y \in Cells \ {x} : cells'[y] = cells[y]
                         /\ undoStack' = SubSeq(undoStack, 1, Len(undoStack) - 1)
  <2>1. PICK x \in Cells : x = undoStack[Len(undoStack)] /\ Unassign(x)
    BY <1>0, <1>1, <1>3 DEF UndoLast
  <2>2. \A y \in Cells \ {x} : cells'[y] = cells[y]
    BY ONLY <1>1, <2>1, UnassignEffect, x \in Cells
  <2>3. QED BY <1>0, <2>1, <2>2 DEF UndoLast
<1>5. Len(undoStack') = Len(undoStack) - 1 /\ \A p \in 1..(Len(undoStack) - 1) : undoStack'[p] = undoStack[p]
  BY ONLY <1>1, <1>3, <1>4, ButLast
<1>6. MarksHold(locals.marks, locals.counted, cells, frames, undoStack) /\ NotCounted /\ MarksCount /\ LogsHold
  BY DEF DecomposedInv, SidecarsHold
<1>7. Len(locals.marks) = Len(frames)
  <2>1. ~(frames # <<>> /\ Top.nextValue = 0)
    BY ONLY <1>1, <1>2
  <2>2. Len(locals.marks) = Len(frames) - 0
    BY ONLY <1>6, <2>1 DEF MarksCount
  <2>3. QED BY ONLY <1>1, <2>2
<1>8. \A i \in 1..Len(frames) : frames[i].token < Len(undoStack)
  <2>1. TopBacking
    BY <1>0, <1>2 DEF DecomposedInv, FramesHold
  <2>2. \A i \in 1..Len(frames) : i \in 1..(Len(frames) - 1) \/ i = Len(frames)
    BY <1>1
  <2>3. \A i \in 1..Len(frames) : frames[i].token \in Nat
    BY DecomposedTypes DEF FramesPlain
  <2>4. \A i \in 1..(Len(frames) - 1) : frames[i].token < Top.token
    BY <2>1 DEF TopBacking
  <2>5. Top = frames[Len(frames)]
    BY DEF Top
  <2>6. \A i \in 1..Len(frames) : i \in 1..(Len(frames) - 1) => frames[i].token < Len(undoStack)
    BY ONLY <1>1, <1>3, <2>3, <2>4
  <2>7. QED BY ONLY <1>3, <2>2, <2>5, <2>6
<1>9. PICK m, g, c, f, s, c2, s2 : /\ m = locals.marks /\ g = locals.counted /\ c = cells /\ f = frames /\ s = undoStack
                                   /\ c2 = cells' /\ s2 = undoStack'
  OBVIOUS
<1>10. MarksHold(m, g, c2, f, s2)
  <2>1. MarksHold(m, g, c, f, s) /\ Len(m) \in Nat /\ Len(s) \in Nat /\ Len(m) \in 0..Len(m)
    BY <1>1, <1>6, <1>9
  <2>2. \A i \in 1..Len(m) : m[i] = m[i] /\ f[i].token = f[i].token
    OBVIOUS
  <2>3. ASSUME NEW i \in 1..Len(m), NEW kind \in Kinds
        PROVE  /\ m[i][kind] <= Len(g[kind])
               /\ \A k \in 1..m[i][kind] : g[kind][k] = g[kind][k] /\ c2[g[kind][k][1]] = c[g[kind][k][1]]
    <3>1. m[i][kind] <= Len(g[kind]) /\ \A k \in 1..m[i][kind], p \in 1..Len(s) : f[i].token < p => s[p] # g[kind][k][1]
      BY <2>1 DEF MarksHold
    <3>2. f[i].token < Len(s) /\ Len(s) \in 1..Len(s)
      BY <1>3, <1>7, <1>8, <1>9
    <3>3. \A k \in 1..m[i][kind] : g[kind][k][1] # x
      BY <1>4, <1>9, <3>1, <3>2
    <3>4. \A k \in 1..m[i][kind] : g[kind][k][1] \in Cells
      <4>1. g[kind] \in LogType /\ m[i][kind] \in Nat
        <5>1. m[i] \in [Kinds -> Nat]
          BY <1>9, DecomposedTypes
        <5>2. QED BY <1>9, <5>1, DecomposedTypes
      <4>2. \A k \in 1..m[i][kind] : k \in 1..Len(g[kind])
        BY <3>1, <4>1 DEF LogType
      <4>3. \A k \in 1..Len(g[kind]) : g[kind][k] \in Cells \X {0, 1}
        BY ONLY <4>1 DEF LogType
      <4>4. QED BY <4>2, <4>3
    <3>5. QED BY <1>4, <1>9, <3>1, <3>3, <3>4
  <2>4. \A p \in 1..Len(s2) :
           \/ p \in 1..Len(s) /\ s2[p] = s[p]
           \/ \A i \in 1..Len(m), kind \in Kinds : \A k \in 1..m[i][kind] : s2[p] # g[kind][k][1]
    BY <1>1, <1>5, <1>9
  <2>5. QED BY ONLY <2>1, <2>2, <2>3, <2>4, MarksMove
<1>11. MarksHold(locals.marks, locals.counted, cells, frames, undoStack)'
  BY ONLY <1>0, <1>9, <1>10
<1>12. LogsHold'
  <2>1. \A kind \in Kinds : Distinct(Log(kind)) /\ Log(kind)' = Log(kind)
    BY <1>0, <1>6 DEF LogsHold, Log
  <2>2. CASE pc = "loop"
    <3>1. ~Unmarked'
      BY <1>0, <1>2, <2>2 DEF Unmarked, FreshTop, Top
    <3>2. QED BY <2>1, <3>1 DEF LogsHold
  <2>3. CASE pc = "unprobe"
    <3>1. \A kind \in Kinds : AtMark(kind)
      BY <1>6, <2>3 DEF NotCounted, ProbeAt
    <3>2. \A kind \in Kinds : Sound(c2, g[kind], m[Len(frames)][kind])
      BY <1>1, <1>7, <1>9, <1>10 DEF MarksHold
    <3>3. \A kind \in Kinds : Sound(cells', Log(kind), Len(Log(kind)))
      BY <1>9, <3>1, <3>2 DEF AtMark, Log
    <3>4. QED BY <2>1, <3>3 DEF LogsHold
  <2>4. QED BY <1>0, <2>2, <2>3
<1>13. MarksCount' /\ NotCounted'
  BY <1>0, <1>6 DEF MarksCount, NotCounted, AtMark, Log, Top
<1>14. WaveRecorded'
  BY <1>0 DEF WaveRecorded
<1>15. QED BY <1>0, <1>11, <1>12, <1>13, <1>14, ForcedStay DEF SidecarsHold

\* For a frame that is closed, its part of the log undone with it.
LEMMA PoppedSidecars == ASSUME DecomposedInv, Pop PROVE SidecarsHold'
<1>0. /\ pc = "loop" /\ pc' = "loop" /\ frames # <<>> /\ Top.nextValue > 0 /\ locals' = Unwound(locals)
      /\ frames' = SubSeq(frames, 1, Len(frames) - 1) /\ cells' = cells /\ undoStack' = undoStack /\ DecomposedNext
  BY DEF Pop, store, brancher, DecomposedNext
<1>1. PICK l : l = Unwound(locals)
  OBVIOUS
<1>2. /\ l \in DecomposedLocals /\ Len(l.marks) = Len(frames) - 1
      /\ MarksHold(l.marks, l.counted, cells, frames, undoStack)
      /\ \A kind \in Kinds : Distinct(l.counted[kind]) /\ Sound(cells, l.counted[kind], Len(l.counted[kind]))
  BY <1>0, <1>1, UnwoundHolds
<1>3. PICK n \in Nat : n = Len(frames) /\ n \in 1..n
  BY <1>0, DecomposedTop, DecomposedTypes
<1>4. Len(frames') = n - 1 /\ \A i \in 1..(n - 1) : frames'[i] = frames[i]
  <2>1. frames \in Seq(FrameType)
    BY DecomposedTypes
  <2>2. QED BY ONLY <1>0, <1>3, <2>1, ButLast
<1>5. locals' = l
  BY <1>0, <1>1
<1>6. LogsHold'
  BY <1>0, <1>2, <1>5 DEF LogsHold, Log
<1>7. MarksHold(l.marks, l.counted, cells, frames', undoStack)
  BY ONLY <1>2, <1>3, <1>4 DEF MarksHold
<1>8. MarksHold(locals.marks, locals.counted, cells, frames, undoStack)'
  BY ONLY <1>0, <1>5, <1>7
<1>9. MarksCount'
  <2>1. \A i \in 1..(n - 1) : frames[i].nextValue > 0 /\ frames[i].nextValue \in 0..2
    <3>1. frames \in Seq(FrameType)
      BY DecomposedTypes
    <3>2. \A i \in 1..(n - 1) : frames[i] \in FrameType
      BY <1>3, <3>1
    <3>3. QED BY <1>3, <3>2 DEF DecomposedInv, ValuesTried, FrameType
  <2>2. frames' # <<>> => Len(frames') \in 1..(n - 1)
    <3>1. frames' \in Seq(FrameType)
      BY <1>0, DecomposedBase DEF DecomposedShape
    <3>2. QED BY <1>3, <1>4, <3>1
  <2>3. frames' # <<>> => Top'.nextValue # 0
    BY <1>4, <2>1, <2>2 DEF Top
  <2>4. ~(frames' # <<>> /\ Top'.nextValue = 0)
    BY <2>3
  <2>5. Len(locals'.marks) = n - 1 /\ Len(frames') = n - 1
    BY ONLY <1>2, <1>3, <1>4, <1>5
  <2>6. Len(locals'.marks) = Len(frames') - 0
    BY ONLY <1>3, <2>5
  <2>7. QED BY ONLY <2>4, <2>6 DEF MarksCount
<1>10. NotCounted' /\ WaveRecorded'
  BY <1>0 DEF NotCounted, WaveRecorded, ProbeAt, SidecarAt, CompleteAt, FillAt
<1>11. QED BY <1>0, <1>6, <1>8, <1>9, <1>10, ForcedStay DEF SidecarsHold

\* The notes after a mark was placed.
LEMMA PlacedSidecars ==
  ASSUME DecomposedInv, DecomposedNext, frames # <<>>, pc' \in {"probe", "try"}, Top'.nextValue # 0, frames' # <<>>,
         LogsHold', MarksHold(locals.marks, locals.counted, cells, frames, undoStack)',
         Len(locals'.marks) = Len(frames'), Len(frames') \in Nat, \A kind \in Kinds : AtMark(kind)'
  PROVE  SidecarsHold'
<1>1. MarksCount'
  BY DEF MarksCount
<1>2. NotCounted' /\ WaveRecorded'
  BY DEF NotCounted, WaveRecorded, ProbeAt, SidecarAt, CompleteAt, FillAt
<1>3. QED BY <1>1, <1>2, ForcedStay DEF SidecarsHold

\* For the first value of a frame.
LEMMA ProbedSidecars == ASSUME DecomposedInv, ProbeZero PROVE SidecarsHold'
<1>0. /\ pc = "loop" /\ pc' = "probe" /\ frames # <<>> /\ Top.nextValue = 0 /\ locals' = Marked(locals)
      /\ AssignAndRecord(Top.cell, 0) /\ FreshTop /\ DecomposedNext
      /\ frames' = [frames EXCEPT ![Len(frames)].nextValue = 1, ![Len(frames)].token = Len(undoStack)]
  BY DEF ProbeZero, Probe, DecomposedNext, FreshTop, DecomposedInv
<1>1. /\ StoreTypeOK /\ undoStack \in Seq(Cells) /\ Len(frames) \in 1..Len(frames) /\ Len(frames) \in Nat
      /\ Len(undoStack) \in Nat /\ frames \in Seq(FrameType) /\ Top.cell \in Cells
  BY <1>0, DecomposedTypes, DecomposedTop
<1>2. /\ Len(frames') = Len(frames) /\ \A i \in 1..(Len(frames) - 1) : frames'[i] = frames[i]
      /\ frames'[Len(frames)].token = Len(undoStack) /\ frames'[Len(frames)].nextValue = 1
  BY ONLY <1>0, <1>1, RetoppedBoth, 1 \in 0..2
<1>3. Top'.token = Len(undoStack) /\ Top'.nextValue = 1 /\ frames' # <<>>
  BY <1>1, <1>2 DEF Top
<1>4. PICK l \in DecomposedLocals : l = locals
  BY DEF DecomposedInv
<1>5. /\ Len(l.marks) = Len(frames) - 1 /\ MarksHold(l.marks, l.counted, cells, frames, undoStack)
      /\ \A kind \in Kinds : Distinct(l.counted[kind]) /\ Sound(cells, l.counted[kind], Len(l.counted[kind]))
  BY <1>0, <1>4 DEF DecomposedInv, SidecarsHold, MarksCount, LogsHold, Log, Unmarked
<1>6. cells[Top.cell] = Unassigned
  BY <1>0 DEF DecomposedInv, FramesHold
<1>7. locals' = Marked(l)
  BY <1>0, <1>4
<1>8. /\ LogsHold' /\ MarksHold(locals.marks, locals.counted, cells, frames, undoStack)'
      /\ Len(locals'.marks) = Len(frames') /\ \A kind \in Kinds : AtMark(kind)'
  BY ONLY <1>0, <1>1, <1>2, <1>3, <1>5, <1>6, <1>7, MarkPlaced, l \in DecomposedLocals, 0 \in {0, 1}
<1>9. QED BY <1>0, <1>1, <1>2, <1>3, <1>8, PlacedSidecars

\* For its second value.
LEMMA AlternateSidecars == ASSUME DecomposedInv, TryAlternate PROVE SidecarsHold'
<1>0. /\ pc = "loop" /\ pc' = "try" /\ frames # <<>> /\ Top.nextValue > 0 /\ locals' = Marked(Unwound(locals)) /\ Undone
      /\ AssignAndRecord(Top.cell, 1 - Top.preferred) /\ DecomposedNext /\ ~FreshTop /\ Backing
      /\ frames' = [frames EXCEPT ![Len(frames)].nextValue = 2, ![Len(frames)].token = Len(undoStack)]
  BY DEF TryAlternate, DecomposedNext, FreshTop, Backing
<1>1. /\ StoreTypeOK /\ undoStack \in Seq(Cells) /\ Len(frames) \in 1..Len(frames) /\ Len(frames) \in Nat
      /\ Len(undoStack) \in Nat /\ frames \in Seq(FrameType) /\ Top.cell \in Cells /\ Top \in FrameType
  BY <1>0, DecomposedTypes, DecomposedTop
<1>2. /\ Len(frames') = Len(frames) /\ \A i \in 1..(Len(frames) - 1) : frames'[i] = frames[i]
      /\ frames'[Len(frames)].token = Len(undoStack) /\ frames'[Len(frames)].nextValue = 2
  BY ONLY <1>0, <1>1, RetoppedBoth, 2 \in 0..2
<1>3. Top'.token = Len(undoStack) /\ Top'.nextValue = 2 /\ frames' # <<>>
  BY <1>1, <1>2 DEF Top
<1>4. PICK l : l = Unwound(locals)
  OBVIOUS
<1>5. /\ l \in DecomposedLocals /\ Len(l.marks) = Len(frames) - 1
      /\ MarksHold(l.marks, l.counted, cells, frames, undoStack)
      /\ \A kind \in Kinds : Distinct(l.counted[kind]) /\ Sound(cells, l.counted[kind], Len(l.counted[kind]))
  BY <1>0, <1>4, UnwoundHolds
<1>6. cells[Top.cell] = Unassigned
  <2>1. FramesPlain /\ FramesHold /\ pc # "probingEnded"
    BY <1>0, DecomposedTypes DEF DecomposedInv
  <2>2. QED BY ONLY <1>0, <1>1, <2>1, Undoable
<1>7. locals' = Marked(l)
  BY <1>0, <1>4
<1>8. PICK v \in {0, 1} : v = 1 - Top.preferred /\ AssignAndRecord(Top.cell, v)
  <2>1. Top.preferred \in {0, 1}
    BY ONLY <1>1 DEF FrameType
  <2>2. QED BY <1>0, <2>1
<1>9. /\ LogsHold' /\ MarksHold(locals.marks, locals.counted, cells, frames, undoStack)'
      /\ Len(locals'.marks) = Len(frames') /\ \A kind \in Kinds : AtMark(kind)'
  BY ONLY <1>0, <1>1, <1>2, <1>3, <1>5, <1>6, <1>7, <1>8, MarkPlaced, v \in {0, 1}
<1>10. QED BY <1>0, <1>1, <1>2, <1>3, <1>9, PlacedSidecars

\* Every step of the decomposed search keeps its invariant.
LEMMA DecomposedStep == ASSUME DecomposedInv, DecomposedNext PROVE DecomposedInv'
<1>1. SidecarsHold'
  BY OnwardSidecars, LoadedSidecars, UndoneSidecars, PoppedSidecars, ProbedSidecars, AlternateSidecars DEF Onward
<1>2. QED BY <1>1, DecomposedBase DEF DecomposedInv

-------------------------------------------------------------------------------
(* Probes.                                                                 *)

\* Since a probe began only free cells were assigned: those it can take back, and
\* those its propagation has forced and not handed over, which it never will if it
\* failed.
ProbesHold == pc \in ProbeAt =>
  /\ \A p \in 1..Len(undoStack) : Top.token < p => call.before[undoStack[p]] = Unassigned
  /\ pc = "probed" => \A q \in 1..Len(forced) : call.before[forced[q]] = Unassigned
  /\ \A y \in Cells : cells[y] # call.before[y] =>
       /\ call.before[y] = Unassigned
       /\ \/ \E p \in 1..Len(undoStack) : Top.token < p /\ undoStack[p] = y
          \/ (pc = "probed" \/ (pc = "unprobe" /\ prop = "infeasible")) /\ \E q \in 1..Len(forced) : forced[q] = y

\* A probe begins with the cells as they are.
LEMMA ProbesBegin ==
  ASSUME StoreTypeOK, undoStack \in Seq(Cells), NEW x \in Cells, NEW v \in {0, 1}, cells[x] = Unassigned,
         AssignAndRecord(x, v), call'.before = cells, Top'.token = Len(undoStack), pc' = "probe"
  PROVE  ProbesHold'
<1>1. Assign(x, v) /\ undoStack' = Append(undoStack, x)
  BY DEF AssignAndRecord
<1>2. \A y \in Cells \ {x} : cells'[y] = cells[y]
  BY ONLY <1>1, StoreTypeOK, AssignEffect, x \in Cells, v \in {0, 1}
<1>3. PICK n \in Nat : /\ n = Len(undoStack) /\ Len(undoStack') = n + 1 /\ undoStack'[n + 1] = x
                       /\ \A p \in 1..(n + 1) : n < p => p = n + 1
  BY <1>1
<1>4. \A p \in 1..Len(undoStack') : Top'.token < p => call'.before[undoStack'[p]] = Unassigned
  BY <1>3
<1>5. \A y \in Cells : cells'[y] # call'.before[y] => y = x
  BY <1>2
<1>6. n + 1 \in 1..Len(undoStack') /\ Top'.token < n + 1 /\ undoStack'[n + 1] = x /\ call'.before[x] = Unassigned
  BY <1>3
<1>7. QED BY ONLY <1>4, <1>5, <1>6, pc' = "probe" DEF ProbesHold

\* What a running search has, whichever it is.
Searching ==
  /\ Basics /\ Recorded /\ CallTyped /\ FramesPlain /\ FramesHold /\ ProbesHold
  /\ pc \in ProbeAt => frames # <<>>
  /\ prop = "run" => pc \in Waiting

LEMMA SearchingTypes ==
  ASSUME Searching, pc \in ProbeAt
  PROVE  /\ undoStack \in Seq(Cells) /\ forced \in Seq(Cells) /\ StoreTypeOK /\ EngineTypeOK
         /\ Len(undoStack) \in Nat /\ Len(forced) \in Nat /\ call \in ProbeCall
         /\ frames # <<>> /\ Top.token \in Nat /\ Top.cell \in Cells /\ HeldOnce(cells, undoStack)
<1>1. undoStack \in Seq(Cells) /\ forced \in Seq(Cells) /\ StoreTypeOK /\ EngineTypeOK /\ call \in ProbeCall /\ frames # <<>>
  BY DEF Searching, Basics, BranchingTypeOK, EngineTypeOK, CallTyped
<1>2. Top.token \in Nat /\ Top.cell \in Cells
  BY <1>1 DEF Searching, FramesPlain, Top
<1>3. HeldOnce(cells, undoStack)
  BY <1>1, RecordedParts DEF Searching
<1>4. QED BY <1>1, <1>2, <1>3

\* The steps of a probe, whichever search makes it.
LEMMA ProbesStep ==
  ASSUME Searching,
         Undo \/ ProbeOne \/ ProbePropagate \/ ProbeContradiction \/ ProbeJudge \/ Propagating
  PROVE  ProbesHold'
<1> USE DEF ProbeAt
<1>1. CASE Undo
  <2>1. /\ pc' = pc /\ frames' = frames /\ call' = call /\ forced' = forced /\ prop' = prop /\ UndoLast /\ ~Undone
        /\ pc \in {"loop", "unprobe"}
    BY <1>1 DEF Undo, control, engine
  <2>2. SUFFICES ASSUME pc = "unprobe" PROVE ProbesHold'
    BY <2>1 DEF ProbesHold
  <2>3. /\ undoStack \in Seq(Cells) /\ StoreTypeOK /\ Len(undoStack) \in Nat /\ Top.token \in Nat /\ HeldOnce(cells, undoStack)
    BY <2>2, SearchingTypes
  <2>4. PICK n \in Nat : n = Len(undoStack) /\ Top.token < n /\ n \in 1..n
    BY <2>1, <2>3 DEF Undone
  <2>5. undoStack # <<>> /\ undoStack' = SubSeq(undoStack, 1, n - 1)
    BY <2>1, <2>3, <2>4 DEF UndoLast
  <2>6. Len(undoStack') = n - 1 /\ \A p \in 1..(n - 1) : undoStack'[p] = undoStack[p] /\ p \in 1..n /\ p # n
    BY ONLY <2>3, <2>4, <2>5, ButLast
  <2>7. PICK x \in Cells : x = undoStack[n] /\ cells'[x] = Unassigned /\ \A y \in Cells \ {x} : cells'[y] = cells[y]
    <3>1. PICK x \in Cells : x = undoStack[n] /\ Unassign(x)
      BY <2>1, <2>3, <2>4 DEF UndoLast
    <3>2. cells'[x] = Unassigned /\ \A y \in Cells \ {x} : cells'[y] = cells[y]
      BY ONLY <2>3, <3>1, UnassignEffect, x \in Cells
    <3>3. QED BY <3>1, <3>2
  <2>8. /\ \A p \in 1..Len(undoStack) : Top.token < p => call.before[undoStack[p]] = Unassigned
        /\ \A y \in Cells : cells[y] # call.before[y] =>
             /\ call.before[y] = Unassigned
             /\ \/ \E p \in 1..Len(undoStack) : Top.token < p /\ undoStack[p] = y
                \/ prop = "infeasible" /\ \E q \in 1..Len(forced) : forced[q] = y
    BY <2>2 DEF Searching, ProbesHold
  <2>9. call.before[x] = Unassigned
    BY <2>4, <2>7, <2>8
  <2>10. \A p \in 1..Len(undoStack') : Top.token < p => call.before[undoStack'[p]] = Unassigned
    BY ONLY <2>4, <2>6, <2>8
  <2>11. ASSUME NEW y \in Cells, cells'[y] # call.before[y]
         PROVE  /\ call.before[y] = Unassigned
                /\ \/ \E p \in 1..Len(undoStack') : Top.token < p /\ undoStack'[p] = y
                   \/ prop = "infeasible" /\ \E q \in 1..Len(forced) : forced[q] = y
    <3>1. y # x /\ cells[y] # call.before[y]
      BY <2>7, <2>9, <2>11
    <3>2. CASE \E p \in 1..Len(undoStack) : Top.token < p /\ undoStack[p] = y
      <4>1. PICK p \in 1..n : Top.token < p /\ undoStack[p] = y
        BY <2>4, <3>2
      <4>2. p # n
        BY <2>7, <3>1, <4>1
      <4>3. p \in 1..(n - 1)
        BY <2>4, <4>2
      <4>4. p \in 1..Len(undoStack') /\ undoStack'[p] = y
        BY <2>6, <4>1, <4>3
      <4>5. QED BY <2>8, <3>1, <4>1, <4>4
    <3>3. QED BY <2>8, <3>1, <3>2
  <2>12. Top' = Top
    BY <2>1 DEF Top
  <2>13. QED BY ONLY <2>1, <2>2, <2>10, <2>11, <2>12 DEF ProbesHold
<1>2. CASE ProbeOne
  <2>1. pc = "unprobe" /\ Undone /\ frames' = frames /\ AssignAndRecord(Top.cell, 1) /\ call'.before = cells /\ pc' = "probe"
    BY <1>2 DEF ProbeOne, Probe
  <2>2. undoStack \in Seq(Cells) /\ StoreTypeOK /\ frames # <<>> /\ Top.cell \in Cells
    BY <2>1, SearchingTypes
  <2>3. cells[Top.cell] = Unassigned /\ Top.token = Len(undoStack)
    <3>1. Backing /\ ~FreshTop /\ pc # "probingEnded" /\ FramesPlain /\ FramesHold
      BY <2>1 DEF Backing, FreshTop, Searching
    <3>2. QED BY ONLY <2>1, <2>2, <3>1, Undoable
  <2>4. Top'.token = Len(undoStack)
    BY <2>1, <2>3 DEF Top
  <2>5. QED BY ONLY <2>1, <2>2, <2>3, <2>4, ProbesBegin, 1 \in {0, 1}
<1>3. CASE ProbePropagate
  <2>1. /\ pc = "probe" /\ pc' = "probed" /\ undoStack' = undoStack /\ frames' = frames /\ call' = call /\ cells' = cells
        /\ forced' = <<>>
    BY <1>3 DEF ProbePropagate, brancher, store, TryPropagateCell, Propagate
  <2>2. Top' = Top
    BY <2>1 DEF Top
  <2>3. QED BY <2>1, <2>2 DEF Searching, ProbesHold
<1>4. CASE ProbeContradiction
  <2>1. /\ pc = "probed" /\ pc' = "unprobe" /\ undoStack' = undoStack /\ frames' = frames /\ call' = call /\ cells' = cells
        /\ forced' = forced /\ prop' = prop /\ prop = "infeasible" /\ Top' = Top
    BY <1>4 DEF ProbeContradiction, brancher, store, engine, Top
  <2>2. QED BY <2>1 DEF Searching, ProbesHold
<1>5. CASE ProbeJudge
  <2>1. /\ pc = "probed" /\ pc' = "unprobe" /\ frames' = frames /\ cells' = cells /\ forced' = forced /\ Top' = Top
        /\ undoStack' = undoStack \o forced
    BY <1>5 DEF ProbeJudge, RecordForced, store, engine, Top
  <2>2. PICK a, b \in Seq(Cells) : a = undoStack /\ b = forced
    BY <2>1, SearchingTypes
  <2>3. PICK n, m \in Nat : n = Len(a) /\ m = Len(b) /\ Len(a \o b) = n + m
    BY <2>2
  <2>4. /\ \A p \in 1..n : (a \o b)[p] = a[p] /\ p \in 1..(n + m)
        /\ \A q \in 1..m : (a \o b)[n + q] = b[q] /\ n + q \in 1..(n + m)
        /\ \A p \in 1..(n + m) : p \in 1..n \/ (p - n \in 1..m /\ (a \o b)[p] = b[p - n])
    BY <2>2, <2>3
  <2>5. call'.before = call.before
    <3>1. call \in ProbeCall
      BY <2>1, SearchingTypes
    <3>2. QED BY <1>5, <3>1 DEF ProbeJudge, ProbeCall
  <2>6. /\ \A p \in 1..n : Top.token < p => call.before[a[p]] = Unassigned
        /\ \A q \in 1..m : call.before[b[q]] = Unassigned
        /\ \A y \in Cells : cells[y] # call.before[y] =>
             /\ call.before[y] = Unassigned
             /\ \/ \E p \in 1..n : Top.token < p /\ a[p] = y
                \/ \E q \in 1..m : b[q] = y
    BY <2>1, <2>2, <2>3 DEF Searching, ProbesHold
  <2>7. \A p \in 1..(n + m) : Top.token < p => call.before[(a \o b)[p]] = Unassigned
    <3>1. ASSUME NEW p \in 1..(n + m), Top.token < p PROVE call.before[(a \o b)[p]] = Unassigned
      <4>1. CASE p \in 1..n
        BY ONLY <2>4, <2>6, <3>1, <4>1
      <4>2. CASE p \notin 1..n
        <5>1. p - n \in 1..m /\ (a \o b)[p] = b[p - n]
          BY ONLY <2>4, <4>2, p \in 1..(n + m)
        <5>2. QED BY ONLY <2>6, <5>1
      <4>3. QED BY <4>1, <4>2
    <3>2. QED BY <3>1
  <2>8. Top.token \in Nat /\ Top.token <= n
    <3>1. Nested(frames, Len(frames), undoStack) /\ Len(frames) \in 1..Len(frames)
      BY <2>1, SearchingTypes DEF Searching, FramesHold, FramesPlain, Backing
    <3>2. Top.token + 1 <= n /\ Top.token \in Nat
      BY <2>1, <2>2, <2>3, <3>1, SearchingTypes DEF Nested, InPlay, Top
    <3>3. QED BY <3>2
  <2>9. ASSUME NEW y \in Cells, cells[y] # call.before[y]
        PROVE  call.before[y] = Unassigned /\ \E p \in 1..(n + m) : Top.token < p /\ (a \o b)[p] = y
    <3>1. CASE \E p \in 1..n : Top.token < p /\ a[p] = y
      <4>1. PICK p \in 1..n : Top.token < p /\ a[p] = y
        BY <3>1
      <4>2. p \in 1..(n + m) /\ (a \o b)[p] = y
        BY <2>4, <4>1
      <4>3. QED BY <2>6, <2>9, <4>1, <4>2
    <3>2. CASE \E q \in 1..m : b[q] = y
      <4>1. PICK q \in 1..m : b[q] = y
        BY <3>2
      <4>2. n + q \in 1..(n + m) /\ (a \o b)[n + q] = y
        BY <2>4, <4>1
      <4>3. Top.token < n + q
        BY <2>8
      <4>4. QED BY <2>6, <2>9, <4>2, <4>3
    <3>3. QED BY <2>6, <2>9, <3>1, <3>2
  <2>10. undoStack' = a \o b /\ Len(undoStack') = n + m
    BY <2>1, <2>2, <2>3
  <2>11. \A p \in 1..Len(undoStack') : Top'.token < p => call'.before[undoStack'[p]] = Unassigned
    BY ONLY <2>1, <2>5, <2>7, <2>10
  <2>12. \A y \in Cells : cells'[y] # call'.before[y] =>
           call'.before[y] = Unassigned /\ \E p \in 1..Len(undoStack') : Top'.token < p /\ undoStack'[p] = y
    BY ONLY <2>1, <2>5, <2>9, <2>10
  <2>13. QED BY ONLY <2>1, <2>11, <2>12 DEF ProbesHold
<1>6. CASE Propagating
  <2>1. pc' = pc /\ frames' = frames /\ call' = call /\ undoStack' = undoStack /\ Top' = Top /\ prop = "run" /\ EngineStep
    BY <1>6 DEF Propagating, control, brancher, Top, EngineStep, PopViolated, PopLine, ForceCell, Quiesce
  <2>2. SUFFICES ASSUME pc = "probed" PROVE ProbesHold'
    BY <2>1 DEF ProbesHold, Searching, Waiting
  <2>3. /\ \A p \in 1..Len(undoStack) : Top.token < p => call.before[undoStack[p]] = Unassigned
        /\ \A q \in 1..Len(forced) : call.before[forced[q]] = Unassigned
        /\ \A y \in Cells : cells[y] # call.before[y] =>
             /\ call.before[y] = Unassigned
             /\ \/ \E p \in 1..Len(undoStack) : Top.token < p /\ undoStack[p] = y
                \/ \E q \in 1..Len(forced) : forced[q] = y
    BY <2>2 DEF Searching, ProbesHold
  <2>4. CASE PopViolated \/ PopLine \/ Quiesce
    <3>1. cells' = cells /\ forced' = forced
      BY <2>4 DEF PopViolated, PopLine, Quiesce, store
    <3>2. QED BY ONLY <2>1, <2>2, <2>3, <3>1 DEF ProbesHold
  <2>5. CASE ForceCell
    <3>1. forced \in Seq(Cells) /\ StoreTypeOK /\ EngineTypeOK
      BY <2>2, SearchingTypes
    <3>2. PICK x \in Cells, v \in {0, 1} : cells[x] = Unassigned /\ Assign(x, v) /\ forced' = Append(forced, x)
      BY ONLY <2>5, <3>1, ForcedCell
    <3>3. \A y \in Cells \ {x} : cells'[y] = cells[y]
      BY ONLY <3>1, <3>2, AssignEffect, x \in Cells, v \in {0, 1}
    <3>4. PICK m \in Nat : /\ m = Len(forced) /\ Len(forced') = m + 1 /\ forced'[m + 1] = x
                           /\ \A q \in 1..m : forced'[q] = forced[q] /\ q \in 1..(m + 1)
                           /\ \A q \in 1..(m + 1) : q \in 1..m \/ q = m + 1
                           /\ m + 1 \in 1..(m + 1)
      BY <3>1, <3>2
    <3>5. call.before[x] = Unassigned
      BY <2>3, <3>2
    <3>6. \A q \in 1..Len(forced') : call.before[forced'[q]] = Unassigned
      BY ONLY <2>3, <3>4, <3>5
    <3>7. \A y \in Cells : cells'[y] # call.before[y] =>
             /\ call.before[y] = Unassigned
             /\ \/ \E p \in 1..Len(undoStack) : Top.token < p /\ undoStack[p] = y
                \/ \E q \in 1..Len(forced') : forced'[q] = y
      <4>1. ASSUME NEW y \in Cells, cells'[y] # call.before[y]
            PROVE  /\ call.before[y] = Unassigned
                   /\ \/ \E p \in 1..Len(undoStack) : Top.token < p /\ undoStack[p] = y
                      \/ \E q \in 1..Len(forced') : forced'[q] = y
        <5>1. CASE y = x
          BY ONLY <3>4, <3>5, <5>1
        <5>2. CASE y # x
          <6>1. cells[y] # call.before[y]
            BY ONLY <3>3, <4>1, <5>2, y \in Cells
          <6>2. QED BY ONLY <2>3, <3>4, <6>1, y \in Cells
        <5>3. QED BY <5>1, <5>2
      <4>2. QED BY <4>1
    <3>8. QED BY ONLY <2>1, <2>2, <2>3, <3>6, <3>7 DEF ProbesHold
  <2>6. QED BY <2>1, <2>4, <2>5 DEF EngineStep
<1>7. QED BY <1>1, <1>2, <1>3, <1>4, <1>5, <1>6

\* In the search, a probe begins with its top frame's cell.
LEMMA DecomposedProbes ==
  ASSUME DecomposedInv, ProbesHold, DecomposedNext
  PROVE  ProbesHold'
<1>1. CASE ProbeZero
  <2>1. /\ pc = "loop" /\ pc' = "probe" /\ frames # <<>> /\ AssignAndRecord(Top.cell, 0) /\ FreshTop /\ call'.before = cells
        /\ frames' = [frames EXCEPT ![Len(frames)].nextValue = 1, ![Len(frames)].token = Len(undoStack)]
    BY <1>1 DEF ProbeZero, Probe, FreshTop, DecomposedInv
  <2>2. /\ StoreTypeOK /\ undoStack \in Seq(Cells) /\ Len(frames) \in 1..Len(frames)
        /\ Len(undoStack) \in Nat /\ frames \in Seq(FrameType) /\ Top.cell \in Cells
    BY <2>1, DecomposedTypes, DecomposedTop
  <2>3. Len(frames') = Len(frames) /\ frames'[Len(frames)].token = Len(undoStack)
    BY ONLY <2>1, <2>2, RetoppedBoth, 1 \in 0..2
  <2>4. Top'.token = Len(undoStack)
    BY <2>3 DEF Top
  <2>5. cells[Top.cell] = Unassigned
    BY <2>1 DEF DecomposedInv, FramesHold
  <2>6. QED BY ONLY <2>1, <2>2, <2>4, <2>5, ProbesBegin, 0 \in {0, 1}
<1>2. CASE Undo \/ ProbeOne \/ ProbePropagate \/ ProbeContradiction \/ ProbeJudge \/ Propagating
  <2>1. Searching
    BY DecomposedTypes DEF DecomposedInv, DecomposedShape, Searching, ProbeAt
  <2>2. QED BY <1>2, <2>1, ProbesStep
<1>3. CASE \/ Start \/ InitialInfeasible \/ InitialSolved \/ InitialBranch \/ Pop \/ BothInfeasible \/ TryPreferred
           \/ TryForced \/ TryAlternate \/ TryPropagate \/ Contradiction \/ Propagated
  <2>1. pc' \notin ProbeAt
    BY <1>3 DEF Start, InitialInfeasible, InitialSolved, InitialBranch, Pop, BothInfeasible, TryPreferred,
       TryForced, TryAlternate, TryPropagate, Contradiction, Propagated, ProbeAt
  <2>2. QED BY <2>1 DEF ProbesHold
<1>4. CASE \/ Cascade \/ CascadeKnown \/ CascadeCell \/ CascadePropagate \/ Cascaded \/ ParityDone \/ CascadeDone
           \/ SkipRow \/ CompletionInfeasible \/ CompleteRow \/ FillKnown \/ FillCell \/ FillPropagate \/ Filled
           \/ FillDone \/ VerifyBlocks \/ HashMismatch \/ SelectFromHeap \/ SelectNext \/ Yield \/ Exhausted
  <2>1. pc' \notin ProbeAt
    BY <1>4 DEF Cascade, CascadeKnown, CascadeCell, CascadePropagate, Cascaded, ParityDone, CascadeDone,
       SkipRow, CompletionInfeasible, CompleteRow, FillKnown, FillCell, FillPropagate, Filled,
       FillDone, VerifyBlocks, HashMismatch, SelectFromHeap, SelectNext, Yield, Exhausted, ProbeAt
  <2>2. QED BY <2>1 DEF ProbesHold
<1>5. QED BY <1>1, <1>2, <1>3, <1>4 DEF DecomposedNext

-------------------------------------------------------------------------------
(* The prober.                                                             *)

ProberShape ==
  /\ pc \in PassPlaces \cup DeepPlaces \cup {"probingEnded"}
  /\ prop = "run" => pc \in Waiting
  /\ pc \in PassPlaces => frames \in Seq(ProbeFrame) /\ Len(frames) = IF pc = "pass" THEN 0 ELSE 1
  /\ pc \in DeepPlaces => frames \in Seq(DeepFrames) /\ (pc = "deep" <=> frames = <<>>)
  /\ pc = "probingEnded" => frames = <<>> \/ (frames \in Seq(DeepFrames) /\ Len(frames) = 1)

\* Each call of the recursion has a lower depth than the one it was made from.
Deeper(fs) == \A i \in 1..Len(fs) : fs[i].depth + i <= kMaxDepth + 1

\* The recursion began on a store that was just made.
DeepHold ==
  /\ pc = "deep" => undoStack = <<>> /\ cells = [x \in Cells |-> Unassigned]
  /\ pc \in DeepPlaces => Deeper(frames) /\ (frames # <<>> => frames[1].token = 0)
  /\ pc = "deepNext" => Top.depth > 1
  /\ pc = "probingEnded" /\ frames # <<>> => undoStack = <<>>

ProberInv ==
  /\ Basics /\ StatsExact /\ Recorded /\ solver = "prober" /\ ProberShape /\ CallTyped
  /\ locals \in ProberLocals /\ FramesHold /\ HintSound /\ DeepHold /\ ProbesHold

\* The recursion's stack: a call made, a value retried, a call returned from.
LEMMA DeepPushed ==
  ASSUME NEW fs \in Seq(DeepFrames), fs # <<>>, Deeper(fs), fs[1].token = 0, fs[Len(fs)].depth > 1,
         NEW x \in Cells, NEW t \in Nat, NEW g,
         g = [cell |-> x, value |-> 0, depth |-> fs[Len(fs)].depth - 1, token |-> t, zeroOk |-> FALSE]
  PROVE  /\ Append(fs, g) \in Seq(DeepFrames) /\ Deeper(Append(fs, g)) /\ Append(fs, g)[1].token = 0
         /\ Append(fs, g) # <<>> /\ Len(Append(fs, g)) = Len(fs) + 1
         /\ \A i \in 1..Len(fs) : Append(fs, g)[i] = fs[i]
         /\ Append(fs, g)[Len(Append(fs, g))] = g /\ g.cell = x /\ g.token = t
<1>1. PICK n \in Nat : n = Len(fs) /\ n \in 1..n /\ 1 \in 1..n /\ fs[n] \in DeepFrames
  OBVIOUS
<1>2. PICK d \in 1..kMaxDepth : d = fs[n].depth
  BY <1>1 DEF DeepFrames
<1>3. d > 1 /\ d + n <= kMaxDepth + 1 /\ kMaxDepth \in Nat
  BY <1>1, <1>2, ProberAssumption DEF Deeper
<1>4. d - 1 \in 1..kMaxDepth
  BY <1>2, <1>3
<1>5. g \in DeepFrames /\ g.depth = d - 1 /\ g.cell = x /\ g.token = t
  BY <1>1, <1>2, <1>4 DEF DeepFrames
<1>6. /\ Append(fs, g) \in Seq(DeepFrames) /\ Len(Append(fs, g)) = n + 1
      /\ \A i \in 1..n : Append(fs, g)[i] = fs[i]
      /\ Append(fs, g)[n + 1] = g
  BY <1>1, <1>5
<1>7. Append(fs, g) # <<>> /\ Append(fs, g)[1].token = 0
  BY <1>1, <1>6
<1>8. Deeper(Append(fs, g))
  <2>1. ASSUME NEW i \in 1..(n + 1) PROVE Append(fs, g)[i].depth + i <= kMaxDepth + 1
    <3>1. CASE i = n + 1
      <4>1. Append(fs, g)[i].depth = d - 1
        BY <1>5, <1>6, <3>1
      <4>2. d - 1 + (n + 1) <= kMaxDepth + 1
        BY ONLY <1>1, <1>2, <1>3
      <4>3. QED BY <3>1, <4>1, <4>2
    <3>2. CASE i # n + 1
      <4>1. i \in 1..n
        BY <3>2
      <4>2. QED BY <1>1, <1>6, <4>1 DEF Deeper
    <3>3. QED BY <3>1, <3>2
  <2>2. QED BY <1>6, <2>1 DEF Deeper
<1>9. QED BY <1>1, <1>5, <1>6, <1>7, <1>8

LEMMA DeepRetopped ==
  ASSUME NEW fs \in Seq(DeepFrames), fs # <<>>, Deeper(fs), fs[1].token = 0, NEW b \in BOOLEAN,
         NEW gs, gs = [fs EXCEPT ![Len(fs)].value = 1, ![Len(fs)].zeroOk = b]
  PROVE  /\ gs \in Seq(DeepFrames) /\ Deeper(gs) /\ gs[1].token = 0 /\ gs # <<>>
         /\ Len(gs) = Len(fs) /\ \A i \in 1..(Len(fs) - 1) : gs[i] = fs[i]
         /\ gs[Len(gs)].cell = fs[Len(fs)].cell /\ gs[Len(gs)].token = fs[Len(fs)].token
<1>1. PICK n \in Nat : n = Len(fs) /\ n \in 1..n /\ 1 \in 1..n /\ fs[n] \in DeepFrames /\ DOMAIN fs = 1..n
  OBVIOUS
<1>2. PICK f \in DeepFrames : f = fs[n]
  BY <1>1
<1>3. PICK h : h = [f EXCEPT !.value = 1]
  OBVIOUS
<1>4. h \in DeepFrames /\ h.cell = f.cell /\ h.token = f.token /\ h.depth = f.depth
  <2>1. 1 \in {0, 1}
    OBVIOUS
  <2>2. QED BY <1>3, <2>1 DEF DeepFrames
<1>5. PICK g : g = [h EXCEPT !.zeroOk = b]
  OBVIOUS
<1>6. g \in DeepFrames /\ g.cell = h.cell /\ g.token = h.token /\ g.depth = h.depth
  BY <1>4, <1>5 DEF DeepFrames
<1>7. gs = [fs EXCEPT ![n] = g]
  BY <1>1, <1>2, <1>3, <1>5
<1>8. \A i \in 1..(n - 1) : i \in 1..n /\ i # n
  BY <1>1
<1>9. /\ gs \in Seq(DeepFrames) /\ Len(gs) = n /\ gs[n] = g
      /\ \A i \in 1..(n - 1) : gs[i] = fs[i]
  <2>1. /\ [fs EXCEPT ![n] = g] \in Seq(DeepFrames) /\ Len([fs EXCEPT ![n] = g]) = n
        /\ [fs EXCEPT ![n] = g][n] = g /\ \A i \in 1..(n - 1) : [fs EXCEPT ![n] = g][i] = fs[i]
    BY ONLY <1>1, <1>6, <1>8, fs \in Seq(DeepFrames)
  <2>2. QED BY ONLY <1>7, <2>1
<1>10. \A i \in 1..n : gs[i].token = fs[i].token /\ gs[i].depth = fs[i].depth
  <2>1. ASSUME NEW i \in 1..n PROVE gs[i].token = fs[i].token /\ gs[i].depth = fs[i].depth
    <3>1. CASE i = n
      BY <1>2, <1>4, <1>6, <1>9, <3>1
    <3>2. CASE i # n
      <4>1. i \in 1..(n - 1)
        BY <3>2
      <4>2. QED BY <1>9, <4>1
    <3>3. QED BY <3>1, <3>2
  <2>2. QED BY <2>1
<1>11. Deeper(gs)
  BY <1>1, <1>9, <1>10 DEF Deeper
<1>12. gs # <<>>
  BY <1>1, <1>9
<1>13. QED BY <1>1, <1>2, <1>4, <1>6, <1>9, <1>10, <1>11, <1>12

LEMMA DeepPopped ==
  ASSUME NEW fs \in Seq(DeepFrames), Len(fs) > 1, Deeper(fs), fs[1].token = 0,
         NEW gs, gs = SubSeq(fs, 1, Len(fs) - 1)
  PROVE  /\ gs \in Seq(DeepFrames) /\ Deeper(gs) /\ gs[1].token = 0 /\ gs # <<>>
         /\ Len(gs) = Len(fs) - 1 /\ \A i \in 1..(Len(fs) - 1) : gs[i] = fs[i]
<1>1. PICK n \in Nat : n = Len(fs) /\ n > 1 /\ 1 \in 1..(n - 1) /\ fs # <<>>
  OBVIOUS
<1>2. gs \in Seq(DeepFrames) /\ Len(gs) = n - 1 /\ \A i \in 1..(n - 1) : gs[i] = fs[i]
  <2>1. PICK T : T = DeepFrames
    OBVIOUS
  <2>2. fs \in Seq(T)
    BY <2>1
  <2>3. /\ SubSeq(fs, 1, Len(fs) - 1) \in Seq(T) /\ Len(SubSeq(fs, 1, Len(fs) - 1)) = Len(fs) - 1
        /\ \A p \in 1..(Len(fs) - 1) : SubSeq(fs, 1, Len(fs) - 1)[p] = fs[p]
    BY ONLY <1>1, <2>2, ButLast
  <2>4. QED BY ONLY <1>1, <2>1, <2>3, gs = SubSeq(fs, 1, Len(fs) - 1)
<1>3. \A i \in 1..(n - 1) : i \in 1..n
  BY <1>1
<1>4. Deeper(gs)
  BY <1>1, <1>2, <1>3 DEF Deeper
<1>5. gs # <<>> /\ gs[1].token = 0
  <2>1. Len(gs) # 0 /\ gs[1] = fs[1]
    BY ONLY <1>1, <1>2
  <2>2. gs # <<>>
    BY ONLY <2>1
  <2>3. QED BY <2>1, <2>2
<1>6. QED BY <1>1, <1>2, <1>4, <1>5

\* The prober changes neither its input nor what is given out.
LEMMA ProberInput == ProberNext => UNCHANGED <<input, answers>>
<1> SUFFICES ASSUME ProberNext PROVE UNCHANGED <<input, answers>>
  OBVIOUS
<1>1. CASE \/ ProbeNext \/ Contradictory \/ BothFeasible \/ AssignFound \/ ForcePropagate
           \/ ForcedInfeasible \/ ForcedFeasible \/ PassAgain \/ Fixpoint
  BY <1>1 DEF ProbeNext, Contradictory, BothFeasible, AssignFound, ForcePropagate,
     ForcedInfeasible, ForcedFeasible, PassAgain, Fixpoint
<1>2. CASE Undo \/ ProbeOne \/ ProbePropagate \/ ProbeContradiction \/ ProbeJudge \/ Propagating
  BY <1>2 DEF Undo, ProbeOne, Probe, ProbePropagate, ProbeContradiction, ProbeJudge, Propagating, control
<1>3. CASE \/ ProbeDeep \/ DeepPropagate \/ DeepInfeasible \/ DeepDecided \/ DeepDescend
           \/ DeepZero \/ DeepUndo \/ DeepOne \/ DeepBoth \/ DeepReturned
  BY <1>3 DEF ProbeDeep, DeepPropagate, DeepInfeasible, DeepDecided, DeepDescend,
     DeepZero, DeepUndo, DeepOne, DeepBoth, DeepReturned, control
<1>4. QED BY <1>1, <1>2, <1>3 DEF ProberNext

\* What the prober's invariant says of types.
LEMMA ProberTypes ==
  ASSUME ProberInv
  PROVE  /\ undoStack \in Seq(Cells) /\ forced \in Seq(Cells) /\ StoreTypeOK /\ EngineTypeOK
         /\ Len(undoStack) \in Nat /\ Len(frames) \in Nat
         /\ pc # "probingEnded" => FramesPlain
         /\ pc \in DeepPlaces => frames \in Seq(DeepFrames)
         /\ pc \in PassPlaces => frames \in Seq(ProbeFrame)
<1>1. undoStack \in Seq(Cells) /\ forced \in Seq(Cells) /\ StoreTypeOK /\ EngineTypeOK
  BY DEF ProberInv, Basics, BranchingTypeOK, EngineTypeOK
<1>2. Len(undoStack) \in Nat
  BY <1>1
<1>3. /\ pc \in DeepPlaces => frames \in Seq(DeepFrames)
      /\ pc \in PassPlaces => frames \in Seq(ProbeFrame)
      /\ pc = "probingEnded" => frames = <<>> \/ frames \in Seq(DeepFrames)
      /\ pc \in DeepPlaces \/ pc \in PassPlaces \/ pc = "probingEnded"
  BY DEF ProberInv, ProberShape
<1>4. Len(frames) \in Nat
  BY <1>3
<1>5. \A f \in DeepFrames : f.token \in Nat /\ f.cell \in Cells
  BY DEF DeepFrames
<1>6. \A f \in ProbeFrame : f.token \in Nat /\ f.cell \in Cells
  BY DEF ProbeFrame
<1>7. ASSUME pc # "probingEnded" PROVE FramesPlain
  <2>1. CASE frames \in Seq(DeepFrames)
    BY ONLY <1>5, <2>1, PlainFrames
  <2>2. CASE frames \in Seq(ProbeFrame)
    BY ONLY <1>6, <2>2, PlainFrames
  <2>3. QED BY <1>3, <1>7, <2>1, <2>2
<1>8. QED BY <1>1, <1>2, <1>3, <1>4, <1>7

LEMMA ProberTop ==
  ASSUME ProberInv, pc # "probingEnded", frames # <<>>
  PROVE  Top.cell \in Cells /\ Top.token \in Nat /\ Len(frames) \in 1..Len(frames)
BY ProberTypes DEF FramesPlain, Top

\* A cell that is left to probe is free.
LEMMA NextLeft ==
  ASSUME Left # {}
  PROVE  FirstOf(Left) \in Cells /\ cells[FirstOf(Left)] = Unassigned
<1>1. Left \in SUBSET Cells
  BY DEF Left
<1>2. IsFirst(FirstOf(Left), Left)
  BY <1>1, FirstIsThere
<1>3. QED BY <1>1, <1>2 DEF IsFirst, Left

\* The frames, whatever the step.
LEMMA ProberShapeStep ==
  ASSUME ProberInv, ProberNext
  PROVE  ProberShape' /\ DeepHold'
<1> USE DEF brancher, control, engine
<1>0. ProberShape /\ DeepHold /\ (prop = "run" => pc \in Waiting)
  BY DEF ProberInv, ProberShape
<1>a. ASSUME pc \in PassPlaces, pc' \in PassPlaces \ {"pass"}, frames' \in Seq(ProbeFrame), Len(frames') = 1,
             prop' = "run" => pc' \in Waiting
      PROVE  ProberShape' /\ DeepHold'
  BY <1>a DEF ProberShape, DeepHold, PassPlaces, DeepPlaces
<1>b. ASSUME pc' \in {"pass", "probingEnded"}, frames' = <<>>, prop' # "run"
      PROVE  ProberShape' /\ DeepHold'
  <2>1. <<>> \in Seq(ProbeFrame) /\ Len(<<>>) = 0
    OBVIOUS
  <2>2. QED BY <1>b, <2>1 DEF ProberShape, DeepHold, PassPlaces, DeepPlaces
<1>c. ASSUME pc \in DeepPlaces, pc' \in DeepPlaces \ {"deep"}, frames' \in Seq(DeepFrames), frames' # <<>>,
             Deeper(frames'), frames'[1].token = 0, pc' = "deepNext" => Top'.depth > 1,
             prop' = "run" => pc' \in Waiting
      PROVE  ProberShape' /\ DeepHold'
  BY <1>c DEF ProberShape, DeepHold, PassPlaces, DeepPlaces
<1>1. CASE ProbeNext
  <2>1. /\ pc = "pass" /\ FirstOf(Left) \in Cells /\ Len(undoStack) \in Nat
        /\ frames' = <<[cell |-> FirstOf(Left), token |-> Len(undoStack)]>> /\ pc' = "probe" /\ prop' = prop
    BY <1>1, NextLeft, ProberTypes DEF ProbeNext
  <2>2. PICK f \in ProbeFrame : f = [cell |-> FirstOf(Left), token |-> Len(undoStack)]
    BY <2>1 DEF ProbeFrame
  <2>3. <<f>> \in Seq(ProbeFrame) /\ Len(<<f>>) = 1
    OBVIOUS
  <2>4. QED BY <1>0, <1>a, <2>1, <2>2, <2>3 DEF PassPlaces, Waiting
<1>2. CASE Contradictory \/ BothFeasible \/ ForcedInfeasible \/ ForcedFeasible
  <2>1. pc' \in {"pass", "probingEnded"} /\ frames' = <<>> /\ prop' = prop /\ prop # "run"
    BY <1>0, <1>2 DEF Contradictory, BothFeasible, ForcedInfeasible, ForcedFeasible, ProbedBoth, Waiting
  <2>2. QED BY <1>b, <2>1
<1>3. CASE PassAgain \/ Fixpoint
  <2>1. pc = "pass" /\ frames \in Seq(ProbeFrame) /\ Len(frames) = 0 /\ pc' \in {"pass", "probingEnded"} /\ frames' = frames
        /\ prop' = prop
    BY <1>0, <1>3 DEF PassAgain, Fixpoint, ProberShape, PassPlaces
  <2>2. frames = <<>>
    BY ONLY <2>1, EmptyOf
  <2>3. prop # "run"
    BY <1>0, <2>1 DEF Waiting
  <2>4. QED BY <1>b, <2>1, <2>2, <2>3
<1>4. CASE AssignFound \/ ForcePropagate \/ ProbeOne \/ ProbePropagate \/ ProbeContradiction \/ ProbeJudge
  <2>1. pc \in PassPlaces \ {"pass"} /\ pc' \in PassPlaces \ {"pass"} /\ frames' = frames
    BY <1>4 DEF AssignFound, ForcePropagate, ProbeOne, Probe, ProbePropagate, ProbeContradiction, ProbeJudge, ProbedBoth, PassPlaces
  <2>2. prop' = "run" => pc' \in Waiting
    BY <1>0, <1>4 DEF AssignFound, ForcePropagate, ProbeOne, Probe, ProbePropagate, ProbeContradiction, ProbeJudge, ProbedBoth, Waiting
  <2>3. frames \in Seq(ProbeFrame) /\ Len(frames) = 1
    BY <1>0, <2>1 DEF ProberShape
  <2>4. QED BY <1>a, <2>1, <2>2, <2>3
<1>5. CASE Undo
  <2>1. pc \in {"loop", "unprobe"} /\ pc' = pc /\ frames' = frames /\ prop' = prop
    BY <1>5 DEF Undo
  <2>2. pc = "unprobe"
    BY <1>0, <2>1 DEF ProberShape, PassPlaces, DeepPlaces
  <2>3. frames \in Seq(ProbeFrame) /\ Len(frames) = 1 /\ prop # "run"
    BY <1>0, <2>2 DEF ProberShape, PassPlaces, Waiting
  <2>4. QED BY <1>a, <2>1, <2>2, <2>3 DEF PassPlaces
<1>6. CASE Propagating
  <2>1. pc' = pc /\ frames' = frames /\ prop = "run"
    BY <1>6 DEF Propagating, EngineStep, PopViolated, PopLine, ForceCell, Quiesce
  <2>2. pc \in Waiting
    BY <1>0, <2>1
  <2>3. CASE pc \in PassPlaces
    <3>1. pc \in PassPlaces \ {"pass"} /\ frames \in Seq(ProbeFrame) /\ Len(frames) = 1
      BY <1>0, <2>2, <2>3 DEF ProberShape, Waiting
    <3>2. QED BY <1>a, <2>1, <2>2, <3>1
  <2>4. CASE pc \in DeepPlaces
    <3>1. /\ pc \in DeepPlaces \ {"deep", "deepNext"} /\ frames \in Seq(DeepFrames) /\ frames # <<>>
          /\ Deeper(frames) /\ frames[1].token = 0
      BY <1>0, <2>2, <2>4 DEF ProberShape, DeepHold, Waiting
    <3>2. QED BY <1>c, <2>1, <2>2, <3>1
  <2>5. QED BY <1>0, <2>2, <2>3, <2>4 DEF ProberShape, Waiting
<1>7. CASE ProbeDeep
  <2>1. PICK x \in DeepCells, v \in {0, 1}, depth \in 1..kMaxDepth : frames' = <<DeepFrame(x, v, depth)>>
    BY <1>7 DEF ProbeDeep
  <2>2. pc = "deep" /\ pc' = "deepProbe" /\ prop' = prop /\ Len(undoStack) = 0
    BY <1>0, <1>7 DEF ProbeDeep, DeepHold
  <2>3. PICK f \in DeepFrames : f = DeepFrame(x, v, depth) /\ f.token = 0 /\ f.depth = depth
    <3>1. x \in Cells
      BY ProberAssumption
    <3>2. PICK f : f = [cell |-> x, value |-> v, depth |-> depth, token |-> 0, zeroOk |-> FALSE]
      OBVIOUS
    <3>3. f = DeepFrame(x, v, depth)
      BY <2>2, <3>2 DEF DeepFrame
    <3>4. f \in DeepFrames /\ f.token = 0 /\ f.depth = depth
      <4>1. v \in {0, 1} /\ depth \in 1..kMaxDepth /\ 0 \in Nat /\ FALSE \in BOOLEAN
        OBVIOUS
      <4>2. QED BY ONLY <3>1, <3>2, <4>1 DEF DeepFrames
    <3>5. QED BY <3>3, <3>4
  <2>4. <<f>> \in Seq(DeepFrames) /\ <<f>> # <<>> /\ <<f>>[1] = f /\ Len(<<f>>) = 1
    OBVIOUS
  <2>5. Deeper(<<f>>)
    <3>1. depth + 1 <= kMaxDepth + 1
      BY ProberAssumption
    <3>2. QED BY <2>3, <2>4, <3>1 DEF Deeper
  <2>6. prop # "run"
    BY <1>0, <2>2 DEF Waiting
  <2>7. QED BY <1>c, <2>1, <2>2, <2>3, <2>4, <2>5, <2>6 DEF DeepPlaces
<1>8. ASSUME pc \in DeepPlaces \ {"deep"}
      PROVE  frames \in Seq(DeepFrames) /\ frames # <<>> /\ Deeper(frames) /\ frames[1].token = 0
  BY <1>0, <1>8 DEF ProberShape, DeepHold
<1>9. CASE DeepPropagate \/ DeepInfeasible \/ DeepDecided \/ DeepDescend \/ DeepUndo
  <2>1. pc \in DeepPlaces \ {"deep"} /\ pc' \in DeepPlaces \ {"deep"} /\ frames' = frames
    BY <1>9 DEF DeepPropagate, DeepInfeasible, DeepDecided, DeepDescend, DeepUndo, DeepPlaces
  <2>2. prop' = "run" => pc' \in Waiting
    BY <1>0, <1>9 DEF DeepPropagate, DeepInfeasible, DeepDecided, DeepDescend, DeepUndo, Waiting
  <2>3. pc' = "deepNext" => Top'.depth > 1
    BY <1>9 DEF DeepPropagate, DeepInfeasible, DeepDecided, DeepDescend, DeepUndo, Top
  <2>4. QED BY <1>8, <1>c, <2>1, <2>2, <2>3
<1>10. CASE DeepZero
  <2>1. pc = "deepNext" /\ pc' = "deepProbe" /\ prop' = prop /\ frames' = Append(frames, DeepFrame(call.next, 0, Top.depth - 1))
    BY <1>10 DEF DeepZero
  <2>2. /\ frames \in Seq(DeepFrames) /\ frames # <<>> /\ Deeper(frames) /\ frames[1].token = 0
        /\ frames[Len(frames)].depth > 1
    BY <1>0, <1>8, <2>1 DEF DeepPlaces, DeepHold, Top
  <2>3. PICK x \in Cells : x = call.next
    BY <2>1 DEF ProberInv, CallTyped
  <2>4. PICK g : g = DeepFrame(x, 0, Top.depth - 1)
    OBVIOUS
  <2>5. g = [cell |-> x, value |-> 0, depth |-> frames[Len(frames)].depth - 1, token |-> Len(undoStack), zeroOk |-> FALSE]
    BY <2>4 DEF DeepFrame, Top
  <2>6. Len(undoStack) \in Nat
    BY ProberTypes
  <2>7. /\ Append(frames, g) \in Seq(DeepFrames) /\ Deeper(Append(frames, g)) /\ Append(frames, g)[1].token = 0
        /\ Append(frames, g) # <<>>
    BY ONLY <2>2, <2>5, <2>6, x \in Cells, DeepPushed
  <2>8. frames' = Append(frames, g)
    BY <2>1, <2>3, <2>4
  <2>9. prop # "run"
    BY <1>0, <2>1 DEF Waiting
  <2>10. QED BY <1>c, <2>1, <2>7, <2>8, <2>9 DEF DeepPlaces
<1>11. CASE DeepOne
  <2>1. /\ pc = "deepReturn" /\ pc' = "deepProbe" /\ prop' = prop
        /\ frames' = [frames EXCEPT ![Len(frames)].value = 1, ![Len(frames)].zeroOk = call.feasible]
    BY <1>11 DEF DeepOne
  <2>2. frames \in Seq(DeepFrames) /\ frames # <<>> /\ Deeper(frames) /\ frames[1].token = 0
    BY <1>8, <2>1 DEF DeepPlaces
  <2>3. PICK b \in BOOLEAN : b = call.feasible
    BY <2>1 DEF ProberInv, CallTyped
  <2>4. frames' = [frames EXCEPT ![Len(frames)].value = 1, ![Len(frames)].zeroOk = b]
    BY <2>1, <2>3
  <2>5. frames' \in Seq(DeepFrames) /\ Deeper(frames') /\ frames'[1].token = 0 /\ frames' # <<>>
    BY ONLY <2>2, <2>4, b \in BOOLEAN, DeepRetopped
  <2>6. prop # "run"
    BY <1>0, <2>1 DEF Waiting
  <2>7. QED BY <1>c, <2>1, <2>5, <2>6 DEF DeepPlaces
<1>12. CASE DeepBoth
  <2>1. /\ pc = "deepReturn" /\ pc' = pc /\ prop' = prop /\ Len(frames) > 1
        /\ frames' = SubSeq(frames, 1, Len(frames) - 1)
    BY <1>12 DEF DeepBoth
  <2>2. frames \in Seq(DeepFrames) /\ frames # <<>> /\ Deeper(frames) /\ frames[1].token = 0
    BY <1>8, <2>1 DEF DeepPlaces
  <2>3. frames' \in Seq(DeepFrames) /\ Deeper(frames') /\ frames'[1].token = 0 /\ frames' # <<>>
    BY ONLY <2>1, <2>2, DeepPopped
  <2>4. prop # "run"
    BY <1>0, <2>1 DEF Waiting
  <2>5. QED BY <1>c, <2>1, <2>3, <2>4 DEF DeepPlaces
<1>13. CASE DeepReturned
  <2>1. pc = "deepReturn" /\ Undone /\ Len(frames) = 1 /\ pc' = "probingEnded" /\ frames' = frames /\ undoStack' = undoStack
        /\ prop' = prop
    BY <1>13 DEF DeepReturned
  <2>2. frames \in Seq(DeepFrames) /\ frames[1].token = 0
    BY <1>8, <2>1 DEF DeepPlaces
  <2>3. Len(undoStack) <= 0 /\ undoStack \in Seq(Cells)
    BY <2>1, <2>2, ProberTypes DEF Undone, Top
  <2>4. undoStack = <<>>
    BY ONLY <2>3, EmptyOf
  <2>5. prop # "run"
    BY <1>0, <2>1 DEF Waiting
  <2>6. QED BY <2>1, <2>2, <2>4, <2>5 DEF ProberShape, DeepHold, PassPlaces, DeepPlaces
<1>14. QED
  BY <1>1, <1>2, <1>3, <1>4, <1>5, <1>6, <1>7, <1>9, <1>10, <1>11, <1>12, <1>13 DEF ProberNext

\* Every step of the prober keeps the locals of its subroutine.
LEMMA ProberCallsStep ==
  ASSUME ProberInv, ProberNext
  PROVE  CallTyped' /\ locals' \in ProberLocals
<1> USE DEF brancher, control, engine, store
<1>0. Basics /\ ProberShape /\ CallTyped /\ locals \in ProberLocals
  BY DEF ProberInv
<1>a. ASSUME pc' \in {"pass", "forcing", "forced", "deep", "deepProbe", "deepProbed", "probingEnded"}
      PROVE  CallTyped'
  BY <1>a DEF CallTyped, ProbeAt, SidecarAt, CompleteAt, FillAt
<1>b. ASSUME pc' \in ProbeAt, call' \in ProbeCall PROVE CallTyped'
  BY <1>b DEF CallTyped, ProbeAt, SidecarAt, CompleteAt, FillAt
<1>c. ASSUME pc' = "deepReturn", call'.feasible \in BOOLEAN PROVE CallTyped'
  BY <1>c DEF CallTyped, ProbeAt, SidecarAt, CompleteAt, FillAt
<1>1. CASE ProbeNext
  <2>1. /\ pc' = "probe" /\ call' = [value |-> 0, zeroOk |-> FALSE, ok |-> FALSE, before |-> cells]
        /\ locals' = [locals EXCEPT !.last = FirstOf(Left)] /\ FirstOf(Left) \in Cells
    BY <1>1, NextLeft DEF ProbeNext
  <2>2. call' \in ProbeCall
    BY <1>0, <2>1 DEF ProbeCall, Basics, StoreTypeOK
  <2>3. locals' \in ProberLocals
    <3>1. PICK y \in Cells : y = FirstOf(Left)
      BY <2>1
    <3>2. QED BY <1>0, <2>1, <3>1 DEF ProberLocals
  <2>4. QED BY <1>b, <2>1, <2>2, <2>3 DEF ProbeAt
<1>2. CASE Contradictory \/ ForcedInfeasible \/ Fixpoint
  <2>1. PICK v \in {"contradiction", "fixpoint"} : locals' = [locals EXCEPT !.verdict = v] /\ pc' = "probingEnded"
    BY <1>2 DEF Contradictory, ForcedInfeasible, Fixpoint
  <2>2. QED BY <1>0, <1>a, <2>1 DEF ProberLocals
<1>3. CASE ForcedFeasible
  BY <1>0, <1>3, <1>a DEF ForcedFeasible, ProberLocals
<1>4. CASE PassAgain
  <2>1. locals' = [locals EXCEPT !.last = BeforeAll, !.progress = FALSE] /\ pc' = "pass"
    BY <1>4 DEF PassAgain
  <2>2. BeforeAll \in Cells \cup {BeforeAll}
    OBVIOUS
  <2>3. QED BY <1>0, <1>a, <2>1, <2>2 DEF ProberLocals
<1>5. CASE BothFeasible \/ AssignFound \/ ForcePropagate \/ ProbeDeep \/ DeepPropagate \/ DeepZero \/ DeepOne \/ DeepReturned
  <2>1. /\ pc' \in {"pass", "forcing", "forced", "deep", "deepProbe", "deepProbed", "probingEnded"}
        /\ locals' = locals
    BY <1>5 DEF BothFeasible, AssignFound, ForcePropagate, ProbeDeep, DeepPropagate, DeepZero, DeepOne, DeepReturned
  <2>2. QED BY <1>0, <1>a, <2>1
<1>6. CASE ProbeOne
  <2>1. pc = "unprobe" /\ Probe(1, call.ok) /\ locals' = locals
    BY <1>6 DEF ProbeOne
  <2>2. call.ok \in BOOLEAN
    BY <1>0, <2>1 DEF CallTyped, ProbeAt, ProbeCall
  <2>3. call' \in ProbeCall /\ pc' = "probe"
    BY ONLY <1>0, <2>1, <2>2, 1 \in {0, 1}, ProbeTyped
  <2>4. QED BY <1>0, <1>b, <2>1, <2>3 DEF ProbeAt
<1>7. CASE ProbePropagate \/ ProbeContradiction \/ Undo
  <2>1. pc \in ProbeAt \cup {"loop"} /\ pc' \in ProbeAt \cup {"loop"} /\ (pc = "loop" <=> pc' = "loop") /\ call' = call /\ locals' = locals
    BY <1>7 DEF ProbePropagate, ProbeContradiction, Undo, ProbeAt
  <2>2. pc \in ProbeAt /\ pc' \in ProbeAt
    BY <1>0, <2>1 DEF ProberShape, PassPlaces, DeepPlaces
  <2>3. QED BY <1>0, <1>b, <2>1, <2>2 DEF CallTyped
<1>8. CASE ProbeJudge
  <2>1. pc = "probed" /\ pc' = "unprobe" /\ locals' = locals
    BY <1>8 DEF ProbeJudge
  <2>2. PICK b \in BOOLEAN : call' = [call EXCEPT !.ok = b]
    BY <1>8 DEF ProbeJudge
  <2>3. call' \in ProbeCall
    BY <1>0, <2>1, <2>2 DEF CallTyped, ProbeAt, ProbeCall
  <2>4. QED BY <1>0, <1>b, <2>1, <2>3 DEF ProbeAt
<1>9. CASE Propagating
  <2>1. pc' = pc /\ call' = call /\ locals' = locals /\ prop = "run"
    BY <1>9 DEF Propagating, EngineStep, PopViolated, PopLine, ForceCell, Quiesce
  <2>2. pc \in {"probed", "forced", "deepProbed"}
    BY <1>0, <2>1 DEF ProberShape, PassPlaces, DeepPlaces, Waiting
  <2>3. CASE pc = "probed"
    BY <1>0, <1>b, <2>1, <2>3 DEF CallTyped, ProbeAt
  <2>4. CASE pc # "probed"
    BY <1>0, <1>a, <2>1, <2>2, <2>4
  <2>5. QED BY <1>0, <2>1, <2>3, <2>4
<1>10. CASE DeepInfeasible \/ DeepDecided
  <2>1. pc' = "deepReturn" /\ locals' = locals /\ call'.feasible \in BOOLEAN
    <3>1. CASE DeepInfeasible
      BY <3>1 DEF DeepInfeasible
    <3>2. CASE DeepDecided
      <4>1. call' = [feasible |-> FALSE] \/ call' = [feasible |-> TRUE]
        BY <3>2 DEF DeepDecided
      <4>2. call'.feasible \in BOOLEAN
        <5>1. CASE call' = [feasible |-> FALSE]
          BY <5>1
        <5>2. CASE call' = [feasible |-> TRUE]
          BY <5>2
        <5>3. QED BY <4>1, <5>1, <5>2
      <4>3. QED BY <3>2, <4>2 DEF DeepDecided
    <3>3. QED BY <1>10, <3>1, <3>2
  <2>2. QED BY <1>0, <1>c, <2>1
<1>11. CASE DeepDescend
  <2>1. PICK x \in Open : call' = [feasible |-> FALSE, next |-> x] /\ pc' = "deepNext" /\ cells' = cells /\ locals' = locals
    BY <1>11 DEF DeepDescend
  <2>2. call'.next \in Cells /\ cells'[call'.next] = Unassigned
    BY <2>1 DEF Open
  <2>3. CallTyped'
    BY <2>1, <2>2 DEF CallTyped, ProbeAt, SidecarAt, CompleteAt, FillAt
  <2>4. QED BY <1>0, <2>1, <2>3
<1>12. CASE DeepUndo
  BY <1>0, <1>12, <1>c DEF DeepUndo, CallTyped
<1>13. CASE DeepBoth
  <2>1. pc = "deepReturn" /\ pc' = pc /\ locals' = locals /\ call' = [feasible |-> Top.zeroOk \/ call.feasible]
    BY <1>13 DEF DeepBoth
  <2>2. call'.feasible \in BOOLEAN
    BY <2>1
  <2>3. QED BY <1>0, <1>c, <2>1, <2>2
<1>14. QED
  BY <1>1, <1>2, <1>3, <1>4, <1>5, <1>6, <1>7, <1>8, <1>9, <1>10, <1>11, <1>12, <1>13 DEF ProberNext

LEMMA ProberFramed ==
  ASSUME ProberInv, pc \notin {"pass", "deep", "probingEnded"}
  PROVE  frames # <<>>
<1>1. CASE pc \in PassPlaces
  <2>1. Len(frames) = 1
    BY <1>1 DEF ProberInv, ProberShape
  <2>2. QED BY <2>1
<1>2. CASE pc \in DeepPlaces
  BY <1>2 DEF ProberInv, ProberShape
<1>3. QED BY <1>1, <1>2 DEF ProberInv, ProberShape

\* Every step of the prober grows, shrinks or keeps the trail.
LEMMA ProberMoves ==
  ASSUME ProberInv, ProberNext
  PROVE  (Grow \/ Shrink \/ Keep) /\ StackMoves
<1> USE DEF Waiting
<1>0. undoStack \in Seq(Cells) /\ forced \in Seq(Cells) /\ FramesHold /\ Len(undoStack) \in Nat /\ ~FreshTop
  BY ProberTypes DEF ProberInv, FreshTop
<1>a. ASSUME pc \notin Waiting, pc' \notin Waiting, NEW x \in Cells, NEW v \in {0, 1}, cells[x] = Unassigned, AssignAndRecord(x, v)
      PROVE  (Grow \/ Shrink \/ Keep) /\ StackMoves
  <2>1. Grow
    BY ONLY <1>0, <1>a, RecordGrows
  <2>2. QED BY <1>a, <2>1 DEF StackMoves
<1>1. CASE ProbeNext
  <2>1. pc = "pass" /\ Left # {} /\ pc' = "probe" /\ AssignAndRecord(FirstOf(Left), 0)
    BY <1>1 DEF ProbeNext
  <2>2. FirstOf(Left) \in Cells /\ cells[FirstOf(Left)] = Unassigned
    BY <2>1, NextLeft
  <2>3. PICK x \in Cells : x = FirstOf(Left)
    BY <2>2
  <2>4. cells[x] = Unassigned /\ AssignAndRecord(x, 0) /\ pc \notin Waiting /\ pc' \notin Waiting
    BY <2>1, <2>2, <2>3
  <2>5. QED BY ONLY <1>a, <2>4, 0 \in {0, 1}, x \in Cells
<1>2. CASE \/ Contradictory \/ BothFeasible \/ ForcedInfeasible \/ PassAgain \/ Fixpoint \/ ProbeContradiction
           \/ DeepInfeasible \/ DeepBoth \/ DeepReturned
  <2>1. pc' \notin Waiting /\ UNCHANGED <<store, undoStack>>
    BY <1>2 DEF Contradictory, BothFeasible, ForcedInfeasible, PassAgain, Fixpoint, ProbeContradiction, ProbedBoth,
       DeepInfeasible, DeepBoth, DeepReturned, brancher
  <2>2. Keep
    BY ONLY <1>0, <2>1, StillKeeps
  <2>3. QED BY <2>1, <2>2 DEF StackMoves
<1>3. CASE ForcePropagate \/ ProbePropagate \/ DeepPropagate
  <2>1. forced' = <<>> /\ UNCHANGED <<store, undoStack>>
    BY <1>3 DEF ForcePropagate, ProbePropagate, DeepPropagate, TryPropagateCell, Propagate, brancher
  <2>2. Keep
    BY ONLY <1>0, <2>1, StillKeeps
  <2>3. QED BY <2>1, <2>2 DEF StackMoves
<1>4. CASE ForcedFeasible \/ ProbeJudge \/ DeepDecided \/ DeepDescend
  <2>1. pc \in Waiting /\ pc' \notin Waiting /\ RecordForced /\ UNCHANGED store
    BY <1>4 DEF ForcedFeasible, ProbeJudge, DeepDecided, DeepDescend
  <2>2. Keep
    BY ONLY <1>0, <2>1, NoteKeeps
  <2>3. QED BY <2>1, <2>2 DEF StackMoves
<1>5. CASE Undo \/ DeepUndo
  <2>1. pc \in {"unprobe", "loop", "deepReturn"} /\ pc' = pc /\ UndoLast /\ ~Undone
    BY <1>5 DEF Undo, DeepUndo, control
  <2>2. pc \notin Waiting /\ pc # "probingEnded" /\ frames # <<>>
    <3>1. pc \in {"unprobe", "deepReturn"}
      BY <2>1 DEF ProberInv, ProberShape, PassPlaces, DeepPlaces
    <3>2. QED BY <3>1, ProberFramed
  <2>3. Top.token \in Nat
    BY <2>2, ProberTop
  <2>4. undoStack # <<>>
    BY <1>0, <2>1, <2>3 DEF Undone
  <2>5. Shrink
    BY ONLY <1>0, <2>1, <2>2, <2>4, UndoShrinks
  <2>6. QED BY <2>1, <2>4, <2>5 DEF StackMoves
<1>6. CASE ProbeOne \/ AssignFound \/ DeepOne
  <2>1. /\ frames # <<>> /\ Backing /\ Undone /\ pc \notin Waiting /\ pc' \notin Waiting /\ pc # "probingEnded"
    <3>1. pc \in {"unprobe", "deepReturn"} /\ Undone /\ pc \notin Waiting /\ pc' \notin Waiting /\ pc # "probingEnded"
      BY <1>6 DEF ProbeOne, Probe, AssignFound, DeepOne, ProbedBoth
    <3>2. QED BY <3>1, ProberFramed DEF Backing
  <2>2. FramesPlain
    BY <2>1, ProberTypes
  <2>3. cells[Top.cell] = Unassigned /\ Top.cell \in Cells
    BY ONLY <1>0, <2>1, <2>2, Undoable
  <2>4. PICK v \in {0, 1} : AssignAndRecord(Top.cell, v)
    BY <1>6 DEF ProbeOne, Probe, AssignFound, DeepOne
  <2>5. PICK x \in Cells : x = Top.cell
    BY <2>3
  <2>6. cells[x] = Unassigned /\ AssignAndRecord(x, v)
    BY <2>3, <2>4, <2>5
  <2>7. QED BY ONLY <1>a, <2>1, <2>6, x \in Cells, v \in {0, 1}
<1>7. CASE ProbeDeep
  <2>1. PICK x \in DeepCells, v \in {0, 1} : AssignAndRecord(x, v)
    BY <1>7 DEF ProbeDeep
  <2>2. pc = "deep" /\ pc' = "deepProbe" /\ x \in Cells /\ cells = [y \in Cells |-> Unassigned]
    BY <1>7, ProberAssumption DEF ProbeDeep, ProberInv, DeepHold
  <2>3. cells[x] = Unassigned /\ pc \notin Waiting /\ pc' \notin Waiting
    BY <2>2
  <2>4. QED BY ONLY <1>a, <2>1, <2>2, <2>3
<1>8. CASE DeepZero
  <2>1. pc = "deepNext" /\ pc' = "deepProbe" /\ AssignAndRecord(call.next, 0)
    BY <1>8 DEF DeepZero
  <2>2. PICK x \in Cells : x = call.next /\ cells[x] = Unassigned
    BY <2>1 DEF ProberInv, CallTyped
  <2>3. AssignAndRecord(x, 0) /\ pc \notin Waiting /\ pc' \notin Waiting
    BY <2>1, <2>2
  <2>4. QED BY ONLY <1>a, <2>2, <2>3, x \in Cells, 0 \in {0, 1}
<1>9. CASE Propagating
  <2>1. prop = "run" /\ undoStack' = undoStack
    BY <1>9 DEF Propagating, EngineStep, PopViolated, PopLine, ForceCell, Quiesce, brancher
  <2>2. pc \in Waiting /\ Basics
    BY <2>1 DEF ProberInv, ProberShape
  <2>3. Grow \/ Keep
    BY ONLY <1>9, <2>2, PropagatingMoves
  <2>4. QED BY <2>1, <2>3 DEF StackMoves
<1>10. QED
  BY <1>1, <1>2, <1>3, <1>4, <1>5, <1>6, <1>7, <1>8, <1>9 DEF ProberNext

\* The prober runs the engine, or leaves it alone.
LEMMA ProberEngine ==
  ASSUME ProberInv, ProberNext
  PROVE  \/ UNCHANGED engine \/ EngineStep
         \/ \E lines \in Seq(Lines) : Propagate(lines)
         \/ \E x \in Cells : TryPropagateCell(x)
<1>1. CASE ProbePropagate \/ ForcePropagate \/ DeepPropagate
  <2>1. pc \notin {"pass", "deep", "probingEnded"} /\ TryPropagateCell(Top.cell)
    BY <1>1 DEF ProbePropagate, ForcePropagate, DeepPropagate
  <2>2. frames # <<>> /\ pc # "probingEnded"
    BY <2>1, ProberFramed
  <2>3. Top.cell \in Cells
    BY <2>2, ProberTop
  <2>4. QED BY <2>1, <2>3
<1>2. CASE \/ ProbeNext \/ Contradictory \/ BothFeasible \/ AssignFound \/ ForcedInfeasible \/ ForcedFeasible
           \/ PassAgain \/ Fixpoint \/ Undo \/ ProbeOne \/ ProbeContradiction \/ ProbeJudge
  <2>1. UNCHANGED engine
    BY <1>2 DEF ProbeNext, Contradictory, BothFeasible, AssignFound, ForcedInfeasible, ForcedFeasible,
       PassAgain, Fixpoint, Undo, ProbeOne, Probe, ProbeContradiction, ProbeJudge
  <2>2. QED BY <2>1
<1>3. CASE \/ ProbeDeep \/ DeepInfeasible \/ DeepDecided \/ DeepDescend
           \/ DeepZero \/ DeepUndo \/ DeepOne \/ DeepBoth \/ DeepReturned
  <2>1. UNCHANGED engine
    BY <1>3 DEF ProbeDeep, DeepInfeasible, DeepDecided, DeepDescend, DeepZero, DeepUndo, DeepOne, DeepBoth, DeepReturned
  <2>2. QED BY <2>1
<1>4. CASE Propagating
  BY <1>4 DEF Propagating
<1>5. QED BY <1>1, <1>2, <1>3, <1>4 DEF ProberNext

\* The hint for the next cell is a row, and no cell before that row is free.
LEMMA ProberHint ==
  ASSUME ProberInv, ProberNext
  PROVE  minUnassignedRow' \in Index /\ HintSound'
<1>0. /\ undoStack \in Seq(Cells) /\ forced \in Seq(Cells) /\ StoreTypeOK /\ EngineTypeOK /\ minUnassignedRow \in Index
      /\ HintSound /\ StatsExact
  BY ProberTypes DEF ProberInv, Basics, BranchingTypeOK
<1>a. ASSUME minUnassignedRow' = minUnassignedRow, \A y \in Cells : cells[y] # Unassigned => cells'[y] # Unassigned
      PROVE  minUnassignedRow' \in Index /\ HintSound'
  BY <1>0, <1>a DEF HintSound
<1>b. ASSUME NEW x \in Cells, NEW v \in {0, 1}, Assign(x, v)
      PROVE  \A y \in Cells : cells[y] # Unassigned => cells'[y] # Unassigned
  <2>1. cells'[x] = v /\ \A y \in Cells \ {x} : cells'[y] = cells[y]
    BY ONLY <1>0, <1>b, AssignEffect
  <2>2. v # Unassigned
    BY DEF Unassigned
  <2>3. QED BY <2>1, <2>2
<1>1. CASE DeepDescend
  <2>1. PICK x \in Open : IsFirst(x, Open) /\ minUnassignedRow' = x[1] /\ cells' = cells
    BY <1>1 DEF DeepDescend, NextCell, store
  <2>2. x \in Cells
    BY <2>1 DEF Open
  <2>3. x[1] \in Index
    BY <2>2, CellParts
  <2>4. ASSUME NEW y \in Cells, y[1] < x[1] PROVE cells[y] # Unassigned
    <3>1. Before(y, x)
      BY <2>4 DEF Before
    <3>2. QED BY ONLY <1>0, <2>1, <2>2, <3>1, FirstOpen, y \in Cells
  <2>5. QED BY <2>1, <2>3, <2>4 DEF HintSound
<1>2. CASE Undo \/ DeepUndo
  <2>1. pc \in {"unprobe", "loop", "deepReturn"} /\ UndoLast /\ ~Undone
    BY <1>2 DEF Undo, DeepUndo, control
  <2>2. pc # "probingEnded" /\ frames # <<>>
    <3>1. pc \in {"unprobe", "deepReturn"}
      BY <2>1 DEF ProberInv, ProberShape, PassPlaces, DeepPlaces
    <3>2. QED BY <3>1, ProberFramed
  <2>3. Top.token \in Nat
    BY <2>2, ProberTop
  <2>4. undoStack # <<>>
    BY <1>0, <2>1, <2>3 DEF Undone
  <2>5. PICK x \in Cells : x = undoStack[Len(undoStack)]
    BY <1>0, <2>4
  <2>6. Unassign(x) /\ minUnassignedRow' = IF x[1] < minUnassignedRow THEN x[1] ELSE minUnassignedRow
    BY <2>1, <2>5 DEF UndoLast
  <2>7. cells'[x] = Unassigned /\ \A y \in Cells \ {x} : cells'[y] = cells[y]
    BY ONLY <1>0, <2>6, UnassignEffect, x \in Cells
  <2>8. x[1] \in Index /\ x[1] \in Int /\ minUnassignedRow \in Int
    BY <1>0, CellParts, kSAssumption DEF Index
  <2>9. minUnassignedRow' \in Index /\ minUnassignedRow' \in Int /\ minUnassignedRow' <= x[1] /\ minUnassignedRow' <= minUnassignedRow
    BY <1>0, <2>6, <2>8
  <2>10. ASSUME NEW y \in Cells, y[1] < minUnassignedRow' PROVE cells'[y] # Unassigned
    <3>1. y[1] \in Int
      BY CellParts
    <3>2. y # x /\ y[1] < minUnassignedRow
      BY <2>8, <2>9, <2>10, <3>1
    <3>3. QED BY <1>0, <2>7, <3>2 DEF HintSound
  <2>11. QED BY <2>9, <2>10 DEF HintSound
<1>3. CASE ProbeNext \/ ProbeOne \/ AssignFound \/ ProbeDeep \/ DeepZero \/ DeepOne
  <2>1. PICK x \in Cells, v \in {0, 1} : AssignAndRecord(x, v)
    <3>1. CASE ProbeNext
      <4>1. FirstOf(Left) \in Cells /\ AssignAndRecord(FirstOf(Left), 0)
        BY <3>1, NextLeft DEF ProbeNext
      <4>2. QED BY <4>1
    <3>2. CASE ProbeOne \/ AssignFound \/ DeepOne
      <4>1. pc \notin {"pass", "deep", "probingEnded"}
        BY <3>2 DEF ProbeOne, AssignFound, DeepOne, ProbedBoth
      <4>2. Top.cell \in Cells
        BY <4>1, ProberFramed, ProberTop
      <4>3. PICK v \in {0, 1} : AssignAndRecord(Top.cell, v)
        BY <3>2 DEF ProbeOne, Probe, AssignFound, DeepOne
      <4>4. QED BY <4>2, <4>3
    <3>3. CASE ProbeDeep
      BY <3>3, ProberAssumption DEF ProbeDeep
    <3>4. CASE DeepZero
      <4>1. call.next \in Cells /\ AssignAndRecord(call.next, 0)
        BY <3>4 DEF DeepZero, ProberInv, CallTyped
      <4>2. QED BY <4>1
    <3>5. QED BY <1>3, <3>1, <3>2, <3>3, <3>4
  <2>2. Assign(x, v) /\ minUnassignedRow' = minUnassignedRow
    BY <2>1 DEF AssignAndRecord
  <2>3. QED BY <1>a, <1>b, <2>2
<1>4. CASE Propagating
  <2>1. minUnassignedRow' = minUnassignedRow
    BY <1>4 DEF Propagating, brancher
  <2>2. CASE PopViolated \/ PopLine \/ Quiesce
    <3>1. cells' = cells
      BY <2>2 DEF PopViolated, PopLine, Quiesce, store
    <3>2. QED BY <1>a, <2>1, <3>1
  <2>3. CASE ForceCell
    <3>1. PICK x \in Cells : forcing.value \in {0, 1} /\ Assign(x, forcing.value)
      BY ONLY <1>0, <2>3, ForcedCell
    <3>2. QED BY <1>a, <1>b, <2>1, <3>1
  <2>4. QED BY <1>4, <2>2, <2>3 DEF Propagating, EngineStep
<1>5. CASE \/ Contradictory \/ BothFeasible \/ ForcedInfeasible \/ ForcedFeasible \/ ForcePropagate
           \/ PassAgain \/ Fixpoint \/ ProbePropagate \/ ProbeContradiction \/ ProbeJudge
  <2>1. cells' = cells /\ minUnassignedRow' = minUnassignedRow
    BY <1>5 DEF Contradictory, BothFeasible, ForcedInfeasible, ForcedFeasible, ForcePropagate, brancher, store,
       PassAgain, Fixpoint, ProbePropagate, ProbeContradiction, ProbeJudge
  <2>2. QED BY <1>a, <2>1
<1>6. CASE DeepPropagate \/ DeepInfeasible \/ DeepDecided \/ DeepBoth \/ DeepReturned
  <2>1. cells' = cells /\ minUnassignedRow' = minUnassignedRow
    BY <1>6 DEF DeepPropagate, DeepInfeasible, DeepDecided, DeepBoth, DeepReturned, brancher, store
  <2>2. QED BY <1>a, <2>1
<1>7. QED BY <1>1, <1>2, <1>3, <1>4, <1>5, <1>6 DEF ProberNext

\* Every step of the prober keeps its frames' cells in place,
LEMMA ProberFrames ==
  ASSUME ProberInv, ProberNext
  PROVE  FramesHold'
<1> USE DEF brancher, control
<1>0. /\ undoStack \in Seq(Cells) /\ forced \in Seq(Cells) /\ Len(undoStack) \in Nat /\ FramesHold /\ ProberShape
      /\ Len(frames) \in Nat /\ HeldOnce(cells, undoStack) /\ solver' = solver
  <2>1. undoStack \in Seq(Cells) /\ forced \in Seq(Cells) /\ Recorded
    BY ProberTypes DEF ProberInv
  <2>2. HeldOnce(cells, undoStack)
    BY ONLY <2>1, RecordedParts
  <2>3. QED BY <2>1, <2>2, ProberTypes, ProberInput DEF ProberInv, input
<1>1. ~FreshTop /\ ~FreshTop'
  BY <1>0 DEF FreshTop, ProberInv
<1>2. CASE \/ Contradictory \/ BothFeasible \/ ForcedInfeasible \/ ForcedFeasible \/ DeepReturned
  BY <1>2, FramesGone DEF Contradictory, BothFeasible, ForcedInfeasible, ForcedFeasible, DeepReturned
<1>a. ASSUME pc \in {"pass", "deep"} PROVE frames = <<>>
  <2>1. CASE pc = "pass"
    <3>1. frames \in Seq(ProbeFrame) /\ Len(frames) = 0
      BY <1>0, <2>1 DEF ProberShape, PassPlaces
    <3>2. QED BY ONLY <3>1, EmptyOf
  <2>2. CASE pc = "deep"
    BY <1>0, <2>2 DEF ProberShape, DeepPlaces
  <2>3. QED BY <1>a, <2>1, <2>2
<1>3. CASE PassAgain \/ Fixpoint
  <2>1. pc = "pass" /\ frames' = frames
    BY <1>3 DEF PassAgain, Fixpoint
  <2>2. QED BY <1>a, <2>1, FramesGone
<1>4. CASE ProbeNext \/ ProbeDeep
  <2>1. pc \in {"pass", "deep"} /\ pc' \in {"probe", "deepProbe"}
    BY <1>4 DEF ProbeNext, ProbeDeep
  <2>2. frames = <<>> /\ Len(frames) = 0
    BY <1>a, <2>1
  <2>3. PICK x, f : x \in Cells /\ frames' = <<f>> /\ f.cell = x /\ f.token = Len(undoStack) /\ undoStack' = Append(undoStack, x)
    <3>1. CASE ProbeNext
      <4>1. /\ frames' = <<[cell |-> FirstOf(Left), token |-> Len(undoStack)]>> /\ undoStack' = Append(undoStack, FirstOf(Left))
            /\ FirstOf(Left) \in Cells
        BY <3>1, NextLeft DEF ProbeNext, AssignAndRecord
      <4>2. QED BY <4>1
    <3>2. CASE ProbeDeep
      <4>1. PICK x \in DeepCells, v \in {0, 1}, depth \in 1..kMaxDepth :
              frames' = <<DeepFrame(x, v, depth)>> /\ undoStack' = Append(undoStack, x)
        BY <3>2 DEF ProbeDeep, AssignAndRecord
      <4>2. x \in Cells /\ DeepFrame(x, v, depth).cell = x /\ DeepFrame(x, v, depth).token = Len(undoStack)
        BY ProberAssumption DEF DeepFrame
      <4>3. QED BY <4>1, <4>2
    <3>3. QED BY <1>4, <3>1, <3>2
  <2>4. /\ Len(frames') = Len(frames) + 1 /\ \A i \in 1..Len(frames) : frames'[i] = frames[i]
        /\ Top' = f
    <3>1. Len(<<f>>) = 1 /\ <<f>>[1] = f /\ 1 = 0 + 1 /\ \A i \in 1..0 : FALSE
      OBVIOUS
    <3>2. QED BY <2>2, <2>3, <3>1 DEF Top
  <2>5. Nested(frames, Len(frames), undoStack)
    BY <2>2 DEF Nested
  <2>6. FramesPlain
    BY <2>1, ProberTypes
  <2>7. pc' \notin {"loop", "unprobe", "deepReturn"} /\ Top'.cell = x /\ Top'.token = Len(undoStack) /\ undoStack' = Append(undoStack, x)
    BY <2>1, <2>3, <2>4
  <2>8. QED BY ONLY <1>0, <2>4, <2>5, <2>6, <2>7, <2>3, FramesPush
<1>5. CASE DeepZero
  <2>1. /\ pc = "deepNext" /\ pc' = "deepProbe" /\ frames' = Append(frames, DeepFrame(call.next, 0, Top.depth - 1))
        /\ undoStack' = Append(undoStack, call.next)
    BY <1>5 DEF DeepZero, AssignAndRecord
  <2>2. /\ frames \in Seq(DeepFrames) /\ frames # <<>> /\ Deeper(frames) /\ frames[1].token = 0
        /\ frames[Len(frames)].depth > 1 /\ FramesPlain
    BY <1>0, <2>1, ProberTypes DEF DeepPlaces, DeepHold, Top, ProberInv, ProberShape
  <2>3. PICK x \in Cells : x = call.next
    BY <2>1 DEF ProberInv, CallTyped
  <2>4. PICK g : g = DeepFrame(x, 0, Top.depth - 1)
    OBVIOUS
  <2>5. g = [cell |-> x, value |-> 0, depth |-> frames[Len(frames)].depth - 1, token |-> Len(undoStack), zeroOk |-> FALSE]
    BY <2>4 DEF DeepFrame, Top
  <2>6. /\ Len(Append(frames, g)) = Len(frames) + 1 /\ \A i \in 1..Len(frames) : Append(frames, g)[i] = frames[i]
        /\ Append(frames, g)[Len(Append(frames, g))] = g /\ g.cell = x /\ g.token = Len(undoStack)
    BY ONLY <1>0, <2>2, <2>5, x \in Cells, DeepPushed
  <2>7. frames' = Append(frames, g)
    BY <2>1, <2>3, <2>4
  <2>8. /\ Len(frames') = Len(frames) + 1 /\ \A i \in 1..Len(frames) : frames'[i] = frames[i]
        /\ Top'.cell = x /\ Top'.token = Len(undoStack)
    BY <2>6, <2>7 DEF Top
  <2>9. Nested(frames, Len(frames), undoStack)
    BY <1>0, <2>1, <2>2 DEF FramesHold, Backing
  <2>10. pc' \notin {"loop", "unprobe", "deepReturn"} /\ undoStack' = Append(undoStack, x)
    BY <2>1, <2>3
  <2>11. QED BY ONLY <1>0, <2>2, <2>8, <2>9, <2>10, x \in Cells, FramesPush
<1>6. CASE ProbeOne \/ AssignFound \/ DeepOne
  <2>1. /\ pc \in {"unprobe", "deepReturn"} /\ Undone /\ pc' \notin {"loop", "unprobe", "deepReturn"} /\ pc # "probingEnded"
        /\ undoStack' = Append(undoStack, Top.cell)
    BY <1>6 DEF ProbeOne, Probe, AssignFound, DeepOne, ProbedBoth, AssignAndRecord
  <2>2. frames # <<>> /\ FramesPlain /\ Backing
    BY <2>1, ProberFramed, ProberTypes DEF Backing
  <2>3. Top.token = Len(undoStack)
    BY ONLY <1>0, <1>1, <2>1, <2>2, Undoable
  <2>4. /\ Len(frames') = Len(frames) /\ \A i \in 1..(Len(frames) - 1) : frames'[i] = frames[i]
        /\ Top'.cell = Top.cell /\ Top'.token = Len(undoStack)
    <3>1. CASE ProbeOne \/ AssignFound
      <4>1. frames' = frames
        BY <3>1 DEF ProbeOne, AssignFound
      <4>2. QED BY <2>3, <4>1 DEF Top
    <3>2. CASE DeepOne
      <4>1. /\ pc = "deepReturn" /\ frames' = [frames EXCEPT ![Len(frames)].value = 1, ![Len(frames)].zeroOk = call.feasible]
        BY <3>2 DEF DeepOne
      <4>2. frames \in Seq(DeepFrames) /\ Deeper(frames) /\ frames[1].token = 0
        BY <1>0, <2>2, <4>1 DEF DeepPlaces, ProberShape, ProberInv, DeepHold
      <4>3. PICK b \in BOOLEAN : b = call.feasible
        BY <4>1 DEF ProberInv, CallTyped
      <4>4. frames' = [frames EXCEPT ![Len(frames)].value = 1, ![Len(frames)].zeroOk = b]
        BY <4>1, <4>3
      <4>5. /\ Len(frames') = Len(frames) /\ \A i \in 1..(Len(frames) - 1) : frames'[i] = frames[i]
            /\ frames'[Len(frames')].cell = frames[Len(frames)].cell /\ frames'[Len(frames')].token = frames[Len(frames)].token
        BY ONLY <2>2, <4>2, <4>4, b \in BOOLEAN, DeepRetopped
      <4>6. QED BY <2>3, <4>5 DEF Top
    <3>3. QED BY <1>6, <3>1, <3>2
  <2>5. QED BY ONLY <1>0, <2>1, <2>2, <2>4, FramesTake
<1>7. CASE Undo \/ DeepUndo
  <2>1. pc \in {"unprobe", "loop", "deepReturn"} /\ pc' = pc /\ UndoLast /\ ~Undone /\ frames' = frames
    BY <1>7 DEF Undo, DeepUndo
  <2>2. pc # "probingEnded" /\ frames # <<>> /\ Backing
    <3>1. pc \in {"unprobe", "deepReturn"}
      BY <1>0, <2>1 DEF ProberShape, PassPlaces, DeepPlaces
    <3>2. QED BY <3>1, ProberFramed DEF Backing
  <2>3. Top.token \in Nat /\ FramesPlain /\ StoreTypeOK
    BY <2>2, ProberTop, ProberTypes
  <2>4. undoStack # <<>>
    BY <1>0, <2>1, <2>3 DEF Undone
  <2>5. undoStack' = SubSeq(undoStack, 1, Len(undoStack) - 1) /\ cells'[undoStack[Len(undoStack)]] = Unassigned
    <3>1. PICK x \in Cells : x = undoStack[Len(undoStack)]
      BY <1>0, <2>4
    <3>2. Unassign(x)
      BY <2>1, <3>1 DEF UndoLast
    <3>3. cells'[x] = Unassigned
      BY ONLY <2>3, <3>2, UnassignEffect, x \in Cells
    <3>4. QED BY <2>1, <3>1, <3>3 DEF UndoLast
  <2>6. QED BY ONLY <1>0, <1>1, <2>1, <2>2, <2>3, <2>4, <2>5, FramesUndo
<1>8. CASE DeepBoth
  <2>1. /\ pc = "deepReturn" /\ Len(frames) > 1 /\ frames' = SubSeq(frames, 1, Len(frames) - 1) /\ undoStack' = undoStack
    BY <1>8 DEF DeepBoth
  <2>2. frames \in Seq(DeepFrames) /\ frames # <<>> /\ Deeper(frames) /\ frames[1].token = 0 /\ FramesPlain /\ pc # "probingEnded"
    BY <1>0, <2>1, ProberTypes DEF DeepPlaces, ProberShape, ProberInv, DeepHold
  <2>3. Len(frames') = Len(frames) - 1 /\ \A i \in 1..(Len(frames) - 1) : frames'[i] = frames[i]
    BY ONLY <2>1, <2>2, DeepPopped
  <2>4. frames' # <<>> => Len(frames') \in 1..Len(frames')
    BY <1>0, <2>1, <2>3
  <2>5. QED BY ONLY <1>0, <1>1, <2>1, <2>2, <2>3, <2>4, FramesPop
<1>9. CASE \/ ForcePropagate \/ ProbePropagate \/ ProbeContradiction \/ ProbeJudge
           \/ DeepPropagate \/ DeepInfeasible \/ DeepDecided \/ DeepDescend \/ Propagating
  <2>1. /\ pc \in {"probe", "probed", "forcing", "forced", "deepProbe", "deepProbed"} /\ frames' = frames
        /\ (undoStack' = undoStack \/ RecordForced)
    <3>1. CASE Propagating
      <4>1. prop = "run" /\ frames' = frames /\ undoStack' = undoStack
        BY <3>1 DEF Propagating, EngineStep, PopViolated, PopLine, ForceCell, Quiesce
      <4>2. QED BY <1>0, <4>1 DEF ProberShape, PassPlaces, DeepPlaces, Waiting
    <3>2. QED
      BY <1>9, <3>1 DEF ForcePropagate, ProbePropagate, ProbeContradiction, ProbeJudge,
         DeepPropagate, DeepInfeasible, DeepDecided, DeepDescend
  <2>2. frames # <<>> /\ FramesPlain /\ ~Backing /\ pc # "probingEnded"
    BY <2>1, ProberFramed, ProberTypes DEF Backing
  <2>3. Longer
    BY ONLY <1>0, <2>1, GrownLonger
  <2>4. /\ undoStack' \in Seq(Cells) /\ Len(undoStack) <= Len(undoStack')
        /\ \A p \in 1..Len(undoStack) : undoStack'[p] = undoStack[p]
    BY ONLY <2>3 DEF Longer
  <2>5. QED BY ONLY <1>0, <1>1, <2>1, <2>2, <2>4, FramesForward
<1>10. QED
  BY <1>2, <1>3, <1>4, <1>5, <1>6, <1>7, <1>8, <1>9 DEF ProberNext

\* and what a probe can take back.
LEMMA ProberProbes ==
  ASSUME ProberInv, ProberNext
  PROVE  ProbesHold'
<1>1. CASE ProbeNext
  <2>1. /\ pc' = "probe" /\ AssignAndRecord(FirstOf(Left), 0) /\ call'.before = cells
        /\ frames' = <<[cell |-> FirstOf(Left), token |-> Len(undoStack)]>>
        /\ FirstOf(Left) \in Cells /\ cells[FirstOf(Left)] = Unassigned
    BY <1>1, NextLeft DEF ProbeNext
  <2>2. PICK x, f : x \in Cells /\ x = FirstOf(Left) /\ f = [cell |-> x, token |-> Len(undoStack)] /\ f.token = Len(undoStack)
    BY <2>1
  <2>3. Len(<<f>>) = 1 /\ <<f>>[1] = f
    OBVIOUS
  <2>4. Top'.token = Len(undoStack)
    BY <2>1, <2>2, <2>3 DEF Top
  <2>5. cells[x] = Unassigned /\ AssignAndRecord(x, 0)
    BY <2>1, <2>2
  <2>6. StoreTypeOK /\ undoStack \in Seq(Cells)
    BY ProberTypes
  <2>7. QED BY ONLY <2>1, <2>4, <2>5, <2>6, <2>2, ProbesBegin, 0 \in {0, 1}
<1>2. CASE Undo \/ ProbeOne \/ ProbePropagate \/ ProbeContradiction \/ ProbeJudge \/ Propagating
  <2>1. CASE pc = "probingEnded"
    <3>1. FALSE
      BY <1>2, <2>1 DEF Undo, ProbeOne, ProbePropagate, ProbeContradiction, ProbeJudge, Propagating, EngineStep,
         PopViolated, PopLine, ForceCell, Quiesce, ProberInv, ProberShape, Waiting
    <3>2. QED BY <3>1
  <2>2. CASE pc # "probingEnded"
    <3>1. FramesPlain /\ (prop = "run" => pc \in Waiting) /\ (pc \in ProbeAt => frames # <<>>)
      BY <2>2, ProberTypes, ProberFramed DEF ProbeAt, ProberInv, ProberShape
    <3>2. Searching
      BY <3>1 DEF Searching, ProberInv
    <3>3. QED BY <1>2, <3>2, ProbesStep
  <2>3. QED BY <2>1, <2>2
<1>3. CASE \/ Contradictory \/ BothFeasible \/ AssignFound \/ ForcePropagate \/ ForcedInfeasible \/ ForcedFeasible
           \/ PassAgain \/ Fixpoint
  <2>1. pc' \notin ProbeAt
    BY <1>3 DEF Contradictory, BothFeasible, AssignFound, ForcePropagate, ForcedInfeasible, ForcedFeasible,
       PassAgain, Fixpoint, ProbeAt, brancher
  <2>2. QED BY <2>1 DEF ProbesHold
<1>4. CASE \/ ProbeDeep \/ DeepPropagate \/ DeepInfeasible \/ DeepDecided \/ DeepDescend
           \/ DeepZero \/ DeepUndo \/ DeepOne \/ DeepBoth \/ DeepReturned
  <2>1. pc' \notin ProbeAt
    BY <1>4 DEF ProbeDeep, DeepPropagate, DeepInfeasible, DeepDecided, DeepDescend,
       DeepZero, DeepUndo, DeepOne, DeepBoth, DeepReturned, ProbeAt, control
  <2>2. QED BY <2>1 DEF ProbesHold
<1>5. QED BY <1>1, <1>2, <1>3, <1>4 DEF ProberNext

\* Every step of the prober keeps its invariant.
LEMMA ProberStep ==
  ASSUME ProberInv, ProberNext
  PROVE  ProberInv'
<1>1. /\ Basics /\ StatsExact /\ Recorded /\ solver = "prober"
  BY DEF ProberInv
<1>2. UNCHANGED input /\ answers' = answers
  BY ProberInput
<1>3. ProberShape' /\ DeepHold' /\ CallTyped' /\ locals' \in ProberLocals /\ FramesHold' /\ ProbesHold' /\ HintSound'
  BY ProberShapeStep, ProberCallsStep, ProberFrames, ProberProbes, ProberHint
<1>4. (StoreTypeOK /\ StatsExact /\ Recorded)'
  BY <1>1, ProberMoves, StoreStep
<1>5. EngineTypeOK'
  <2>1. EngineTypeOK /\ UNCHANGED target
    BY <1>1, <1>2 DEF Basics, input
  <2>2. QED BY <2>1, ProberEngine, EngineMoves
<1>6. BranchingTypeOK'
  <2>1. undoStack' \in Seq(Cells)
    BY ProberMoves, ProberTypes, StackTyped
  <2>2. QED BY <2>1, ProberHint DEF BranchingTypeOK
<1>7. InputTyped' /\ solver' = "prober" /\ answers' \in Seq(SUBSET Cells)
  BY <1>1, <1>2 DEF Basics, InputTyped, input
<1>8. Basics'
  BY <1>4, <1>5, <1>6, <1>7 DEF Basics
<1>9. QED BY <1>3, <1>4, <1>7, <1>8 DEF ProberInv

-------------------------------------------------------------------------------
(* The serial search.                                                      *)

SerialShape ==
  /\ pc \in SerialPlaces
  /\ prop = "run" => pc \in {"serialInitial", "linePropagated"}
  /\ frames \in Seq(Nodes)
  /\ pc \in {"serialStart", "serialInitial"} => frames = <<>>
  /\ pc \in {"candidate", "lineAssigned", "linePropagated", "cascade"} => frames # <<>>

\* The locals of solveRecursive's node and of the cascade.
NodeCall    == [lines : Seq(Lines), axis : {"none"}]
CascadeCall ==
  [lines : Seq(Lines), axis : {"row", "column"}, from : Nat, changed : BOOLEAN, rows : BOOLEAN, columns : BOOLEAN]

SerialCalls ==
  /\ pc \in {"lineAssigned", "linePropagated"} => call \in NodeCall \cup CascadeCall
  /\ pc = "cascade" => call \in CascadeCall

SnapshotExact(s) ==
  /\ s.rowBits = {x \in Cells : s.cells[x] = 1}
  /\ \A l \in Lines : /\ s.unknown[l] = Cardinality({x \in CellsOn[l] : s.cells[x] = Unassigned})
                      /\ s.ones[l] = Cardinality({x \in CellsOn[l] : s.cells[x] = 1})

Holding(a, b)   == \A x \in Cells : a[x] # Unassigned => b[x] = a[x]
AllKnown(c, l) == \A x \in CellsOn[l] : c[x] # Unassigned

\* A node's snapshot is the store as it was; its candidates are for the cells that
\* were free in it.
NodeHold(f) ==
  /\ SnapshotExact(f.snapshot)
  /\ \A S \in f.candidates : \A x \in S : x \in CellsOn[f.line] /\ f.snapshot.cells[x] = Unassigned

\* Each node started from what those above it had settled, their rows included.
NodesStand(fs) ==
  /\ \A i \in 1..Len(fs) : NodeHold(fs[i])
  /\ \A i, j \in 1..Len(fs) : i < j =>
       /\ Holding(fs[i].snapshot.cells, fs[j].snapshot.cells)
       /\ AllKnown(fs[j].snapshot.cells, fs[i].line)

NodesHold ==
  /\ NodesStand(frames)
  /\ \A i \in 1..Len(frames) : Holding(frames[i].snapshot.cells, cells)
  /\ pc = "candidate" => cells = Node.snapshot.cells
  /\ pc \in {"solve", "lineAssigned", "linePropagated", "cascade"} /\ frames # <<>> => AllKnown(cells, Node.line)

SerialInv ==
  /\ Basics /\ StatsExact /\ solver = "serial" /\ SerialShape /\ SerialCalls
  /\ locals \in SerialLocals /\ NodesHold

\* Rows and columns are lines.
LEMMA AxisLines ==
  /\ \A i \in Index, axis \in {"row", "column"} : Line(axis, i) \in Lines
  /\ \A r \in Index : RowOf(r) \in Lines
<1>1. ASSUME NEW i \in Index, NEW axis \in {"row", "column"} PROVE Line(axis, i) \in Lines
  <2>1. <<i, i>> \in Cells /\ axis \in LineTypes
    BY DEF Cells, LineTypes
  <2>2. LineIndex(<<i, i>>)[axis] = i
    BY DEF LineIndex
  <2>3. QED BY <2>1, <2>2, LinesOfCell
<1>2. QED BY <1>1 DEF RowOf

\* The node the recursion is at.
LEMMA NodeTyped ==
  ASSUME SerialInv, frames # <<>>
  PROVE  /\ Node \in Nodes /\ Len(frames) \in 1..Len(frames) /\ Node = frames[Len(frames)]
         /\ Node.line \in Lines /\ Node.snapshot \in Stored
         /\ Node.snapshot.cells \in [Cells -> CellState]
<1>1. frames \in Seq(Nodes)
  BY DEF SerialInv, SerialShape
<1>2. PICK n \in Nat : n = Len(frames) /\ n \in 1..n /\ frames[n] \in Nodes
  BY <1>1
<1>3. Node = frames[n]
  BY <1>2 DEF Node, Depth
<1>4. \A r \in Index : RowOf(r) \in Lines
  BY AxisLines
<1>5. \A f \in Nodes : f.line \in Lines /\ f.snapshot \in Stored
  BY <1>4 DEF Nodes
<1>6. \A s \in Stored : s.cells \in [Cells -> CellState]
  BY DEF Stored
<1>7. QED BY <1>2, <1>3, <1>5, <1>6

LEMMA HoldingChain ==
  ASSUME NEW a, NEW b, NEW c, Holding(a, b), Holding(b, c)
  PROVE  Holding(a, c)
BY DEF Holding

\* A settled line stays settled while no assigned cell changes.
LEMMA SettledStays ==
  ASSUME NEW a, NEW b, NEW l \in Lines, Holding(a, b), AllKnown(a, l)
  PROVE  AllKnown(b, l)
<1>1. CellsOn[l] \in SUBSET Cells
  BY DEF CellsOn
<1>2. QED BY <1>1 DEF Holding, AllKnown

\* The store as it is, as a snapshot.
LEMMA SnapshotTyped ==
  ASSUME StoreTypeOK, StatsExact
  PROVE  Snapshot \in Stored /\ SnapshotExact(Snapshot) /\ Snapshot.cells = cells
<1>1. Snapshot \in Stored
  BY DEF Snapshot, Stored, StoreTypeOK
<1>2. Snapshot.cells = cells /\ Snapshot.rowBits = rowBits /\ Snapshot.unknown = unknown /\ Snapshot.ones = ones
  BY DEF Snapshot
<1>3. SnapshotExact(Snapshot)
  BY <1>2 DEF SnapshotExact, StatsExact, UnknownOn, OnesOn
<1>4. QED BY <1>1, <1>2, <1>3

\* A candidate is for the free cells of its line.
LEMMA CandidatesFree ==
  ASSUME NEW l, NEW S \in Candidates(l)
  PROVE  S \in SUBSET FreeOn(l)
BY DEF Candidates, Solutions

LEMMA FreeCells ==
  ASSUME NEW l \in Lines
  PROVE  FreeOn(l) \in SUBSET Cells /\ \A x \in FreeOn(l) : x \in CellsOn[l] /\ cells[x] = Unassigned
BY DEF FreeOn, UnknownOn, CellsOn

\* The recursion's stack: a node entered, a candidate tried, a node left.
LEMMA NodePushed ==
  ASSUME NEW fs \in Seq(Nodes), NodesStand(fs), NEW g \in Nodes, NodeHold(g),
         \A i \in 1..Len(fs) : Holding(fs[i].snapshot.cells, g.snapshot.cells) /\ AllKnown(g.snapshot.cells, fs[i].line)
  PROVE  /\ Append(fs, g) \in Seq(Nodes) /\ NodesStand(Append(fs, g)) /\ Append(fs, g) # <<>>
         /\ Len(Append(fs, g)) = Len(fs) + 1 /\ \A i \in 1..Len(fs) : Append(fs, g)[i] = fs[i]
         /\ Append(fs, g)[Len(Append(fs, g))] = g
<1>1. PICK n \in Nat : n = Len(fs)
  OBVIOUS
<1>2. PICK gs : gs = Append(fs, g)
  OBVIOUS
<1>3. gs \in Seq(Nodes) /\ Len(gs) = n + 1 /\ gs # <<>> /\ gs[n + 1] = g /\ \A i \in 1..n : gs[i] = fs[i]
  BY <1>1, <1>2
<1>4. \A i \in 1..(n + 1) : i \in 1..n \/ i = n + 1
  BY <1>1
<1>5. \A i \in 1..Len(gs) : NodeHold(gs[i])
  BY <1>1, <1>3, <1>4 DEF NodesStand
<1>6. ASSUME NEW i \in 1..(n + 1), NEW j \in 1..(n + 1), i < j
      PROVE  Holding(gs[i].snapshot.cells, gs[j].snapshot.cells) /\ AllKnown(gs[j].snapshot.cells, gs[i].line)
  <2>1. i \in 1..n
    BY <1>6
  <2>2. CASE j \in 1..n
    BY <1>1, <1>3, <1>6, <2>1, <2>2 DEF NodesStand
  <2>3. CASE j = n + 1
    BY <1>1, <1>3, <2>1, <2>3
  <2>4. QED BY <1>4, <2>2, <2>3
<1>7. NodesStand(gs)
  BY <1>3, <1>5, <1>6 DEF NodesStand
<1>8. QED BY <1>1, <1>2, <1>3, <1>7

\* The node whose candidate S is tried, with the snapshot s.
Retried(fs, S, s) == [fs EXCEPT ![Len(fs)].candidates = @ \ {S}, ![Len(fs)].snapshot = s]

LEMMA NodeRetried ==
  ASSUME NEW fs \in Seq(Nodes), NodesStand(fs), fs # <<>>, NEW S, NEW s \in Stored, SnapshotExact(s),
         s.cells = fs[Len(fs)].snapshot.cells,
         NEW gs, gs = Retried(fs, S, s)
  PROVE  /\ gs \in Seq(Nodes) /\ NodesStand(gs) /\ Len(gs) = Len(fs) /\ gs # <<>>
         /\ \A i \in 1..(Len(fs) - 1) : gs[i] = fs[i]
         /\ gs[Len(gs)].snapshot = s /\ gs[Len(gs)].line = fs[Len(fs)].line
<1>1. PICK n \in Nat : n = Len(fs) /\ n \in 1..n /\ fs[n] \in Nodes /\ DOMAIN fs = 1..n
  OBVIOUS
<1>2. PICK f \in Nodes : f = fs[n]
  BY <1>1
<1>3. PICK h : h = [f EXCEPT !.candidates = @ \ {S}]
  OBVIOUS
<1>4. h \in Nodes /\ h.line = f.line /\ h.candidates \subseteq f.candidates
  BY <1>3 DEF Nodes
<1>5. PICK g : g = [h EXCEPT !.snapshot = s]
  OBVIOUS
<1>6. g \in Nodes /\ g.line = h.line /\ g.candidates = h.candidates /\ g.snapshot = s
  BY <1>4, <1>5 DEF Nodes
<1>7. gs = [fs EXCEPT ![n] = g]
  BY <1>1, <1>2, <1>3, <1>5 DEF Retried
<1>8. \A i \in 1..(n - 1) : i \in 1..n /\ i # n
  BY <1>1
<1>9. gs \in Seq(Nodes) /\ Len(gs) = n /\ gs[n] = g /\ \A i \in 1..(n - 1) : gs[i] = fs[i]
  <2>1. /\ [fs EXCEPT ![n] = g] \in Seq(Nodes) /\ Len([fs EXCEPT ![n] = g]) = n
        /\ [fs EXCEPT ![n] = g][n] = g /\ \A i \in 1..(n - 1) : [fs EXCEPT ![n] = g][i] = fs[i]
    BY ONLY <1>1, <1>6, <1>8, fs \in Seq(Nodes)
  <2>2. QED BY ONLY <1>7, <2>1
<1>10. gs # <<>>
  BY <1>1, <1>9
<1>11. \A i \in 1..n : gs[i].line = fs[i].line /\ gs[i].snapshot.cells = fs[i].snapshot.cells
  <2>1. ASSUME NEW i \in 1..n PROVE gs[i].line = fs[i].line /\ gs[i].snapshot.cells = fs[i].snapshot.cells
    <3>1. CASE i = n
      BY <1>1, <1>2, <1>4, <1>6, <1>9, <3>1
    <3>2. CASE i # n
      <4>1. i \in 1..(n - 1)
        BY <3>2
      <4>2. QED BY <1>9, <4>1
    <3>3. QED BY <3>1, <3>2
  <2>2. QED BY <2>1
<1>12. NodeHold(g)
  <2>1. NodeHold(f)
    BY <1>1, <1>2 DEF NodesStand
  <2>2. s.cells = f.snapshot.cells
    BY <1>1, <1>2
  <2>3. QED BY <1>4, <1>6, <2>1, <2>2 DEF NodeHold
<1>13. \A i \in 1..n : NodeHold(gs[i])
  <2>1. ASSUME NEW i \in 1..n PROVE NodeHold(gs[i])
    <3>1. CASE i = n
      BY <1>9, <1>12, <3>1
    <3>2. CASE i # n
      <4>1. i \in 1..(n - 1)
        BY <3>2
      <4>2. QED BY <1>1, <1>9, <4>1 DEF NodesStand
    <3>3. QED BY <3>1, <3>2
  <2>2. QED BY <2>1
<1>14. NodesStand(gs)
  <2>1. ASSUME NEW i \in 1..n, NEW j \in 1..n, i < j
        PROVE  Holding(gs[i].snapshot.cells, gs[j].snapshot.cells) /\ AllKnown(gs[j].snapshot.cells, gs[i].line)
    <3>1. Holding(fs[i].snapshot.cells, fs[j].snapshot.cells) /\ AllKnown(fs[j].snapshot.cells, fs[i].line)
      BY <1>1, <2>1 DEF NodesStand
    <3>2. QED BY ONLY <1>11, <3>1, i \in 1..n, j \in 1..n
  <2>2. QED BY ONLY <1>9, <1>13, <2>1 DEF NodesStand
<1>15. QED BY <1>1, <1>2, <1>4, <1>6, <1>9, <1>10, <1>14

LEMMA NodePopped ==
  ASSUME NEW fs \in Seq(Nodes), NodesStand(fs), fs # <<>>, NEW gs, gs = SubSeq(fs, 1, Len(fs) - 1)
  PROVE  /\ gs \in Seq(Nodes) /\ NodesStand(gs) /\ Len(gs) = Len(fs) - 1 /\ Len(gs) \in Nat
         /\ \A i \in 1..(Len(fs) - 1) : gs[i] = fs[i] /\ i \in 1..Len(fs)
<1>1. PICK n \in Nat : n = Len(fs) /\ n \in 1..n
  OBVIOUS
<1>2. gs \in Seq(Nodes) /\ Len(gs) = n - 1 /\ \A i \in 1..(n - 1) : gs[i] = fs[i]
  <2>1. PICK T : T = Nodes
    OBVIOUS
  <2>2. fs \in Seq(T)
    BY <2>1
  <2>3. /\ SubSeq(fs, 1, Len(fs) - 1) \in Seq(T) /\ Len(SubSeq(fs, 1, Len(fs) - 1)) = Len(fs) - 1
        /\ \A p \in 1..(Len(fs) - 1) : SubSeq(fs, 1, Len(fs) - 1)[p] = fs[p]
    BY ONLY <2>2, ButLast, fs # <<>>
  <2>4. QED BY ONLY <1>1, <2>1, <2>3, gs = SubSeq(fs, 1, Len(fs) - 1)
<1>3. \A i \in 1..(n - 1) : i \in 1..n
  BY <1>1
<1>4. NodesStand(gs)
  BY <1>1, <1>2, <1>3 DEF NodesStand
<1>5. QED BY <1>1, <1>2, <1>3, <1>4

\* What a step does to the store, unless it restores a snapshot: it assigns free
\* cells.
LEMMA SerialGrows ==
  ASSUME StoreTypeOK, StatsExact, EngineTypeOK,
         \/ UNCHANGED store
         \/ \E l \in Lines : \E S \in SUBSET FreeOn(l) : AssignLine(l, S)
         \/ EngineStep
  PROVE  (StoreTypeOK /\ StatsExact)' /\ Holding(cells, cells')
<1>1. CASE UNCHANGED store
  BY <1>1 DEF store, StoreTypeOK, StatsExact, Holding, UnknownOn, OnesOn
<1>2. CASE \E l \in Lines : \E S \in SUBSET FreeOn(l) : AssignLine(l, S)
  <2>1. PICK l \in Lines : \E S \in SUBSET FreeOn(l) : AssignLine(l, S)
    BY <1>2
  <2>2. PICK S \in SUBSET FreeOn(l) : AssignLine(l, S)
    BY <2>1
  <2>3. (StoreTypeOK /\ StatsExact)'
    BY ONLY StoreTypeOK, StatsExact, <2>2, AssignLineExact, l \in Lines, S \in SUBSET FreeOn(l)
  <2>4. \A x \in Cells : x \in FreeOn(l) => cells[x] = Unassigned
    BY FreeCells
  <2>5. Holding(cells, cells')
    BY <2>2, <2>4 DEF AssignLine, Holding
  <2>6. QED BY <2>3, <2>5
<1>3. CASE EngineStep
  <2>1. CASE ForceCell
    <3>1. PICK x \in Cells : cells[x] = Unassigned /\ forcing.value \in {0, 1} /\ Assign(x, forcing.value)
      BY <2>1, ForcedCell
    <3>2. PICK v \in {0, 1} : v = forcing.value
      BY <3>1
    <3>3. Assign(x, v) /\ cells[x] = Unassigned
      BY <3>1, <3>2
    <3>4. (StoreTypeOK /\ StatsExact)'
      BY ONLY StoreTypeOK, StatsExact, <3>3, AssignExact, x \in Cells, v \in {0, 1}
    <3>5. \A y \in Cells \ {x} : cells'[y] = cells[y]
      BY ONLY StoreTypeOK, <3>3, AssignEffect, x \in Cells, v \in {0, 1}
    <3>6. Holding(cells, cells')
      BY <3>3, <3>5 DEF Holding
    <3>7. QED BY <3>4, <3>6
  <2>2. CASE PopViolated \/ PopLine \/ Quiesce
    <3>1. UNCHANGED store
      BY <2>2 DEF PopViolated, PopLine, Quiesce
    <3>2. QED BY <1>1, <3>1
  <2>3. QED BY <1>3, <2>1, <2>2 DEF EngineStep
<1>4. QED BY <1>1, <1>2, <1>3

\* restoreSnapshot.
LEMMA Restored ==
  ASSUME NEW s \in Stored, SnapshotExact(s),
         cells' = s.cells, rowBits' = s.rowBits, unknown' = s.unknown, ones' = s.ones
  PROVE  (StoreTypeOK /\ StatsExact)'
<1>1. StoreTypeOK'
  BY DEF Stored, StoreTypeOK
<1>2. rowBits' = {x \in Cells : cells'[x] = 1}
  BY DEF SnapshotExact
<1>3. \A l \in Lines : unknown'[l] = Cardinality(UnknownOn(l)') /\ ones'[l] = Cardinality(OnesOn(l)')
  BY DEF SnapshotExact, UnknownOn, OnesOn
<1>4. QED BY ONLY <1>1, <1>2, <1>3 DEF StatsExact

\* The serial search changes neither its input nor the undo stack it does not use.
LEMMA SerialInput == SerialNext => UNCHANGED <<input, brancher>>
<1> SUFFICES ASSUME SerialNext PROVE UNCHANGED <<input, brancher>>
  OBVIOUS
<1>1. CASE SerialStart \/ SerialPropagated \/ Solved \/ NoRow \/ Branch \/ TryCandidate \/ AllTried \/ Restore \/ Unsolved
  BY <1>1 DEF SerialStart, SerialPropagated, Solved, NoRow, Branch, TryCandidate, AllTried, Restore, Unsolved
<1>2. CASE \/ PropagateLine \/ LineInfeasible \/ CascadeStart \/ LineCompleted \/ CompleteLine \/ NextPass \/ ForwardCheck
           \/ Propagating
  BY <1>2 DEF PropagateLine, LineInfeasible, CascadeStart, LineCompleted, CompleteLine, NextPass, ForwardCheck, Propagating
<1>3. QED BY <1>1, <1>2 DEF SerialNext

\* A candidate that is tried is for the free cells of its line.
LEMMA TriedFree ==
  ASSUME SerialInv, pc = "candidate", NEW S \in Node.candidates
  PROVE  /\ frames # <<>> /\ Node.line \in Lines /\ S \in SUBSET FreeOn(Node.line)
         /\ cells = Node.snapshot.cells
<1>1. frames # <<>>
  BY DEF SerialInv, SerialShape
<1>2. Node = frames[Len(frames)] /\ Len(frames) \in 1..Len(frames) /\ Node \in Nodes /\ Node.line \in Lines
  BY <1>1, NodeTyped
<1>3. NodeHold(Node) /\ cells = Node.snapshot.cells
  BY <1>2 DEF SerialInv, NodesHold, NodesStand
<1>4. S \in SUBSET Cells
  BY <1>2 DEF Nodes
<1>5. S \in SUBSET FreeOn(Node.line)
  BY <1>3, <1>4 DEF NodeHold, FreeOn, UnknownOn
<1>6. QED BY <1>1, <1>2, <1>3, <1>5

\* A line that the cascade completes has a candidate.
LEMMA UniqueFree ==
  ASSUME NEW l, Cardinality(Candidates(l)) = 1
  PROVE  (CHOOSE S \in Candidates(l) : TRUE) \in SUBSET FreeOn(l)
<1>1. Candidates(l) # {}
  BY FS_EmptySet
<1>2. (CHOOSE S \in Candidates(l) : TRUE) \in Candidates(l)
  BY <1>1
<1>3. QED BY <1>2, CandidatesFree

\* No assigned cell changes, except where a snapshot is restored.
LEMMA SerialStore ==
  ASSUME SerialInv, SerialNext, ~Restore
  PROVE  (StoreTypeOK /\ StatsExact)' /\ Holding(cells, cells')
<1>0. StoreTypeOK /\ StatsExact /\ EngineTypeOK
  BY DEF SerialInv, Basics
<1>1. CASE TryCandidate
  <2>1. PICK S \in Node.candidates : AssignLine(Node.line, S) /\ pc = "candidate"
    BY <1>1 DEF TryCandidate
  <2>2. Node.line \in Lines /\ S \in SUBSET FreeOn(Node.line)
    BY <2>1, TriedFree
  <2>3. QED BY <1>0, <2>1, <2>2, SerialGrows
<1>2. CASE CompleteLine
  <2>1. PICK i \in Unique : AssignLine(Line(call.axis, i), CHOOSE S \in Candidates(Line(call.axis, i)) : TRUE) /\ pc = "cascade"
    BY <1>2 DEF CompleteLine
  <2>2. i \in Index /\ Cardinality(Candidates(Line(call.axis, i))) = 1
    BY <2>1 DEF Unique
  <2>3. call.axis \in {"row", "column"}
    BY <2>1 DEF SerialInv, SerialCalls, CascadeCall
  <2>4. PICK l \in Lines : l = Line(call.axis, i)
    BY <2>2, <2>3, AxisLines
  <2>5. PICK S \in SUBSET FreeOn(l) : S = CHOOSE T \in Candidates(l) : TRUE
    BY <2>2, <2>4, UniqueFree
  <2>6. AssignLine(l, S)
    BY <2>1, <2>4, <2>5
  <2>7. QED BY <1>0, <2>6, SerialGrows
<1>3. CASE Propagating
  BY <1>0, <1>3, SerialGrows DEF Propagating
<1>4. CASE \/ SerialStart \/ SerialPropagated \/ Solved \/ NoRow \/ Branch \/ AllTried \/ Unsolved
           \/ PropagateLine \/ LineInfeasible \/ CascadeStart \/ LineCompleted \/ NextPass \/ ForwardCheck
  <2>1. UNCHANGED store
    BY <1>4 DEF SerialStart, SerialPropagated, Solved, NoRow, Branch, AllTried, Unsolved,
       PropagateLine, LineInfeasible, CascadeStart, LineCompleted, NextPass, ForwardCheck
  <2>2. QED BY <1>0, <2>1, SerialGrows
<1>5. QED BY <1>1, <1>2, <1>3, <1>4 DEF SerialNext

\* The serial search runs the engine, or leaves it alone.
LEMMA SerialEngine ==
  ASSUME SerialInv, SerialNext
  PROVE  \/ UNCHANGED engine \/ EngineStep
         \/ \E lines \in Seq(Lines) : Propagate(lines)
         \/ \E x \in Cells : TryPropagateCell(x)
<1>1. CASE SerialStart
  BY <1>1, AllLinesTyped DEF SerialStart
<1>2. CASE PropagateLine
  <2>1. call \in NodeCall \cup CascadeCall /\ Propagate(call.lines)
    BY <1>2 DEF PropagateLine, SerialInv, SerialCalls
  <2>2. call.lines \in Seq(Lines)
    BY <2>1 DEF NodeCall, CascadeCall
  <2>3. QED BY <2>1, <2>2
<1>3. CASE Propagating
  BY <1>3 DEF Propagating
<1>4. CASE \/ SerialPropagated \/ Solved \/ NoRow \/ Branch \/ TryCandidate \/ AllTried \/ Restore \/ Unsolved
           \/ LineInfeasible \/ CascadeStart \/ LineCompleted \/ CompleteLine \/ NextPass \/ ForwardCheck
  <2>1. UNCHANGED engine
    BY <1>4 DEF SerialPropagated, Solved, NoRow, Branch, TryCandidate, AllTried, Restore, Unsolved,
       LineInfeasible, CascadeStart, LineCompleted, CompleteLine, NextPass, ForwardCheck
  <2>2. QED BY <2>1
<1>5. QED BY <1>1, <1>2, <1>3, <1>4 DEF SerialNext

\* The frames, whatever the step.
LEMMA SerialFrames ==
  ASSUME SerialInv, SerialNext
  PROVE  /\ frames' \in Seq(Nodes) /\ NodesStand(frames')
         /\ \A i \in 1..Len(frames') : Holding(frames'[i].snapshot.cells, cells')
         /\ Branch \/ TryCandidate => frames' # <<>>
         /\ Branch => cells' = Node'.snapshot.cells
         /\ TryCandidate => AllKnown(cells', Node'.line)
         /\ ~(Branch \/ TryCandidate \/ AllTried) => frames' = frames
<1>0. /\ frames \in Seq(Nodes) /\ NodesStand(frames) /\ Len(frames) \in Nat /\ StoreTypeOK /\ StatsExact
      /\ \A i \in 1..Len(frames) : Holding(frames[i].snapshot.cells, cells)
  BY DEF SerialInv, SerialShape, NodesHold, Basics
<1>1. CASE Branch
  <2>1. PICK r \in Index : /\ pc = "solve"
                           /\ frames' = Append(frames, [line |-> RowOf(r), candidates |-> Candidates(RowOf(r)),
                                                        snapshot |-> Snapshot])
                           /\ cells' = cells
    BY <1>1 DEF Branch, UsableRows, RowsTried, TractableRows, store
  <2>2. PICK l \in Lines : l = RowOf(r)
    BY AxisLines
  <2>3. PICK g : g = [line |-> l, candidates |-> Candidates(l), snapshot |-> Snapshot]
    OBVIOUS
  <2>4. Snapshot \in Stored /\ SnapshotExact(Snapshot) /\ Snapshot.cells = cells
    BY <1>0, SnapshotTyped
  <2>5. \A S \in Candidates(l) : S \in SUBSET FreeOn(l)
    BY CandidatesFree
  <2>6. FreeOn(l) \in SUBSET Cells /\ \A x \in FreeOn(l) : x \in CellsOn[l] /\ cells[x] = Unassigned
    BY FreeCells
  <2>7. Candidates(l) \in SUBSET SUBSET Cells
    BY <2>5, <2>6
  <2>8. g \in Nodes
    <3>1. l \in {RowOf(q) : q \in Index}
      BY <2>2
    <3>2. QED BY ONLY <2>3, <2>4, <2>7, <3>1 DEF Nodes
  <2>9. g.line = l /\ g.candidates = Candidates(l) /\ g.snapshot = Snapshot /\ g.snapshot.cells = cells
    BY <2>3, <2>4
  <2>10. NodeHold(g)
    BY <2>4, <2>5, <2>6, <2>9 DEF NodeHold
  <2>11. \A i \in 1..Len(frames) : Holding(frames[i].snapshot.cells, g.snapshot.cells) /\ AllKnown(g.snapshot.cells, frames[i].line)
    <3>1. ASSUME NEW i \in 1..Len(frames)
          PROVE  Holding(frames[i].snapshot.cells, cells) /\ AllKnown(cells, frames[i].line)
      <4>0. PICK f \in Nodes : f = frames[i]
        BY <1>0
      <4>a. f.line \in {RowOf(q) : q \in Index}
        BY DEF Nodes
      <4>b. f.line \in Lines
        BY <4>a, AxisLines
      <4>c. Len(frames) # 0
        BY <1>0
      <4>1. frames # <<>> /\ frames[i].line \in Lines
        BY <4>0, <4>b, <4>c
      <4>2. PICK n \in Nat : n = Len(frames) /\ n \in 1..n /\ Node = frames[n]
        BY <4>1, NodeTyped
      <4>3. AllKnown(cells, frames[n].line)
        BY <2>1, <4>1, <4>2 DEF SerialInv, NodesHold
      <4>4. CASE i = n
        BY <1>0, <4>3, <4>4
      <4>5. CASE i # n
        <5>1. i < n
          BY <4>2, <4>5
        <5>2. AllKnown(frames[n].snapshot.cells, frames[i].line)
          BY <1>0, <4>2, <5>1 DEF NodesStand
        <5>3. Holding(frames[n].snapshot.cells, cells)
          BY <1>0, <4>2
        <5>4. AllKnown(cells, frames[i].line)
          BY ONLY <4>1, <5>2, <5>3, SettledStays
        <5>5. QED BY <1>0, <5>4
      <4>6. QED BY <4>4, <4>5
    <3>2. QED BY ONLY <2>9, <3>1
  <2>12. /\ Append(frames, g) \in Seq(Nodes) /\ NodesStand(Append(frames, g)) /\ Append(frames, g) # <<>>
         /\ Len(Append(frames, g)) = Len(frames) + 1 /\ \A i \in 1..Len(frames) : Append(frames, g)[i] = frames[i]
         /\ Append(frames, g)[Len(Append(frames, g))] = g
    BY ONLY <1>0, <2>8, <2>10, <2>11, NodePushed
  <2>13. frames' = Append(frames, g)
    BY <2>1, <2>2, <2>3
  <2>14. Node' = g
    BY <2>12, <2>13 DEF Node, Depth
  <2>15. \A i \in 1..Len(frames') : Holding(frames'[i].snapshot.cells, cells')
    <3>1. Holding(cells, cells)
      BY DEF Holding
    <3>2. ASSUME NEW i \in 1..Len(frames') PROVE Holding(frames'[i].snapshot.cells, cells)
      <4>1. CASE i = Len(frames')
        BY <2>9, <2>12, <2>13, <3>1, <4>1
      <4>2. CASE i # Len(frames')
        <5>1. i \in 1..Len(frames) /\ frames'[i] = frames[i]
          BY <1>0, <2>12, <2>13, <4>2
        <5>2. QED BY <1>0, <5>1
      <4>3. QED BY <4>1, <4>2
    <3>3. QED BY ONLY <2>1, <3>2
  <2>16. ~TryCandidate
    BY <2>1 DEF TryCandidate
  <2>17. QED BY <1>1, <2>1, <2>9, <2>12, <2>13, <2>14, <2>15, <2>16
<1>2. CASE TryCandidate
  <2>1. PICK S \in Node.candidates :
          /\ pc = "candidate" /\ AssignLine(Node.line, S)
          /\ frames' = [frames EXCEPT ![Depth].candidates = @ \ {S}, ![Depth].snapshot = Snapshot]
    BY <1>2 DEF TryCandidate
  <2>2. frames # <<>> /\ Node.line \in Lines /\ cells = Node.snapshot.cells /\ Node = frames[Len(frames)]
        /\ Len(frames) \in 1..Len(frames)
    BY <2>1, TriedFree, NodeTyped
  <2>3. Snapshot \in Stored /\ SnapshotExact(Snapshot) /\ Snapshot.cells = cells
    BY <1>0, SnapshotTyped
  <2>4. PICK s \in Stored : s = Snapshot
    BY <2>3
  <2>5. SnapshotExact(s) /\ s.cells = frames[Len(frames)].snapshot.cells
    BY <2>2, <2>3, <2>4
  <2>6. frames' = [frames EXCEPT ![Len(frames)].candidates = @ \ {S}, ![Len(frames)].snapshot = s]
    BY <2>1, <2>4 DEF Depth
  <2>7. /\ frames' \in Seq(Nodes) /\ NodesStand(frames') /\ Len(frames') = Len(frames) /\ frames' # <<>>
        /\ \A i \in 1..(Len(frames) - 1) : frames'[i] = frames[i]
        /\ frames'[Len(frames')].snapshot = s /\ frames'[Len(frames')].line = frames[Len(frames)].line
    <3>1. PICK gs : gs = frames'
      OBVIOUS
    <3>2. PICK fs : fs = frames
      OBVIOUS
    <3>3. PICK W : W = S
      OBVIOUS
    <3>4. gs = Retried(fs, W, s)
      BY <2>6, <3>1, <3>2, <3>3 DEF Retried
    <3>5. fs \in Seq(Nodes) /\ NodesStand(fs) /\ fs # <<>> /\ s.cells = fs[Len(fs)].snapshot.cells /\ SnapshotExact(s)
      BY <1>0, <2>2, <2>5, <3>2
    <3>6. /\ gs \in Seq(Nodes) /\ NodesStand(gs) /\ Len(gs) = Len(fs) /\ gs # <<>>
          /\ \A i \in 1..(Len(fs) - 1) : gs[i] = fs[i]
          /\ gs[Len(gs)].snapshot = s /\ gs[Len(gs)].line = fs[Len(fs)].line
      BY ONLY <3>4, <3>5, s \in Stored, NodeRetried
    <3>7. QED BY <3>1, <3>2, <3>6
  <2>8. Node'.line = Node.line
    BY <2>2, <2>7 DEF Node, Depth
  <2>9. AllKnown(cells', Node.line)
    <3>1. CellsOn[Node.line] \in SUBSET Cells
      BY <2>2 DEF CellsOn
    <3>2. QED BY <2>1, <3>1 DEF AssignLine, AllKnown, FreeOn, UnknownOn, Unassigned
  <2>10. Holding(cells, cells')
    <3>1. ~Restore
      BY <2>1 DEF Restore
    <3>2. QED BY <3>1, SerialStore
  <2>11. \A i \in 1..Len(frames') : Holding(frames'[i].snapshot.cells, cells')
    <3>1. ASSUME NEW i \in 1..Len(frames') PROVE Holding(frames'[i].snapshot.cells, cells')
      <4>1. CASE i = Len(frames')
        BY <2>3, <2>4, <2>7, <2>10, <4>1
      <4>2. CASE i # Len(frames')
        <5>1. i \in 1..Len(frames) /\ frames'[i] = frames[i]
          BY <1>0, <2>7, <4>2
        <5>2. Holding(frames[i].snapshot.cells, cells)
          BY <1>0, <5>1
        <5>3. QED BY ONLY <2>10, <5>1, <5>2, HoldingChain
      <4>3. QED BY <4>1, <4>2
    <3>2. QED BY <3>1
  <2>12. ~Branch
    BY <2>1 DEF Branch
  <2>13. QED BY <1>2, <2>7, <2>8, <2>9, <2>11, <2>12
<1>3. CASE AllTried
  <2>1. pc = "candidate" /\ frames' = SubSeq(frames, 1, Len(frames) - 1) /\ cells' = cells
    BY <1>3 DEF AllTried, Depth, store
  <2>2. frames # <<>>
    BY <2>1 DEF SerialInv, SerialShape
  <2>3. /\ frames' \in Seq(Nodes) /\ NodesStand(frames') /\ Len(frames') = Len(frames) - 1
        /\ \A i \in 1..(Len(frames) - 1) : frames'[i] = frames[i] /\ i \in 1..Len(frames)
    BY ONLY <1>0, <2>1, <2>2, NodePopped
  <2>4. ~Branch /\ ~TryCandidate
    BY <1>3, <2>1 DEF Branch, TryCandidate, AllTried
  <2>5. \A i \in 1..Len(frames') : Holding(frames'[i].snapshot.cells, cells')
    BY <1>0, <2>1, <2>3
  <2>6. QED BY <1>3, <2>3, <2>4, <2>5
<1>4. CASE Restore
  <2>1. frames # <<>> /\ frames' = frames /\ cells' = Node.snapshot.cells /\ pc = "fail"
    BY <1>4 DEF Restore
  <2>2. ~Branch /\ ~TryCandidate
    BY <2>1 DEF Branch, TryCandidate
  <2>3. PICK n \in Nat : n = Len(frames) /\ n \in 1..n /\ Node = frames[n]
    BY <2>1, NodeTyped
  <2>4. ASSUME NEW i \in 1..n PROVE Holding(frames[i].snapshot.cells, frames[n].snapshot.cells)
    <3>1. CASE i = n
      BY <3>1 DEF Holding
    <3>2. CASE i # n
      <4>1. i < n
        BY <2>3, <3>2
      <4>2. QED BY <1>0, <2>3, <4>1 DEF NodesStand
    <3>3. QED BY <3>1, <3>2
  <2>5. QED BY <1>0, <2>1, <2>2, <2>3, <2>4
<1>5. CASE ~(Branch \/ TryCandidate \/ AllTried \/ Restore)
  <2>1. frames' = frames
    <3>1. CASE SerialStart \/ SerialPropagated \/ Solved \/ NoRow \/ Unsolved
      BY <3>1 DEF SerialStart, SerialPropagated, Solved, NoRow, Unsolved
    <3>2. CASE \/ PropagateLine \/ LineInfeasible \/ CascadeStart \/ LineCompleted
               \/ CompleteLine \/ NextPass \/ ForwardCheck \/ Propagating
      BY <3>2 DEF PropagateLine, LineInfeasible, CascadeStart, LineCompleted, CompleteLine, NextPass, ForwardCheck,
         Propagating, control
    <3>3. QED BY <1>5, <3>1, <3>2 DEF SerialNext
  <2>2. Holding(cells, cells')
    BY <1>5, SerialStore
  <2>3. ASSUME NEW i \in 1..Len(frames) PROVE Holding(frames[i].snapshot.cells, cells')
    <3>1. Holding(frames[i].snapshot.cells, cells)
      BY <1>0
    <3>2. QED BY ONLY <2>2, <3>1, HoldingChain
  <2>4. QED BY <1>0, <1>5, <2>1, <2>3
<1>6. QED BY <1>1, <1>2, <1>3, <1>4, <1>5

\* solveRecursive's place, its locals and the cascade's.
LEMMA SerialTypes ==
  ASSUME SerialInv, SerialNext
  PROVE  /\ pc' \in SerialPlaces
         /\ answers' \in Seq(SUBSET Cells)
         /\ locals' \in SerialLocals
         /\ SerialCalls'
<1>0. /\ pc \in SerialPlaces /\ answers \in Seq(SUBSET Cells) /\ locals \in SerialLocals /\ SerialCalls
      /\ rowBits \in SUBSET Cells /\ cells \in [Cells -> CellState]
  BY DEF SerialInv, SerialShape, Basics, StoreTypeOK
<1>1. CASE \/ SerialStart \/ SerialPropagated \/ Branch \/ AllTried \/ Restore \/ Unsolved
           \/ LineInfeasible \/ ForwardCheck
  BY <1>0, <1>1 DEF SerialStart, SerialPropagated, Branch, AllTried, Restore, Unsolved,
     LineInfeasible, ForwardCheck, SerialPlaces, SerialCalls
<1>2. CASE Solved
  <2>1. locals' \in SerialLocals
    BY <1>0, <1>2 DEF Solved, SerialLocals
  <2>2. answers' = <<rowBits>> /\ pc' = "serialEnded"
    BY <1>2 DEF Solved
  <2>3. QED BY <1>0, <2>1, <2>2 DEF SerialPlaces, SerialCalls
<1>3. CASE NoRow
  <2>1. PICK T : T = [Cells -> CellState]
    OBVIOUS
  <2>a. locals.stuckAt \in Seq(T) /\ cells \in T
    BY <1>0, <2>1 DEF SerialLocals
  <2>b. Append(locals.stuckAt, cells) \in Seq(T)
    BY ONLY <2>a
  <2>c. PICK s \in Seq(T) : s = Append(locals.stuckAt, cells)
    BY ONLY <2>b
  <2>d. locals' = [locals EXCEPT !.stuckAt = s]
    BY <1>3, <2>c DEF NoRow
  <2>e. SerialLocals = [solved : BOOLEAN, stuckAt : Seq(T)]
    BY ONLY <2>1 DEF SerialLocals
  <2>2. locals' \in SerialLocals
    BY ONLY <1>0, <2>d, <2>e, s \in Seq(T)
  <2>3. answers' = answers /\ pc' = "fail"
    BY <1>3 DEF NoRow
  <2>4. QED BY <1>0, <2>2, <2>3 DEF SerialPlaces, SerialCalls
<1>4. CASE TryCandidate
  <2>1. call' = [lines |-> LinesOf(FreeOn(Node.line)), axis |-> "none"] /\ pc' = "lineAssigned"
        /\ answers' = answers /\ locals' = locals
    BY <1>4 DEF TryCandidate
  <2>2. call' \in NodeCall
    <3>1. frames # <<>>
      BY <1>4 DEF TryCandidate, SerialInv, SerialShape
    <3>2. FreeOn(Node.line) \in SUBSET Cells
      BY <3>1, NodeTyped, FreeCells
    <3>3. LinesOf(FreeOn(Node.line)) \in Seq(Lines)
      BY <3>2, LinesOfTyped
    <3>4. QED BY <2>1, <3>3 DEF NodeCall
  <2>3. QED BY <1>0, <2>1, <2>2 DEF SerialPlaces, SerialCalls
<1>5. CASE PropagateLine \/ Propagating
  <2>1. answers' = answers /\ locals' = locals /\ call' = call
    BY <1>5 DEF PropagateLine, Propagating, control
  <2>2. (pc = "lineAssigned" /\ pc' = "linePropagated") \/ pc' = pc
    BY <1>5 DEF PropagateLine, Propagating, control
  <2>3. QED BY <1>0, <2>1, <2>2 DEF SerialPlaces, SerialCalls
<1>6. CASE CascadeStart
  <2>1. call' = CascadeFrom(FALSE) /\ pc' = "cascade" /\ answers' = answers /\ locals' = locals
    BY <1>6 DEF CascadeStart
  <2>2. call' \in CascadeCall
    BY <2>1 DEF CascadeFrom, CascadeCall
  <2>3. QED BY <1>0, <2>1, <2>2 DEF SerialPlaces, SerialCalls
<1>7. CASE LineCompleted
  <2>1. /\ pc = "linePropagated" /\ call.axis # "none" /\ pc' = "cascade" /\ answers' = answers /\ locals' = locals
        /\ call' = [call EXCEPT !.changed = TRUE,
                          !.rows = @ \/ call.axis = "row", !.columns = @ \/ call.axis = "column"]
    BY <1>7 DEF LineCompleted
  <2>2. call \in CascadeCall
    BY <1>0, <2>1 DEF SerialCalls, NodeCall
  <2>3. call' \in CascadeCall
    <3>1. PICK a \in BOOLEAN : a = (call.rows \/ call.axis = "row")
      OBVIOUS
    <3>2. PICK b \in BOOLEAN : b = (call.columns \/ call.axis = "column")
      OBVIOUS
    <3>3. call' = [call EXCEPT !.changed = TRUE, !.rows = a, !.columns = b]
      BY <2>1, <2>2, <3>1, <3>2 DEF CascadeCall
    <3>4. QED BY ONLY <2>2, <3>3 DEF CascadeCall
  <2>4. QED BY <1>0, <2>1, <2>3 DEF SerialPlaces, SerialCalls
<1>8. CASE CompleteLine
  <2>1. PICK i \in Unique : /\ pc = "cascade" /\ pc' = "lineAssigned" /\ answers' = answers /\ locals' = locals
                            /\ call' = [call EXCEPT !.lines = LinesOf(FreeOn(Line(call.axis, i))), !.from = i + 1]
    BY <1>8 DEF CompleteLine
  <2>2. call \in CascadeCall /\ i \in Nat
    BY <1>0, <2>1 DEF SerialCalls, Unique, Index
  <2>3. PICK s \in Seq(Lines) : s = LinesOf(FreeOn(Line(call.axis, i)))
    <3>1. Line(call.axis, i) \in Lines
      <4>1. i \in Index /\ call.axis \in {"row", "column"}
        BY <2>2 DEF Unique, CascadeCall
      <4>2. QED BY <4>1, AxisLines
    <3>2. FreeOn(Line(call.axis, i)) \in SUBSET Cells
      BY <3>1, FreeCells
    <3>3. QED BY <3>2, LinesOfTyped
  <2>4. call' = [call EXCEPT !.lines = s, !.from = i + 1]
    BY <2>1, <2>3
  <2>a. PICK T : T = Seq(Lines)
    OBVIOUS
  <2>b. CascadeCall = [lines : T, axis : {"row", "column"}, from : Nat, changed : BOOLEAN, rows : BOOLEAN, columns : BOOLEAN]
    BY ONLY <2>a DEF CascadeCall
  <2>c. s \in T /\ i + 1 \in Nat
    BY <2>2, <2>a
  <2>5. call' \in CascadeCall
    BY ONLY <2>2, <2>4, <2>b, <2>c
  <2>6. QED BY <1>0, <2>1, <2>5 DEF SerialPlaces, SerialCalls
<1>9. CASE NextPass
  <2>1. pc = "cascade" /\ pc' = pc /\ answers' = answers /\ locals' = locals
    BY <1>9 DEF NextPass
  <2>2. call \in CascadeCall
    BY <1>0, <2>1 DEF SerialCalls
  <2>3. CASE call' = [call EXCEPT !.from = 0, !.changed = FALSE]
    <3>1. call' \in CascadeCall
      BY ONLY <2>2, <2>3 DEF CascadeCall
    <3>2. QED BY <1>0, <2>1, <3>1 DEF SerialCalls
  <2>4. CASE call' = [call EXCEPT !.axis = "column", !.from = 0]
    <3>1. call' \in CascadeCall
      BY ONLY <2>2, <2>4 DEF CascadeCall
    <3>2. QED BY <1>0, <2>1, <3>1 DEF SerialCalls
  <2>5. CASE call' = CascadeFrom(FALSE)
    <3>1. call' \in CascadeCall
      BY ONLY <2>5 DEF CascadeCall, CascadeFrom
    <3>2. QED BY <1>0, <2>1, <3>1 DEF SerialCalls
  <2>6. QED BY <1>9, <2>3, <2>4, <2>5 DEF NextPass
<1>10. QED BY <1>1, <1>2, <1>3, <1>4, <1>5, <1>6, <1>7, <1>8, <1>9 DEF SerialNext

\* Every step of the serial search keeps its place and its stack in keeping,
LEMMA SerialShapeStep ==
  ASSUME SerialInv, SerialNext
  PROVE  SerialShape'
<1>0. /\ frames \in Seq(Nodes) /\ NodesStand(frames) /\ SerialShape
      /\ frames' \in Seq(Nodes) /\ pc' \in SerialPlaces
      /\ (Branch \/ TryCandidate => frames' # <<>>)
      /\ (~(Branch \/ TryCandidate \/ AllTried) => frames' = frames)
  BY SerialFrames, SerialTypes DEF SerialInv, SerialShape, NodesHold
<1>1. CASE Branch \/ TryCandidate
  <2>1. frames' # <<>> /\ pc' \in {"candidate", "lineAssigned"} /\ prop # "run" /\ prop' = prop
    <3>1. pc \in {"solve", "candidate"} /\ prop' = prop /\ pc' \in {"candidate", "lineAssigned"}
      BY <1>1 DEF Branch, TryCandidate, engine, queue
    <3>2. QED BY <1>0, <1>1, <3>1 DEF SerialShape
  <2>2. QED BY <1>0, <2>1 DEF SerialShape
<1>2. CASE AllTried
  <2>1. pc = "candidate" /\ pc' = "fail" /\ prop' = prop
    BY <1>2 DEF AllTried, engine, queue
  <2>2. QED BY <1>0, <2>1 DEF SerialShape
<1>3. CASE Propagating
  <2>1. prop = "run" /\ pc' = pc /\ frames' = frames
    BY <1>3 DEF Propagating, EngineStep, PopViolated, PopLine, ForceCell, Quiesce, control
  <2>2. QED BY <1>0, <2>1 DEF SerialShape
<1>4. CASE SerialStart \/ PropagateLine
  <2>1. /\ frames' = frames
        /\ (pc = "serialStart" /\ pc' = "serialInitial") \/ (pc = "lineAssigned" /\ pc' = "linePropagated")
    BY <1>4 DEF SerialStart, PropagateLine
  <2>2. QED BY <1>0, <2>1 DEF SerialShape
<1>5. CASE SerialPropagated \/ LineInfeasible \/ CascadeStart \/ LineCompleted
  <2>1. prop # "run" /\ prop' = prop /\ frames' = frames
        /\ (pc' \in {"solve", "serialEnded", "fail"} \/ (pc = "linePropagated" /\ pc' = "cascade"))
    BY <1>5 DEF SerialPropagated, LineInfeasible, CascadeStart, LineCompleted, engine, queue
  <2>2. QED BY <1>0, <2>1 DEF SerialShape
<1>6. CASE Solved \/ NoRow \/ Unsolved \/ ForwardCheck
  <2>1. prop' = prop /\ frames' = frames /\ pc \in {"solve", "fail", "cascade"} /\ pc' \in {"serialEnded", "fail", "solve"}
    BY <1>6 DEF Solved, NoRow, Unsolved, ForwardCheck, engine, queue
  <2>2. QED BY <1>0, <2>1 DEF SerialShape
<1>7. CASE Restore
  <2>1. prop' = prop /\ frames' = frames /\ frames # <<>> /\ pc = "fail" /\ pc' = "candidate"
    BY <1>7 DEF Restore, engine, queue
  <2>2. QED BY <1>0, <2>1 DEF SerialShape
<1>8. CASE CompleteLine \/ NextPass
  <2>1. prop' = prop /\ frames' = frames /\ pc = "cascade" /\ pc' \in {"lineAssigned", "cascade"}
    BY <1>8 DEF CompleteLine, NextPass, engine, queue
  <2>2. QED BY <1>0, <2>1 DEF SerialShape
<1>9. QED BY <1>1, <1>2, <1>3, <1>4, <1>5, <1>6, <1>7, <1>8 DEF SerialNext

\* each node's snapshot below what is settled now,
LEMMA SerialNodes ==
  ASSUME SerialInv, SerialNext
  PROVE  NodesHold'
<1>0. /\ SerialShape /\ NodesHold /\ NodesStand(frames')
      /\ \A i \in 1..Len(frames') : Holding(frames'[i].snapshot.cells, cells')
      /\ (Branch => cells' = Node'.snapshot.cells)
      /\ (TryCandidate => AllKnown(cells', Node'.line))
      /\ (~(Branch \/ TryCandidate \/ AllTried) => frames' = frames)
  BY SerialFrames DEF SerialInv
<1> DEFINE Rowed == {"solve", "lineAssigned", "linePropagated", "cascade"}
<1> SUFFICES /\ pc' = "candidate" => cells' = Node'.snapshot.cells
             /\ pc' \in Rowed /\ frames' # <<>> => AllKnown(cells', Node'.line)
  BY <1>0 DEF NodesHold
<1>1. CASE Branch \/ TryCandidate
  <2>1. (Branch /\ pc' = "candidate") \/ (TryCandidate /\ pc' = "lineAssigned")
    BY <1>1 DEF Branch, TryCandidate
  <2>2. QED BY <1>0, <2>1
<1>2. CASE AllTried \/ NoRow \/ LineInfeasible \/ Solved \/ Unsolved \/ SerialStart
  <2>1. pc' \in {"fail", "serialEnded", "serialInitial"}
    BY <1>2 DEF AllTried, NoRow, LineInfeasible, Solved, Unsolved, SerialStart
  <2>2. QED BY <2>1
<1>3. CASE Restore
  <2>1. pc' = "candidate" /\ cells' = Node.snapshot.cells /\ frames' = frames
    BY <1>3 DEF Restore
  <2>2. QED BY <2>1 DEF Node, Depth
<1>4. CASE SerialPropagated
  <2>1. pc = "serialInitial" /\ frames' = frames /\ pc' # "candidate"
    BY <1>4 DEF SerialPropagated
  <2>2. QED BY <1>0, <2>1 DEF SerialShape
<1>5. CASE PropagateLine \/ CascadeStart \/ LineCompleted \/ CompleteLine \/ NextPass \/ ForwardCheck \/ Propagating
  <2>1. frames' = frames /\ ~Restore
        /\ (pc \in Rowed \/ pc = "serialInitial") /\ (pc = "serialInitial" => pc' = pc) /\ pc' # "candidate"
    <3>1. CASE Propagating
      <4>1. prop = "run" /\ pc' = pc /\ frames' = frames
        BY <3>1 DEF Propagating, EngineStep, PopViolated, PopLine, ForceCell, Quiesce, control
      <4>2. QED BY <1>0, <4>1 DEF SerialShape, Restore
    <3>2. QED
      BY <1>5, <3>1 DEF PropagateLine, CascadeStart, LineCompleted, CompleteLine, NextPass, ForwardCheck, Restore
  <2>2. CASE pc = "serialInitial" \/ frames = <<>>
    BY <1>0, <2>1, <2>2 DEF SerialShape
  <2>3. CASE pc \in Rowed /\ frames # <<>>
    <3>1. AllKnown(cells, Node.line)
      BY <1>0, <2>3 DEF NodesHold
    <3>2. Node' = Node
      BY <2>1 DEF Node, Depth
    <3>3. PICK l \in Lines : l = Node.line
      BY <2>3, NodeTyped
    <3>4. Holding(cells, cells')
      BY <2>1, SerialStore
    <3>5. AllKnown(cells', l)
      BY ONLY <3>1, <3>3, <3>4, SettledStays
    <3>6. QED BY <2>1, <3>2, <3>3, <3>5
  <2>4. QED BY <2>1, <2>2, <2>3
<1>6. QED BY <1>1, <1>2, <1>3, <1>4, <1>5 DEF SerialNext

\* and the counters exact: assigning a line and restoring a snapshot both do.
LEMMA SerialStored ==
  ASSUME SerialInv, SerialNext
  PROVE  (StoreTypeOK /\ StatsExact)'
<1>1. CASE Restore
  <2>1. /\ frames # <<>> /\ cells' = Node.snapshot.cells /\ rowBits' = Node.snapshot.rowBits
        /\ unknown' = Node.snapshot.unknown /\ ones' = Node.snapshot.ones
    BY <1>1 DEF Restore
  <2>2. Node = frames[Len(frames)] /\ Len(frames) \in 1..Len(frames) /\ Node.snapshot \in Stored
    BY <2>1, NodeTyped
  <2>3. SnapshotExact(Node.snapshot)
    BY <2>2 DEF SerialInv, NodesHold, NodesStand, NodeHold
  <2>4. PICK s \in Stored : s = Node.snapshot
    BY <2>2
  <2>5. SnapshotExact(s) /\ cells' = s.cells /\ rowBits' = s.rowBits /\ unknown' = s.unknown /\ ones' = s.ones
    BY <2>1, <2>3, <2>4
  <2>6. QED BY ONLY <2>5, s \in Stored, Restored
<1>2. QED BY <1>1, SerialStore

\* Every step of the serial search keeps its invariant.
LEMMA SerialStep ==
  ASSUME SerialInv, SerialNext
  PROVE  SerialInv'
<1>1. /\ Basics /\ solver = "serial" /\ UNCHANGED <<input, brancher>>
  BY SerialInput DEF SerialInv
<1>2. SerialShape' /\ SerialCalls' /\ locals' \in SerialLocals /\ NodesHold' /\ answers' \in Seq(SUBSET Cells)
  BY SerialShapeStep, SerialTypes, SerialNodes
<1>3. (StoreTypeOK /\ StatsExact)'
  BY SerialStored
<1>4. EngineTypeOK'
  <2>1. EngineTypeOK /\ UNCHANGED target
    BY <1>1 DEF Basics, input
  <2>2. QED BY <2>1, SerialEngine, EngineMoves
<1>5. BranchingTypeOK' /\ InputTyped' /\ solver' = "serial"
  BY <1>1 DEF Basics, BranchingTypeOK, InputTyped, input, brancher
<1>6. Basics'
  BY <1>2, <1>3, <1>4, <1>5 DEF Basics
<1>7. QED BY <1>2, <1>3, <1>5, <1>6 DEF SerialInv

-------------------------------------------------------------------------------
(* The invariant.                                                          *)

\* The inductive invariant: one part for each solver.
RowInv ==
  \/ DecomposedInv /\ ProbesHold
  \/ ProberInv
  \/ SerialInv

\* Before anything is assigned.
LEMMA InitBasics ==
  ASSUME InputInit, solver \in {"decomposed", "serial", "prober"}, pc \notin Waiting
  PROVE  /\ Basics /\ StatsExact /\ Recorded /\ HintSound
         /\ cells = [x \in Cells |-> Unassigned] /\ undoStack = <<>> /\ minUnassignedRow = 0
         /\ frames = <<>> /\ prop = "idle"
<1>1. StoreTypeOK /\ StatsExact /\ cells = [x \in Cells |-> Unassigned]
  BY InitExact DEF InputInit, StoreInit
<1>2. /\ work = <<>> /\ queued = {} /\ dirtyWords = <<>> /\ forcing = NotForcing /\ forced = <<>> /\ prop = "idle"
      /\ undoStack = <<>> /\ minUnassignedRow = 0 /\ frames = <<>> /\ answers = <<>>
  BY DEF InputInit, EngineInit, BranchingInit
<1>3. kS \in Nat \ {0} /\ 0 \in Index
  BY kSAssumption DEF Index
<1>4. PICK b \in Blocks : target = b.target /\ sidecar \in SidecarFiles(b)
  BY DEF InputInit
<1>5. target \in [Lines -> Int]
  BY <1>4, BlocksAssumption
<1>6. EngineTypeOK
  <2>1. NotForcing \in [line : Lines, value : CellState]
    <3>1. Line("row", 0) \in Lines
      BY <1>3, AxisLines
    <3>2. QED BY <3>1 DEF NotForcing, CellState
  <2>2. QED BY <1>2, <1>5, <2>1 DEF EngineTypeOK
<1>7. BranchingTypeOK
  BY <1>2, <1>3 DEF BranchingTypeOK
<1>8. InputTyped
  <2>1. /\ sidecar.parity \in Seq([line : [Cells -> Int], target : [Index -> Int]])
        /\ \A i \in 1..Len(sidecar.sums) : IsFiniteSet(DOMAIN sidecar.sums[i].sums)
        /\ Len(sidecar.sums) \in Nat /\ DOMAIN sidecar.sums = 1..Len(sidecar.sums)
    BY <1>4, SidecarFilesAssumption
  <2>2. QED BY <2>1 DEF InputTyped
<1>9. Basics
  BY <1>1, <1>2, <1>6, <1>7, <1>8 DEF Basics
<1>10. Recorded
  <2>1. Pending = <<>>
    BY DEF Pending
  <2>2. Trail = <<>>
    BY <1>2, <2>1 DEF Trail
  <2>3. QED BY <2>2 DEF Recorded, HeldOnce
<1>11. HintSound
  BY <1>2, <1>3 DEF HintSound, Cells, Index
<1>12. QED BY <1>1, <1>2, <1>9, <1>10, <1>11

\* Each solver starts with its invariant,
LEMMA InitInv == Init => RowInv
<1> SUFFICES ASSUME Init PROVE RowInv
  OBVIOUS
<1>0. InputInit /\ (DecomposedInit \/ SerialInit \/ ProberInit)
  BY DEF Init
<1>1. CASE DecomposedInit
  <2>1. /\ solver = "decomposed" /\ pc = "start"
        /\ locals = [rowHeap |-> <<>>, iterations |-> 0, detector |-> NewDetector,
                     belief |-> NoBelief, guessed |-> FALSE,
                     counted |-> [kind \in Kinds |-> <<>>], marks |-> <<>>]
    BY <1>1 DEF DecomposedInit
  <2>2. /\ Basics /\ StatsExact /\ Recorded /\ frames = <<>> /\ prop = "idle" /\ minUnassignedRow = 0
        /\ undoStack = <<>>
    BY <1>0, <2>1, InitBasics DEF Waiting
  <2>3. DecomposedShape
    BY <2>1, <2>2 DEF DecomposedShape, DecomposedPlaces
  <2>4. CallTyped
    BY <2>1 DEF CallTyped, ProbeAt, SidecarAt, CompleteAt, FillAt
  <2>5. locals \in DecomposedLocals
    <3>1. NewDetector \in DetectorType
      BY StallAssumption DEF NewDetector, DetectorType, Byte, kMinK
    <3>2. [kind \in Kinds |-> <<>>] \in [Kinds -> LogType]
      BY DEF LogType
    <3>3. 0 \in 0..(kReseed - 1)
      BY kReseedAssumption
    <3>4. PICK H, M, D : H = Seq(HeapEntry) /\ M = Seq([Kinds -> Nat]) /\ D = [Kinds -> LogType]
      OBVIOUS
    <3>5. <<>> \in H /\ <<>> \in M /\ [kind \in Kinds |-> <<>>] \in D
      BY <3>2, <3>4
    <3>6. DecomposedLocals =
            [rowHeap : H, iterations : 0..(kReseed - 1), detector : DetectorType, belief : {NoBelief} \cup Beliefs,
             guessed : BOOLEAN, counted : D, marks : M]
      BY <3>4 DEF DecomposedLocals
    <3>7. QED BY ONLY <2>1, <3>1, <3>3, <3>5, <3>6
  <2>6. FramesHold /\ ValuesTried
    BY <2>1, <2>2 DEF FramesHold, ValuesTried
  <2>7. SidecarsHold
    <3>1. \A kind \in Kinds : Log(kind) = <<>>
      BY <2>1 DEF Log
    <3>2. locals.marks = <<>> /\ Len(locals.marks) = 0 /\ Len(frames) = 0
      BY <2>1, <2>2
    <3>3. LogsHold
      BY <3>1 DEF LogsHold, Distinct, Sound
    <3>4. MarksCount
      BY <2>2, <3>2 DEF MarksCount
    <3>5. NotCounted /\ WaveRecorded /\ ForcedUncounted
      BY <2>1 DEF NotCounted, WaveRecorded, ForcedUncounted, ProbeAt, SidecarAt, CompleteAt, FillAt, Waiting
    <3>6. MarksHold(locals.marks, locals.counted, cells, frames, undoStack)
      BY <3>2 DEF MarksHold
    <3>7. QED BY <3>3, <3>4, <3>5, <3>6 DEF SidecarsHold
  <2>8. ProbesHold
    BY <2>1 DEF ProbesHold, ProbeAt
  <2>9. QED BY <2>1, <2>2, <2>3, <2>4, <2>5, <2>6, <2>7, <2>8 DEF RowInv, DecomposedInv
<1>2. CASE SerialInit
  <2>1. solver = "serial" /\ pc = "serialStart" /\ locals = [solved |-> FALSE, stuckAt |-> <<>>]
    BY <1>2 DEF SerialInit
  <2>2. Basics /\ StatsExact /\ frames = <<>> /\ prop = "idle"
    BY <1>0, <2>1, InitBasics DEF Waiting
  <2>3. SerialShape /\ SerialCalls
    BY <2>1, <2>2 DEF SerialShape, SerialCalls, SerialPlaces
  <2>4. locals \in SerialLocals
    BY <2>1 DEF SerialLocals
  <2>5. NodesHold
    BY <2>1, <2>2 DEF NodesHold, NodesStand
  <2>6. QED BY <2>1, <2>2, <2>3, <2>4, <2>5 DEF RowInv, SerialInv
<1>3. CASE ProberInit
  <2>1. solver = "prober" /\ pc \in {"pass", "deep"} /\ locals = [last |-> BeforeAll, progress |-> FALSE, verdict |-> "none"]
    BY <1>3 DEF ProberInit
  <2>2. /\ Basics /\ StatsExact /\ Recorded /\ frames = <<>> /\ prop = "idle" /\ HintSound
        /\ undoStack = <<>> /\ cells = [x \in Cells |-> Unassigned]
    BY <1>0, <2>1, InitBasics DEF Waiting
  <2>3. ProberShape
    BY <2>1, <2>2 DEF ProberShape, PassPlaces, DeepPlaces
  <2>4. CallTyped
    BY <2>1 DEF CallTyped, ProbeAt, SidecarAt, CompleteAt, FillAt
  <2>5. locals \in ProberLocals
    BY <2>1 DEF ProberLocals
  <2>6. FramesHold
    BY <2>2 DEF FramesHold
  <2>7. DeepHold
    BY <2>1, <2>2 DEF DeepHold, Deeper
  <2>8. ProbesHold
    BY <2>1 DEF ProbesHold, ProbeAt
  <2>9. QED BY <2>1, <2>2, <2>3, <2>4, <2>5, <2>6, <2>7, <2>8 DEF RowInv, ProberInv
<1>4. QED BY <1>0, <1>1, <1>2, <1>3

\* A program that has ended changes nothing.
LEMMA InvStutters ==
  ASSUME RowInv, UNCHANGED vars
  PROVE  RowInv'
<1>0. /\ cells' = cells /\ rowBits' = rowBits /\ unknown' = unknown /\ ones' = ones
      /\ work' = work /\ queued' = queued /\ dirtyWords' = dirtyWords /\ forcing' = forcing /\ forced' = forced
      /\ prop' = prop /\ target' = target /\ solver' = solver /\ sidecar' = sidecar
      /\ undoStack' = undoStack /\ minUnassignedRow' = minUnassignedRow
      /\ pc' = pc /\ frames' = frames /\ call' = call /\ locals' = locals /\ answers' = answers
  BY DEF vars, store, engine, queue, input, brancher, control
<1>1. Basics' = Basics /\ StatsExact' = StatsExact
  BY <1>0 DEF Basics, StoreTypeOK, EngineTypeOK, BranchingTypeOK, InputTyped, StatsExact, UnknownOn, OnesOn
<1>2. Trail' = Trail /\ Top' = Top
  BY <1>0 DEF Trail, Pending, Top
<1>3. Recorded' = Recorded
  BY <1>0, <1>2 DEF Recorded
<1>4. CallTyped' = CallTyped /\ DecomposedShape' = DecomposedShape /\ ProberShape' = ProberShape
      /\ SerialShape' = SerialShape /\ SerialCalls' = SerialCalls
  BY <1>0 DEF CallTyped, DecomposedShape, ProberShape, SerialShape, SerialCalls
<1>5. FramesHold' = FramesHold /\ ValuesTried' = ValuesTried
  BY <1>0, <1>2 DEF FramesHold, ValuesTried, FreshTop, Backing, TopBacking, Undone
<1>6. SidecarsHold' = SidecarsHold
  BY <1>0, <1>2 DEF SidecarsHold, LogsHold, MarksCount, NotCounted, WaveRecorded, ForcedUncounted, AtMark, Log,
     Unmarked, FreshTop
<1>7. ProbesHold' = ProbesHold
  BY <1>0, <1>2 DEF ProbesHold
<1>8. DeepHold' = DeepHold /\ HintSound' = HintSound
  BY <1>0, <1>2 DEF DeepHold, HintSound
<1>9. NodesHold' = NodesHold
  BY <1>0 DEF NodesHold, Node, Depth
<1>10. QED BY <1>0, <1>1, <1>3, <1>4, <1>5, <1>6, <1>7, <1>8, <1>9 DEF RowInv, DecomposedInv, ProberInv, SerialInv

\* and every step keeps it.
LEMMA InvStep == RowInv /\ [Next]_vars => RowInv'
<1> SUFFICES ASSUME RowInv, [Next]_vars PROVE RowInv'
  OBVIOUS
<1>1. CASE solver = "decomposed" /\ DecomposedNext
  <2>1. DecomposedInv /\ ProbesHold
    BY <1>1 DEF RowInv, ProberInv, SerialInv
  <2>2. QED BY <1>1, <2>1, DecomposedStep, DecomposedProbes DEF RowInv
<1>2. CASE solver = "serial" /\ SerialNext
  <2>1. SerialInv
    BY <1>2 DEF RowInv, ProberInv, DecomposedInv
  <2>2. QED BY <1>2, <2>1, SerialStep DEF RowInv
<1>3. CASE solver = "prober" /\ ProberNext
  <2>1. ProberInv
    BY <1>3 DEF RowInv, SerialInv, DecomposedInv
  <2>2. QED BY <1>3, <2>1, ProberStep DEF RowInv
<1>4. CASE UNCHANGED vars
  BY <1>4, InvStutters
<1>5. QED BY <1>1, <1>2, <1>3, <1>4 DEF Next, Exit

\* The undo stack names assigned cells, each once.
LEMMA StackSound ==
  ASSUME Basics, Recorded
  PROVE  UndoStackSound
<1>1. undoStack \in Seq(Cells) /\ forced \in Seq(Cells)
  BY DEF Basics, BranchingTypeOK, EngineTypeOK
<1>2. HeldOnce(cells, undoStack)
  BY ONLY <1>1, Recorded, RecordedParts
<1>3. DOMAIN undoStack = 1..Len(undoStack)
  BY <1>1
<1>4. \A x \in Range(undoStack) : \E p \in 1..Len(undoStack) : undoStack[p] = x
  BY <1>3 DEF Range
<1>5. QED BY <1>2, <1>3, <1>4 DEF UndoStackSound, HeldOnce

\* The cells of the open frames are different.
LEMMA FramesDiffer ==
  ASSUME DecomposedInv, NEW i \in 1..Len(frames), NEW j \in 1..Len(frames), j < i
  PROVE  frames[j].cell # frames[i].cell
<1>0. /\ undoStack \in Seq(Cells) /\ FramesPlain /\ Len(undoStack) \in Nat /\ Len(frames) \in Nat
      /\ frames \in Seq(FrameType)
  BY DecomposedTypes
<1>1. frames # <<>>
  BY <1>0
<1>2. pc # "probingEnded"
  BY DEF DecomposedInv, DecomposedShape, DecomposedPlaces
<1>3. /\ Nested(frames, Len(frames) - 1, undoStack)
      /\ ~Backing => Nested(frames, Len(frames), undoStack)
      /\ FreshTop => cells[Top.cell] = Unassigned
      /\ Backing /\ ~FreshTop => TopBacking
  BY <1>1, <1>2 DEF DecomposedInv, FramesHold
<1>4. HeldOnce(cells, undoStack)
  <2>1. undoStack \in Seq(Cells) /\ forced \in Seq(Cells) /\ Recorded
    BY DecomposedTypes DEF DecomposedInv
  <2>2. QED BY ONLY <2>1, RecordedParts
<1>5. ASSUME NEW k \in 1..Len(frames), InPlay(frames[k], undoStack)
      PROVE  /\ frames[k].token \in Nat /\ frames[k].token + 1 \in 1..Len(undoStack)
             /\ undoStack[frames[k].token + 1] = frames[k].cell /\ cells[frames[k].cell] # Unassigned
  <2>1. frames[k].token \in Nat
    BY <1>0 DEF FramesPlain
  <2>2. frames[k].token + 1 \in 1..Len(undoStack) /\ undoStack[frames[k].token + 1] = frames[k].cell
    BY <1>0, <1>5, <2>1 DEF InPlay
  <2>3. QED BY <1>4, <2>1, <2>2 DEF HeldOnce
<1>6. ASSUME NEW k \in 1..Len(frames), NEW m \in 1..Len(frames),
             InPlay(frames[k], undoStack), InPlay(frames[m], undoStack), frames[m].token < frames[k].token
      PROVE  frames[m].cell # frames[k].cell
  <2>1. PICK p \in 1..Len(undoStack), q \in 1..Len(undoStack) :
          p = frames[k].token + 1 /\ q = frames[m].token + 1
    BY <1>5, <1>6
  <2>2. undoStack[p] = frames[k].cell /\ undoStack[q] = frames[m].cell
    BY <1>5, <1>6, <2>1
  <2>3. p # q
    BY <1>5, <1>6, <2>1
  <2>4. undoStack[p] # undoStack[q]
    BY <1>4, <2>3 DEF HeldOnce
  <2>5. QED BY <2>2, <2>4
<1>7. j \in 1..(Len(frames) - 1) /\ InPlay(frames[j], undoStack)
  <2>1. j \in 1..(Len(frames) - 1)
    BY <1>0
  <2>2. QED BY <1>3, <2>1 DEF Nested
<1>8. CASE i # Len(frames)
  <2>1. i \in 1..(Len(frames) - 1)
    BY <1>0, <1>8
  <2>2. InPlay(frames[i], undoStack) /\ frames[j].token < frames[i].token
    BY <1>3, <1>7, <2>1 DEF Nested
  <2>3. QED BY <1>6, <1>7, <2>2
<1>9. CASE i = Len(frames)
  <2>1. Top = frames[i]
    BY <1>9 DEF Top
  <2>2. CASE ~Backing
    <3>1. InPlay(frames[i], undoStack) /\ frames[j].token < frames[i].token
      BY <1>3, <2>2 DEF Nested
    <3>2. QED BY <1>6, <1>7, <3>1
  <2>3. CASE Backing /\ ~FreshTop /\ ~Undone
    <3>1. InPlay(frames[i], undoStack) /\ frames[j].token < frames[i].token
      BY <1>3, <1>7, <2>1, <2>3 DEF TopBacking
    <3>2. QED BY <1>6, <1>7, <3>1
  <2>4. CASE FreshTop \/ (Backing /\ ~FreshTop /\ Undone)
    <3>1. cells[frames[i].cell] = Unassigned
      BY <1>3, <2>1, <2>4 DEF TopBacking
    <3>2. cells[frames[j].cell] # Unassigned
      BY <1>5, <1>7
    <3>3. QED BY <3>1, <3>2
  <2>5. QED BY <2>2, <2>3, <2>4
<1>10. QED BY <1>8, <1>9

\* The stack is no deeper than there are cells.
LEMMA DepthHolds == ASSUME DecomposedInv PROVE DepthBounded
<1>1. PICK n \in Nat : n = Len(frames)
  BY DecomposedTypes
<1>2. PICK f : f = [i \in 1..n |-> frames[i].cell]
  OBVIOUS
<1>3. f \in [1..n -> Cells] /\ \A i \in 1..n : f[i] = frames[i].cell
  BY <1>1, <1>2, DecomposedTypes DEF FramesPlain
<1>4. ASSUME NEW i \in 1..n, NEW j \in 1..n, i # j PROVE f[i] # f[j]
  <2>1. CASE j < i
    BY <1>1, <1>3, <2>1, FramesDiffer
  <2>2. CASE i < j
    BY <1>1, <1>3, <2>2, FramesDiffer
  <2>3. QED BY <1>4, <2>1, <2>2
<1>5. f \in Injection(1..n, Cells)
  BY <1>3, <1>4 DEF Injection, IsInjective
<1>6. IsFiniteSet(Cells)
  BY FiniteCells
<1>7. Cardinality(1..n) <= Cardinality(Cells)
  BY <1>5, <1>6, FS_Injection
<1>8. Cardinality(1..n) = n
  BY FS_Interval
<1>9. QED BY <1>1, <1>7, <1>8 DEF DepthBounded

\* The invariant's parts say what the properties say: of the frames,
LEMMA FramesHoldSound == ASSUME DecomposedInv PROVE FramesSound
<1>0. /\ undoStack \in Seq(Cells) /\ forced \in Seq(Cells) /\ FramesPlain /\ Len(undoStack) \in Nat
      /\ Len(frames) \in Nat /\ Recorded
  BY DecomposedTypes DEF DecomposedInv
<1>1. HeldOnce(cells, undoStack)
  BY ONLY <1>0, RecordedParts
<1>2. ASSUME NEW i \in 1..(Len(frames) - 1)
      PROVE  /\ cells[frames[i].cell] # Unassigned
             /\ undoStack[frames[i].token + 1] = frames[i].cell
             /\ \A j \in 1..(i - 1) : frames[j].cell # frames[i].cell
  <2>1. i \in 1..Len(frames) /\ frames # <<>>
    BY <1>0
  <2>2. pc # "probingEnded"
    BY DEF DecomposedInv, DecomposedShape, DecomposedPlaces
  <2>3. InPlay(frames[i], undoStack)
    BY <2>1, <2>2 DEF DecomposedInv, FramesHold, Nested
  <2>4. frames[i].token \in Nat
    BY <1>0, <2>1 DEF FramesPlain
  <2>5. frames[i].token + 1 \in 1..Len(undoStack) /\ undoStack[frames[i].token + 1] = frames[i].cell
    BY <1>0, <2>3, <2>4 DEF InPlay
  <2>6. cells[frames[i].cell] # Unassigned
    BY <1>1, <2>5 DEF HeldOnce
  <2>7. ASSUME NEW j \in 1..(i - 1) PROVE frames[j].cell # frames[i].cell
    <3>1. j \in 1..Len(frames) /\ j < i
      BY <1>0
    <3>2. QED BY <2>1, <3>1, FramesDiffer
  <2>8. QED BY <2>5, <2>6, <2>7
<1>3. ASSUME pc = "loop", frames # <<>>, Top.nextValue = 0 \/ Undone
      PROVE  cells[Top.cell] = Unassigned
  BY <1>3 DEF DecomposedInv, FramesHold, FreshTop, Backing, TopBacking
<1>4. QED BY <1>2, <1>3 DEF FramesSound

\* of the sidecars' logs,
LEMMA SidecarsHoldSound == ASSUME DecomposedInv PROVE SidecarsSound
<1>1. SidecarsHold
  BY DEF DecomposedInv
<1>2. ASSUME pc # "loop", NEW kind \in Kinds, NEW log, log = locals.counted[kind], NEW i \in DOMAIN log
      PROVE  /\ cells[log[i][1]] = log[i][2]
             /\ \A j \in 1..(i - 1) : log[j][1] # log[i][1]
  <2>1. log \in LogType /\ log = Log(kind)
    BY <1>2, DecomposedTypes DEF Log
  <2>2. i \in 1..Len(log) /\ Len(log) \in Nat
    BY <2>1 DEF LogType
  <2>3. Sound(cells, log, Len(log)) /\ Distinct(log)
    BY <1>1, <1>2, <2>1 DEF SidecarsHold, LogsHold, Unmarked
  <2>4. cells[log[i][1]] = log[i][2]
    BY <2>2, <2>3 DEF Sound
  <2>5. ASSUME NEW j \in 1..(i - 1) PROVE log[j][1] # log[i][1]
    <3>1. j \in 1..Len(log) /\ j # i
      BY <2>2
    <3>2. QED BY <2>2, <2>3, <3>1 DEF Distinct
  <2>6. QED BY <2>4, <2>5
<1>3. QED BY <1>1, <1>2 DEF SidecarsSound, SidecarsHold, MarksCount

\* and of a probe that has been undone.
LEMMA ProbesHoldUndone ==
  ASSUME Basics, FramesPlain, pc \in ProbeAt => frames # <<>>, ProbesHold
  PROVE  ProbesUndone
<1>0. undoStack \in Seq(Cells) /\ forced \in Seq(Cells) /\ Len(undoStack) \in Nat
  BY DEF Basics, BranchingTypeOK, EngineTypeOK
<1>1. SUFFICES ASSUME pc = "unprobe", Undone, NEW x \in Cells, cells[x] # call.before[x]
               PROVE  call.before[x] = Unassigned /\ prop = "infeasible" /\ x \in Range(forced)
  BY DEF ProbesUndone
<1>2. frames # <<>> /\ Top.token \in Nat
  BY <1>1 DEF ProbeAt, FramesPlain, Top
<1>3. \A p \in 1..Len(undoStack) : ~(Top.token < p)
  BY <1>0, <1>1, <1>2 DEF Undone
<1>4. call.before[x] = Unassigned /\ prop = "infeasible" /\ \E q \in 1..Len(forced) : forced[q] = x
  BY <1>1, <1>3 DEF ProbesHold, ProbeAt
<1>5. QED BY <1>0, <1>4 DEF Range

\* Each solver's invariant implies its properties.
LEMMA DecomposedSays ==
  ASSUME DecomposedInv, ProbesHold
  PROVE  /\ DecomposedTypeOK
         /\ UndoStackSound /\ FramesSound /\ SidecarsSound /\ ProbesUndone /\ DepthBounded
<1>1. /\ locals \in DecomposedLocals /\ DecomposedShape /\ Basics /\ Recorded /\ FramesPlain
  BY DecomposedPlain DEF DecomposedInv
<1>2. DecomposedTypeOK
  <2>1. /\ locals.rowHeap \in Seq((1..kRowCompletionThreshold) \X Index)
        /\ locals.iterations \in 0..(kReseed - 1) /\ locals.detector \in DetectorType
        /\ locals.belief \in {NoBelief} \cup Beliefs /\ locals.guessed \in BOOLEAN
        /\ locals.counted \in [Kinds -> Seq(Cells \X {0, 1})] /\ locals.marks \in Seq([Kinds -> Nat])
    <3>1. PICK H, M, D : H = Seq(HeapEntry) /\ M = Seq([Kinds -> Nat]) /\ D = [Kinds -> LogType]
      OBVIOUS
    <3>2. DecomposedLocals =
            [rowHeap : H, iterations : 0..(kReseed - 1), detector : DetectorType, belief : {NoBelief} \cup Beliefs,
             guessed : BOOLEAN, counted : D, marks : M]
      BY <3>1 DEF DecomposedLocals
    <3>3. /\ locals.rowHeap \in H
          /\ locals.iterations \in 0..(kReseed - 1) /\ locals.detector \in DetectorType
          /\ locals.belief \in {NoBelief} \cup Beliefs /\ locals.guessed \in BOOLEAN
          /\ locals.counted \in D /\ locals.marks \in M
      BY ONLY <1>1, <3>2
    <3>4. QED BY <3>1, <3>3 DEF HeapEntry, LogType
  <2>2. pc \in DecomposedPlaces /\ frames \in Seq(FrameType)
    BY <1>1 DEF DecomposedShape
  <2>3. QED BY ONLY <2>1, <2>2 DEF DecomposedTypeOK, DecomposedPlaces
<1>3. pc \in ProbeAt => frames # <<>>
  BY <1>1 DEF DecomposedShape, ProbeAt
<1>4. UndoStackSound /\ ProbesUndone
  BY <1>1, <1>3, StackSound, ProbesHoldUndone
<1>5. QED BY <1>2, <1>4, FramesHoldSound, SidecarsHoldSound, DepthHolds

LEMMA ProberSays ==
  ASSUME ProberInv
  PROVE  ProberTypeOK /\ UndoStackSound /\ ProbesUndone /\ DeepUndone
<1>1. locals \in ProberLocals /\ ProberShape /\ DeepHold /\ HintSound /\ Basics /\ Recorded /\ ProbesHold
  BY DEF ProberInv
<1>2. kMaxDepth \in Nat \ {0}
  BY ProberAssumption
<1>3. Len(frames) <= kMaxDepth
  <2>1. CASE pc \in PassPlaces
    <3>1. Len(frames) = 0 \/ Len(frames) = 1
      BY <1>1, <2>1 DEF ProberShape
    <3>2. QED BY <1>2, <3>1
  <2>2. CASE pc \in DeepPlaces
    <3>1. frames \in Seq(DeepFrames) /\ Deeper(frames)
      BY <1>1, <2>2 DEF ProberShape, DeepHold
    <3>2. PICK n \in Nat : n = Len(frames)
      BY <3>1
    <3>3. CASE n = 0
      BY <1>2, <3>2, <3>3
    <3>4. CASE n # 0
      <4>1. PICK f \in DeepFrames : f = frames[n] /\ n \in 1..n
        BY <3>1, <3>2, <3>4
      <4>2. f.depth + n <= kMaxDepth + 1
        BY <3>1, <3>2, <4>1 DEF Deeper
      <4>3. f.depth \in 1..kMaxDepth
        BY DEF DeepFrames
      <4>4. QED BY <1>2, <3>2, <4>2, <4>3
    <3>5. QED BY <3>3, <3>4
  <2>3. CASE pc = "probingEnded"
    <3>1. frames = <<>> \/ Len(frames) = 1
      BY <1>1, <2>3 DEF ProberShape
    <3>2. Len(frames) = 0 \/ Len(frames) = 1
      BY <3>1
    <3>3. QED BY <1>2, <3>2
  <2>4. QED BY <1>1, <2>1, <2>2, <2>3 DEF ProberShape
<1>4. ProberTypeOK
  <2>1. locals.verdict \in {"none", "contradiction", "fixpoint"} /\ locals.progress \in BOOLEAN
    BY <1>1 DEF ProberLocals
  <2>2. pc \in PassPlaces \cup DeepPlaces \cup {"probingEnded"}
    BY <1>1 DEF ProberShape
  <2>3. QED BY <1>3, <2>1, <2>2 DEF ProberTypeOK, PassPlaces, DeepPlaces
<1>5. UndoStackSound
  BY <1>1, StackSound
<1>6. ProbesUndone
  <2>1. CASE pc = "probingEnded"
    BY <2>1 DEF ProbesUndone
  <2>2. CASE pc # "probingEnded"
    <3>1. FramesPlain /\ (pc \in ProbeAt => frames # <<>>)
      BY <2>2, ProberFramed, ProberTypes DEF ProbeAt
    <3>2. QED BY <1>1, <3>1, ProbesHoldUndone
  <2>3. QED BY <2>1, <2>2
<1>7. DeepUndone
  BY <1>1 DEF DeepUndone, DeepHold
<1>8. QED BY <1>4, <1>5, <1>6, <1>7

LEMMA SerialSays ==
  ASSUME SerialInv
  PROVE  SerialTypeOK /\ SnapshotsNested
<1>1. /\ locals \in SerialLocals /\ pc \in SerialPlaces /\ frames \in Seq(Nodes) /\ NodesStand(frames)
      /\ \A i \in 1..Len(frames) : Holding(frames[i].snapshot.cells, cells)
  BY DEF SerialInv, SerialShape, NodesHold
<1>2. PICK n \in Nat : n = Len(frames) /\ DOMAIN frames = 1..n
  BY <1>1
<1>3. ASSUME NEW i \in 1..n
      PROVE  /\ frames[i].line \in {RowOf(r) : r \in Index}
             /\ frames[i].candidates \subseteq SUBSET CellsOn[frames[i].line]
             /\ frames[i].snapshot.cells \in [Cells -> CellState]
  <2>1. PICK f \in Nodes : f = frames[i]
    BY <1>1, <1>2
  <2>2. f.line \in {RowOf(r) : r \in Index} /\ f.candidates \in SUBSET SUBSET Cells /\ f.snapshot \in Stored
    BY DEF Nodes
  <2>3. f.snapshot.cells \in [Cells -> CellState]
    BY <2>2 DEF Stored
  <2>4. NodeHold(f)
    BY <1>1, <1>2, <2>1 DEF NodesStand
  <2>5. f.candidates \subseteq SUBSET CellsOn[f.line]
    BY <2>2, <2>4 DEF NodeHold
  <2>6. QED BY <2>1, <2>2, <2>3, <2>5
<1>4. SerialTypeOK
  <2>1. locals.solved \in BOOLEAN /\ locals.stuckAt \in Seq([Cells -> CellState])
    <3>1. PICK T : T = Seq([Cells -> CellState])
      OBVIOUS
    <3>2. SerialLocals = [solved : BOOLEAN, stuckAt : T]
      BY <3>1 DEF SerialLocals
    <3>3. locals.solved \in BOOLEAN /\ locals.stuckAt \in T
      BY ONLY <1>1, <3>2
    <3>4. QED BY <3>1, <3>3
  <2>2. QED BY <1>1, <1>2, <1>3, <2>1 DEF SerialTypeOK, SerialPlaces
<1>5. ASSUME NEW i \in 1..n
      PROVE  /\ \A x \in Cells : frames[i].snapshot.cells[x] # Unassigned => cells[x] = frames[i].snapshot.cells[x]
             /\ \A x \in CellsOn[frames[i].line], j \in (i + 1)..n :
                  frames[j].snapshot.cells[x] # Unassigned
  <2>1. \A x \in Cells : frames[i].snapshot.cells[x] # Unassigned => cells[x] = frames[i].snapshot.cells[x]
    BY <1>1, <1>2 DEF Holding
  <2>2. ASSUME NEW j \in (i + 1)..n, NEW x \in CellsOn[frames[i].line]
        PROVE  frames[j].snapshot.cells[x] # Unassigned
    <3>1. j \in 1..n /\ i < j
      BY <2>2
    <3>2. AllKnown(frames[j].snapshot.cells, frames[i].line)
      BY <1>1, <1>2, <3>1 DEF NodesStand
    <3>3. QED BY <3>2 DEF AllKnown
  <2>3. QED BY <2>1, <2>2
<1>6. SnapshotsNested
  BY <1>2, <1>5 DEF SnapshotsNested, Depth
<1>7. QED BY <1>4, <1>6

LEMMA RowInvSays == RowInv => RowTypeOK /\ BacktrackingSound
<1> SUFFICES ASSUME RowInv PROVE RowTypeOK /\ BacktrackingSound
  OBVIOUS
<1>1. CASE DecomposedInv /\ ProbesHold
  <2>1. solver = "decomposed" /\ Basics /\ StatsExact
    BY <1>1 DEF DecomposedInv
  <2>2. QED BY <1>1, <2>1, DecomposedSays DEF RowTypeOK, BacktrackingSound, Basics
<1>2. CASE ProberInv
  <2>1. solver = "prober" /\ Basics /\ StatsExact
    BY <1>2 DEF ProberInv
  <2>2. QED BY <1>2, <2>1, ProberSays DEF RowTypeOK, BacktrackingSound, Basics
<1>3. CASE SerialInv
  <2>1. solver = "serial" /\ Basics /\ StatsExact
    BY <1>3 DEF SerialInv
  <2>2. QED BY <1>3, <2>1, SerialSays DEF RowTypeOK, BacktrackingSound, Basics
<1>4. QED BY <1>1, <1>2, <1>3 DEF RowInv

\* Whatever the payload, the sidecar files, the beliefs and the constants of the
\* code, the row solvers and the prober keep their variables in their types: the
\* detector's bytes and depth, the heap's rows, the sidecars' marks, the nodes'
\* snapshots, and the prober's stack within kMaxDepth.
THEOREM RowSolversTyped == Spec => []RowTypeOK
<1>1. Init => RowInv
  BY InitInv
<1>2. RowInv /\ [Next]_vars => RowInv'
  BY InvStep
<1>3. RowInv => RowTypeOK
  BY RowInvSays
<1>4. QED BY <1>1, <1>2, <1>3, PTL DEF Spec

\* Backtracking is exact in all three, on every block: the counters of each line
\* stay equal to what the cells say although failing propagations leak cells, every
\* open frame's cell stands where its undoing will find it and no cell is branched
\* on twice, so the stack never has more frames than there are cells; the sidecars'
\* logs are taken back with their frames; a probe that was undone has left behind
\* only what a failing propagation forced; and the serial search's snapshots are
\* nested.
THEOREM BacktrackingStaysSound == Spec => []BacktrackingSound
<1>1. Init => RowInv
  BY InitInv
<1>2. RowInv /\ [Next]_vars => RowInv'
  BY InvStep
<1>3. RowInv => BacktrackingSound
  BY RowInvSays
<1>4. QED BY <1>1, <1>2, <1>3, PTL DEF Spec
================================================================================
