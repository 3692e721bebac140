---------------------------- MODULE Induction_proofs ----------------------------
(***************************************************************************)
(* Induction over the natural numbers and over the prefixes of a sequence, *)
(* in the form the proofs about recursive functions and folds use: a set   *)
(* of numbers that holds 0 and is closed under successor is all of them.   *)
(* Also places in a square and the members of a sequence, counted.         *)
(***************************************************************************)
EXTENDS Integers, Sequences, FiniteSets, FiniteSetTheorems, WellFoundedInduction, TLAPS

LEMMA NatWellFounded == IsWellFoundedOn({p \in Nat \X Nat : p[1] < p[2]}, Nat)
<1>1. OpToRel(<, Nat) = {p \in Nat \X Nat : p[1] < p[2]}
  BY DEF OpToRel
<1>2. QED BY <1>1, NatLessThanWellFounded

\* Every set of numbers that is not empty has a least one.
LEMMA Least ==
  ASSUME NEW T, T \subseteq Nat, T # {} PROVE \E x \in T : \A y \in T : x <= y
<1> DEFINE R == {p \in Nat \X Nat : p[1] < p[2]}
<1>1. IsWellFoundedOn(R, Nat)
  BY NatWellFounded
<1>2. \E x \in T : \A y \in T : ~(<<y, x>> \in R)
  <2> HIDE DEF R
  <2> QED BY <1>1, WFMin
<1>3. PICK x \in T : \A y \in T : ~(<<y, x>> \in R)
  BY <1>2
<1>4. ASSUME NEW y \in T PROVE x <= y
  <2>1. x \in Nat /\ y \in Nat
    OBVIOUS
  <2>2. ~(y < x)
    BY <1>3, <2>1
  <2>3. QED BY <2>1, <2>2
<1>5. QED BY <1>4

LEMMA Induction ==
  ASSUME NEW G \in SUBSET Nat, 0 \in G, \A n \in G : n + 1 \in G
  PROVE  G = Nat
<1>1. SUFFICES ASSUME Nat \ G # {} PROVE FALSE
  OBVIOUS
<1>2. PICK x \in Nat \ G : \A y \in Nat \ G : x <= y
  BY <1>1, Least
<1>3. x # 0 /\ x - 1 \in Nat
  BY <1>2
<1>4. x - 1 \in G
  BY <1>2, <1>3
<1>5. QED BY <1>2, <1>4

\* The same up to a bound.
LEMMA InductionUpTo ==
  ASSUME NEW n \in Nat, NEW G, 0 \in G, \A i \in 0..(n - 1) : i \in G => i + 1 \in G
  PROVE  \A i \in 0..n : i \in G
<1> DEFINE H == {i \in Nat : i <= n => i \in G}
<1>1. H \in SUBSET Nat /\ 0 \in H
  OBVIOUS
<1>2. ASSUME NEW i \in H PROVE i + 1 \in H
  <2>1. CASE i + 1 <= n
    <3>1. i \in 0..(n - 1) /\ i \in G
      BY <2>1
    <3>2. QED BY <3>1
  <2>2. QED BY <2>1
<1> HIDE DEF H
<1>3. H = Nat
  BY <1>1, <1>2, Induction
<1>4. QED BY <1>3 DEF H

-------------------------------------------------------------------------------
\* A function may be defined by recursion: a value for 0, and for a successor a
\* value made from the number and the value before.  First up to a bound.
Runs(S, b, step, n) == {f \in [0..n -> S] : f[0] = b /\ \A i \in 1..n : f[i] = step[<<i, f[i - 1]>>]}

LEMMA IterationUpTo ==
  ASSUME NEW S, NEW b \in S, NEW step \in [Nat \X S -> S], NEW m \in Nat
  PROVE  Runs(S, b, step, m) # {}
<1> DEFINE IsRun(f, n) == f[0] = b /\ \A i \in 1..n : f[i] = step[<<i, f[i - 1]>>]
           G == {n \in Nat : \E f \in [0..n -> S] : IsRun(f, n)}
<1>1. 0 \in G
  <2>1. [i \in 0..0 |-> b] \in [0..0 -> S] /\ IsRun([i \in 0..0 |-> b], 0)
    OBVIOUS
  <2>2. QED BY <2>1
<1>2. ASSUME NEW n \in G PROVE n + 1 \in G
  <2>1. n \in Nat /\ n + 1 \in Nat
    OBVIOUS
  <2>2. PICK f \in [0..n -> S] : IsRun(f, n)
    OBVIOUS
  <2> DEFINE g == [i \in 0..(n + 1) |-> IF i = n + 1 THEN step[<<n + 1, f[n]>>] ELSE f[i]]
  <2>3. f[n] \in S /\ <<n + 1, f[n]>> \in Nat \X S
    BY <2>1, <2>2
  <2>4. g \in [0..(n + 1) -> S]
    BY <2>1, <2>2, <2>3
  <2>5. g[0] = b
    BY <2>1, <2>2
  <2>6. ASSUME NEW i \in 1..(n + 1) PROVE g[i] = step[<<i, g[i - 1]>>]
    <3>1. CASE i = n + 1
      <4>1. g[i] = step[<<n + 1, f[n]>>] /\ g[i - 1] = f[n]
        BY <2>1, <3>1
      <4>2. QED BY <3>1, <4>1
    <3>2. CASE i # n + 1
      <4>1. i \in 1..n /\ g[i] = f[i] /\ g[i - 1] = f[i - 1]
        BY <2>1, <3>2
      <4>2. QED BY <2>2, <4>1
    <3>3. QED BY <3>1, <3>2
  <2> HIDE DEF g
  <2>7. IsRun(g, n + 1)
    BY <2>5, <2>6
  <2> HIDE DEF IsRun
  <2>8. QED BY <2>1, <2>4, <2>7
<1>3. G = Nat
  <2>1. G \in SUBSET Nat
    OBVIOUS
  <2> HIDE DEF G
  <2>2. QED BY <1>1, <1>2, <2>1, Induction
<1>4. QED BY <1>3 DEF Runs

\* Then for all numbers.
AllRuns(S, b, step) == {f \in [Nat -> S] : f[0] = b /\ \A i \in Nat \ {0} : f[i] = step[<<i, f[i - 1]>>]}

LEMMA Recurrence ==
  ASSUME NEW S, NEW b \in S, NEW step \in [Nat \X S -> S]
  PROVE  AllRuns(S, b, step) # {}
<1>1. ASSUME NEW n \in Nat PROVE Runs(S, b, step, n) # {}
  BY IterationUpTo
\* Two runs agree as far as both go.
<1>2. ASSUME NEW n \in Nat, NEW m \in Nat, NEW f \in Runs(S, b, step, n), NEW g \in Runs(S, b, step, m),
             NEW k \in Nat, k <= n, k <= m
      PROVE  f[k] = g[k]
  <2> DEFINE H == {i \in Nat : i <= k => f[i] = g[i]}
  <2>1. H \in SUBSET Nat /\ 0 \in H
    BY DEF Runs
  <2>2. ASSUME NEW i \in H PROVE i + 1 \in H
    <3>1. ASSUME i + 1 <= k PROVE f[i + 1] = g[i + 1]
      <4>1. i \in Nat /\ i + 1 \in 1..n /\ i + 1 \in 1..m /\ (i + 1) - 1 = i /\ f[i] = g[i]
        BY <1>2, <3>1
      <4>2. f[i + 1] = step[<<i + 1, f[(i + 1) - 1]>>] /\ g[i + 1] = step[<<i + 1, g[(i + 1) - 1]>>]
        BY <4>1 DEF Runs
      <4>3. QED BY <4>1, <4>2
    <3>2. QED BY <3>1
  <2> HIDE DEF H
  <2>3. H = Nat
    BY <2>1, <2>2, Induction
  <2>4. k \in H /\ k <= k
    BY <2>3
  <2>5. QED BY <2>4 DEF H
<1> DEFINE run(n) == CHOOSE f : f \in Runs(S, b, step, n)
           h == [n \in Nat |-> run(n)[n]]
<1>3. ASSUME NEW n \in Nat PROVE run(n) \in Runs(S, b, step, n)
  BY <1>1
<1> HIDE DEF run
<1>4. h \in [Nat -> S]
  <2>1. ASSUME NEW n \in Nat PROVE run(n)[n] \in S
    <3>1. run(n) \in [0..n -> S] /\ n \in 0..n
      BY <1>3 DEF Runs
    <3>2. QED BY <3>1
  <2>2. QED BY <2>1
<1>5. h[0] = b
  BY <1>3 DEF Runs
<1>6. ASSUME NEW i \in Nat \ {0} PROVE h[i] = step[<<i, h[i - 1]>>]
  <2>1. i \in Nat /\ i - 1 \in Nat /\ i \in 1..i /\ i - 1 <= i /\ i - 1 <= i - 1
    OBVIOUS
  <2>2. run(i)[i] = step[<<i, run(i)[i - 1]>>]
    BY <1>3, <2>1 DEF Runs
  <2>3. run(i)[i - 1] = run(i - 1)[i - 1]
    <3>1. run(i) \in Runs(S, b, step, i) /\ run(i - 1) \in Runs(S, b, step, i - 1)
      BY <1>3, <2>1
    <3>2. QED BY <1>2, <2>1, <3>1
  <2>4. QED BY <2>1, <2>2, <2>3
<1> HIDE DEF h
<1>7. QED BY <1>4, <1>5, <1>6 DEF AllRuns

-------------------------------------------------------------------------------
\* A number is one multiple of w and one rest.
LEMMA Quotient ==
  ASSUME NEW n \in Nat, NEW w \in Nat \ {0}
  PROVE  \E q \in Nat, r \in 0..(w - 1) : q = n \div w /\ r = n % w /\ n = q * w + r
<1>1. PICK q \in Int, r \in Int : q = n \div w /\ r = n % w
  OBVIOUS
<1>2. w * q <= n /\ n < w * q + w /\ r = n - w * q
  BY <1>1
<1>3. q >= 0
  <2>1. ASSUME q < 0 PROVE FALSE
    <3>1. PICK d \in Nat : q = -1 - d
      <4>1. -1 - q \in Nat /\ q = -1 - (-1 - q)
        BY <2>1
      <4>2. QED BY <4>1
    <3>2. w * q = -w - w * d /\ w * d >= 0
      BY <3>1
    <3>3. QED BY <1>2, <3>2
  <2>2. QED BY <2>1
<1>4. q * w = w * q /\ q \in Nat /\ r \in 0..(w - 1) /\ n = w * q + r
  BY <1>2, <1>3
<1>5. n = q * w + r
  BY <1>4
<1>6. QED BY <1>1, <1>4, <1>5

LEMMA QuotientUnique ==
  ASSUME NEW q \in Nat, NEW w \in Nat \ {0}, NEW r \in 0..(w - 1)
  PROVE  (q * w + r) \div w = q /\ (q * w + r) % w = r
<1>1. q * w \in Nat /\ q * w + r \in Nat
  OBVIOUS
<1>2. PICK p \in Nat, s \in 0..(w - 1), n \in Nat :
        n = q * w + r /\ p = n \div w /\ s = n % w /\ n = p * w + s
  BY <1>1, Quotient
<1>3. (q - p) * w = s - r
  BY <1>2
<1>4. q - p = 0
  <2>1. PICK d \in Int : d = q - p
    OBVIOUS
  <2>2. d * w = s - r /\ s - r < w /\ s - r > -w
    BY <1>3, <2>1
  <2>3. ASSUME d >= 1 PROVE FALSE
    <3>1. PICK e \in Nat : d = e + 1
      <4>1. d - 1 \in Nat /\ d = (d - 1) + 1
        BY <2>3
      <4>2. QED BY <4>1
    <3>2. d * w = e * w + w /\ e * w >= 0
      BY <3>1
    <3>3. QED BY <2>2, <3>2
  <2>4. ASSUME d <= -1 PROVE FALSE
    <3>1. PICK e \in Nat : d = -1 - e
      <4>1. -1 - d \in Nat /\ d = -1 - (-1 - d)
        BY <2>4
      <4>2. QED BY <4>1
    <3>2. d * w = -w - e * w /\ e * w >= 0
      BY <3>1
    <3>3. QED BY <2>2, <3>2
  <2>5. QED BY <2>1, <2>3, <2>4
<1>5. p = q /\ s = r
  BY <1>2, <1>4
<1>6. QED BY <1>2, <1>5

\* The places of a square of side w, row by row.
LEMMA SquarePlaces ==
  ASSUME NEW w \in Nat \ {0}
  PROVE  /\ \A k, j \in 0..(w - 1) : k * w + j \in 0..(w * w - 1)
         /\ \A p \in 0..(w * w - 1) :
              \E k, j \in 0..(w - 1) : k = p \div w /\ j = p % w /\ p = k * w + j
         /\ \A k, l, i, j \in 0..(w - 1) : k * w + i = l * w + j => k = l /\ i = j
<1>1. PICK n \in Nat : n = w * w
  OBVIOUS
<1>2. ASSUME NEW k \in 0..(w - 1), NEW j \in 0..(w - 1) PROVE k * w + j \in 0..(n - 1)
  <2>1. PICK d \in Nat : w = k + 1 + d
    <3>1. w - 1 - k \in Nat /\ w = k + 1 + (w - 1 - k)
      OBVIOUS
    <3>2. QED BY <3>1
  <2>2. w * w = k * w + w + d * w
    BY <2>1
  <2>3. k * w \in Nat /\ d * w \in Nat
    OBVIOUS
  <2>4. QED BY <1>1, <2>2, <2>3
<1>3. ASSUME NEW p \in 0..(n - 1)
      PROVE  \E k, j \in 0..(w - 1) : k = p \div w /\ j = p % w /\ p = k * w + j
  <2>1. PICK q \in Nat, r \in 0..(w - 1) : q = p \div w /\ r = p % w /\ p = q * w + r
    BY Quotient
  <2>2. ASSUME q >= w PROVE FALSE
    <3>1. PICK d \in Nat : q = w + d
      <4>1. q - w \in Nat /\ q = w + (q - w)
        BY <2>2
      <4>2. QED BY <4>1
    <3>2. q * w = w * w + d * w /\ d * w \in Nat
      BY <3>1
    <3>3. QED BY <1>1, <2>1, <3>2
  <2>3. q \in 0..(w - 1)
    BY <2>2
  <2>4. QED BY <2>1, <2>3
<1>4. ASSUME NEW k \in 0..(w - 1), NEW l \in 0..(w - 1), NEW i \in 0..(w - 1), NEW j \in 0..(w - 1),
             k * w + i = l * w + j
      PROVE  k = l /\ i = j
  <2>1. (k * w + i) \div w = k /\ (k * w + i) % w = i /\ (l * w + j) \div w = l /\ (l * w + j) % w = j
    BY QuotientUnique
  <2>2. QED BY <1>4, <2>1
<1>5. QED BY <1>1, <1>2, <1>3, <1>4

\* A sequence without repetition has as many members as places.
LEMMA SeqCount ==
  ASSUME NEW S, NEW s \in Seq(S), \A i, j \in 1..Len(s) : s[i] = s[j] => i = j
  PROVE  LET T == {s[i] : i \in 1..Len(s)} IN IsFiniteSet(T) /\ Cardinality(T) = Len(s)
<1> DEFINE T == {s[i] : i \in 1..Len(s)}
<1>1. PICK n \in Nat : n = Len(s)
  OBVIOUS
<1>2. s \in [1..n -> T] /\ \A y \in T : \E p \in 1..n : s[p] = y
  BY <1>1
<1>3. s \in Bijection(1..n, T)
  BY <1>1, <1>2 DEF Bijection, Injection, Surjection, IsInjective
<1>4. ExistsBijection(1..n, T)
  BY <1>3 DEF ExistsBijection
<1>5. IsFiniteSet(1..n) /\ Cardinality(1..n) = n
  BY FS_Interval
<1> HIDE DEF T
<1>6. IsFiniteSet(T) /\ Cardinality(T) = Len(s)
  BY <1>1, <1>4, <1>5, FS_Bijection
<1>7. QED BY <1>6 DEF T
=================================================================================
