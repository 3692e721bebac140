-------------------------- MODULE Combinator_proofs --------------------------
(***************************************************************************)
(* CombinatorSolver under both of its programs, for every matrix           *)
(* dimension, every linear CRC, every partition, every configuration and   *)
(* every file: the parts of the solver's state keep their meaning through  *)
(* solve, solveCascade, solveHybrid and the blocks of overlapSolver, and   *)
(* with them what the runs promise of its types, its restarts, its reports *)
(* and its answers; the equations, lines and counts are exact, and refuted *)
(* values are wrong. Without solveHybrid the solver implements Deduction,  *)
(* but where a cascade given cells makes equations late, that overlook     *)
(* them.                                                                   *)
(***************************************************************************)
EXTENDS CombinatorCommands, Induction_proofs, SequenceTheorems

-------------------------------------------------------------------------------
(* Sequences.                                                              *)

\* A sequence without repetition.
Distinct(s) == \A i, j \in 1..Len(s) : s[i] = s[j] => i = j

LEMMA DistinctCount ==
  ASSUME NEW S, NEW s \in Seq(S), Distinct(s)
  PROVE  IsFiniteSet(ToSet(s)) /\ Cardinality(ToSet(s)) = Len(s)
<1>1. ToSet(s) = {s[i] : i \in 1..Len(s)}
  BY DEF ToSet
<1>2. QED BY <1>1, SeqCount DEF Distinct

LEMMA ToSetOf ==
  ASSUME NEW S, NEW s \in Seq(S)
  PROVE  /\ ToSet(s) \subseteq S
         /\ \A y : y \in ToSet(s) <=> \E i \in 1..Len(s) : s[i] = y
<1>1. ToSet(s) = {s[i] : i \in 1..Len(s)}
  BY DEF ToSet
<1>2. QED BY <1>1


LEMMA JoiningUnfolds ==
  ASSUME NEW T, NEW ss \in Seq(Seq(T)), NEW n \in Nat, n = Len(ss)
  PROVE  \E f \in [0..n -> Seq(T)] :
           /\ f[0] = <<>>
           /\ \A i \in 1..n : f[i] = f[i - 1] \o ss[i]
           /\ FlattenSeq(ss) = f[n]
<1> DEFINE LT == Seq(T)
           step == [q \in Nat \X LT |-> IF q[1] \in 1..n THEN q[2] \o ss[q[1]] ELSE q[2]]
<1>1. <<>> \in LT
  OBVIOUS
<1>2. step \in [Nat \X LT -> LT]
  <2>1. ASSUME NEW q \in Nat \X LT, q[1] \in 1..n PROVE q[2] \o ss[q[1]] \in LT
    <3>1. q[2] \in Seq(T) /\ ss[q[1]] \in Seq(T)
      BY <2>1
    <3>2. QED BY <3>1
  <2> HIDE DEF LT
  <2>2. \A q \in Nat \X LT : q[2] \in LT
    OBVIOUS
  <2>3. QED BY <2>1, <2>2
<1>0. ss \in Seq(LT)
  OBVIOUS
<1> HIDE DEF LT
<1>3. \E f \in [0..n -> LT] : f[0] = <<>> /\ \A i \in 1..n : f[i] = step[<<i, f[i - 1]>>]
  <2> HIDE DEF step
  <2>1. Runs(LT, <<>>, step, n) # {}
    BY <1>1, <1>2, IterationUpTo
  <2>2. QED BY <2>1 DEF Runs
<1>4. PICK f \in [0..n -> LT] : f[0] = <<>> /\ \A i \in 1..n : f[i] = step[<<i, f[i - 1]>>]
  BY <1>3
<1>5. ASSUME NEW i \in 1..n PROVE f[i] = f[i - 1] \o ss[i] /\ f[i - 1] \in LT
  <2>0. i - 1 \in 0..n /\ i \in Nat
    OBVIOUS
  <2>1. f[i - 1] \in LT /\ i \in Nat
    BY <1>4, <2>0
  <2>2. <<i, f[i - 1]>> \in Nat \X LT
    BY <2>1
  <2>3. QED BY <1>4, <2>1, <2>2
<1>6. FlattenSeq(ss) = f[n]
  <2>1. CASE n = 0
    <3>1. ss = <<>>
      BY <1>0, <2>1, EmptySeq
    <3>2. FlattenSeq(ss) = ss
      BY <2>1 DEF FlattenSeq
    <3>3. QED BY <1>4, <2>1, <3>1, <3>2
  <2>2. CASE n # 0
    <3> DEFINE IsJoin(g) == g = [i \in 1..n |-> IF i = 1 THEN ss[i] ELSE g[i - 1] \o ss[i]]
               h == [i \in 1..n |-> f[i]]
    <3>1. ASSUME NEW i \in 1..n PROVE h[i] = IF i = 1 THEN ss[i] ELSE h[i - 1] \o ss[i]
      <4>1. CASE i = 1
        <5>1. f[1] = f[0] \o ss[1]
          <6>1. 1 \in 1..n /\ 1 - 1 = 0
            BY <2>2
          <6>2. f[1] = f[1 - 1] \o ss[1]
            BY <1>5, <6>1
          <6>3. QED BY <6>1, <6>2
        <5>2. ss[1] \in Seq(T)
          BY <2>2
        <5>3. <<>> \o ss[1] = ss[1]
          BY <5>2
        <5>4. QED BY <1>4, <4>1, <5>1, <5>3
      <4>2. CASE i # 1
        <5>1. i - 1 \in 1..n
          BY <4>2
        <5>2. QED BY <1>5, <4>2, <5>1
      <4>3. QED BY <4>1, <4>2
    <3>2. IsJoin(h)
      BY <3>1
    <3>3. ASSUME NEW g, IsJoin(g) PROVE g[n] = f[n]
      <4> DEFINE G == {i \in Nat : i \in 1..n => g[i] = f[i]}
      <4>1. 0 \in G
        OBVIOUS
      <4>2. ASSUME NEW i \in 0..(n - 1), i \in G PROVE i + 1 \in G
        <5>1. PICK k \in 1..n : k = i + 1 /\ k - 1 = i
          OBVIOUS
        <5>2. g[k] = IF k = 1 THEN ss[k] ELSE g[k - 1] \o ss[k]
          BY <3>3
        <5>3. h[k] = IF k = 1 THEN ss[k] ELSE h[k - 1] \o ss[k]
          BY <3>1
        <5>4. h[k] = f[k]
          OBVIOUS
        <5>5. g[k] = f[k]
          <6>1. CASE k = 1
            BY <5>2, <5>3, <5>4, <6>1
          <6>2. CASE k # 1
            <7>1. i \in 1..n /\ h[i] = f[i] /\ g[i] = f[i]
              BY <4>2, <5>1, <6>2
            <7>2. QED BY <5>1, <5>2, <5>3, <5>4, <6>2, <7>1
          <6>3. QED BY <6>1, <6>2
        <5>6. QED BY <5>1, <5>5
      <4> HIDE DEF G
      <4>3. \A i \in 0..n : i \in G
        BY <4>1, <4>2, InductionUpTo
      <4>4. n \in G
        BY <4>3
      <4>5. QED BY <2>2, <4>4 DEF G
    <3> DEFINE j == CHOOSE g : IsJoin(g)
    <3>4. IsJoin(j)
      <4> HIDE DEF IsJoin
      <4> QED BY <3>2
    <3>5. FlattenSeq(ss) = j[n]
      BY <2>2 DEF FlattenSeq
    <3> HIDE DEF j
    <3>6. QED BY <3>3, <3>4, <3>5
  <2>3. QED BY <2>1, <2>2
<1>7. QED BY <1>4, <1>5, <1>6 DEF LT

\* What is in a concatenation, and that it repeats nothing when its parts repeat
\* nothing.
LEMMA JoinOfTwo ==
  ASSUME NEW T, NEW s \in Seq(T), NEW t \in Seq(T)
  PROVE  /\ s \o t \in Seq(T)
         /\ Len(s \o t) = Len(s) + Len(t)
         /\ \A p \in 1..Len(s) : p \in 1..Len(s \o t) /\ (s \o t)[p] = s[p]
         /\ \A p \in 1..Len(t) : Len(s) + p \in 1..Len(s \o t) /\ (s \o t)[Len(s) + p] = t[p]
         /\ \A p \in 1..Len(s \o t) : p \in 1..Len(s) \/ \E q \in 1..Len(t) : p = Len(s) + q
<1>1. PICK n \in Nat, k \in Nat : n = Len(s) /\ k = Len(t)
  OBVIOUS
<1>2. /\ s \o t \in Seq(T)
      /\ Len(s \o t) = n + k
      /\ \A i \in 1..(n + k) : (s \o t)[i] = IF i <= n THEN s[i] ELSE t[i - n]
  BY <1>1, ConcatProperties
<1>3. ASSUME NEW p \in 1..n PROVE p \in 1..(n + k) /\ (s \o t)[p] = s[p]
  BY <1>2
<1>4. ASSUME NEW p \in 1..k PROVE n + p \in 1..(n + k) /\ (s \o t)[n + p] = t[p]
  <2>1. n + p \in 1..(n + k) /\ ~(n + p <= n) /\ (n + p) - n = p
    OBVIOUS
  <2>2. QED BY <1>2, <2>1
<1>5. ASSUME NEW p \in 1..(n + k) PROVE p \in 1..n \/ \E q \in 1..k : p = n + q
  <2>1. CASE p > n
    <3>1. p - n \in 1..k /\ p = n + (p - n)
      BY <2>1
    <3>2. QED BY <3>1
  <2>2. QED BY <2>1
<1>6. QED BY <1>1, <1>2, <1>3, <1>4, <1>5

LEMMA FlattenOf ==
  ASSUME NEW T, NEW ss \in Seq(Seq(T))
  PROVE  /\ FlattenSeq(ss) \in Seq(T)
         /\ \A p \in 1..Len(FlattenSeq(ss)) :
              \E i \in 1..Len(ss) : \E j \in 1..Len(ss[i]) : FlattenSeq(ss)[p] = ss[i][j]
         /\ \A i \in 1..Len(ss) : \A j \in 1..Len(ss[i]) :
              \E p \in 1..Len(FlattenSeq(ss)) : FlattenSeq(ss)[p] = ss[i][j]
         /\ (\A i, k \in 1..Len(ss) : \A j \in 1..Len(ss[i]), l \in 1..Len(ss[k]) :
               ss[i][j] = ss[k][l] => i = k /\ j = l) => Distinct(FlattenSeq(ss))
<1>1. PICK n \in Nat : n = Len(ss)
  OBVIOUS
<1> DEFINE LT == Seq(T)
<1>2. PICK f \in [0..n -> LT] : /\ f[0] = <<>>
                                /\ \A i \in 1..n : f[i] = f[i - 1] \o ss[i]
                                /\ FlattenSeq(ss) = f[n]
  <2>1. n \in Nat /\ n = Len(ss) /\ ss \in Seq(Seq(T))
    BY <1>1
  <2>2. \E f \in [0..n -> Seq(T)] :
          /\ f[0] = <<>>
          /\ \A i \in 1..n : f[i] = f[i - 1] \o ss[i]
          /\ FlattenSeq(ss) = f[n]
    BY ONLY <2>1, JoiningUnfolds, Zenon
  <2>3. QED BY ONLY <2>2, Zenon
<1>3. \A i \in 1..n : ss[i] \in LT
  BY <1>1
<1> DEFINE Only(k) == \A p \in 1..Len(f[k]) : \E i \in 1..k : \E j \in 1..Len(ss[i]) : f[k][p] = ss[i][j]
           All(k) == \A i \in 1..k : \A j \in 1..Len(ss[i]) : \E p \in 1..Len(f[k]) : f[k][p] = ss[i][j]
           Apart == \A i, k \in 1..n : \A j \in 1..Len(ss[i]), l \in 1..Len(ss[k]) :
                      ss[i][j] = ss[k][l] => i = k /\ j = l
           G == {k \in Nat : Only(k) /\ All(k) /\ (Apart => Distinct(f[k]))}
<1>4. 0 \in G
  <2>1. Len(f[0]) = 0
    BY <1>2
  <2>2. Only(0) /\ All(0) /\ Distinct(f[0])
    BY <2>1 DEF Distinct
  <2>3. QED BY <2>2
<1>5. ASSUME NEW h \in 0..(n - 1), h \in G PROVE h + 1 \in G
  <2>1. PICK k \in 1..n : k = h + 1 /\ k - 1 = h
    OBVIOUS
  <2>2. f[k] = f[h] \o ss[k]
    BY <1>2, <2>1
  <2>3. f[h] \in Seq(T) /\ ss[k] \in Seq(T)
    BY <1>3, <2>1
  <2> DEFINE a == f[h]
             b == ss[k]
  <2>4. /\ \A p \in 1..Len(a) : p \in 1..Len(f[k]) /\ f[k][p] = a[p]
        /\ \A p \in 1..Len(b) : Len(a) + p \in 1..Len(f[k]) /\ f[k][Len(a) + p] = b[p]
        /\ \A p \in 1..Len(f[k]) : p \in 1..Len(a) \/ \E q \in 1..Len(b) : p = Len(a) + q
    <3> HIDE DEF a, b
    <3>1. f[k] = a \o b /\ a \in Seq(T) /\ b \in Seq(T)
      BY <2>2, <2>3 DEF a, b
    <3>2. QED BY <3>1, JoinOfTwo
  <2>5. Only(h) /\ All(h) /\ (Apart => Distinct(a))
    BY <1>5
  <2>6. \A i \in 1..h : i \in 1..k /\ i # k
    BY <2>1
  <2>7. Only(k)
    <3> SUFFICES ASSUME NEW p \in 1..Len(f[k])
                 PROVE  \E i \in 1..k : \E j \in 1..Len(ss[i]) : f[k][p] = ss[i][j]
      OBVIOUS
    <3>1. CASE p \in 1..Len(a)
      <4>1. PICK i \in 1..h : \E j \in 1..Len(ss[i]) : a[p] = ss[i][j]
        BY <2>5, <3>1
      <4>2. f[k][p] = a[p] /\ i \in 1..k
        BY <2>4, <2>6, <3>1
      <4>3. QED BY <4>1, <4>2
    <3>2. ASSUME NEW q \in 1..Len(b), p = Len(a) + q
          PROVE  \E i \in 1..k : \E j \in 1..Len(ss[i]) : f[k][p] = ss[i][j]
      <4>0. k \in 1..k
        OBVIOUS
      <4>1. f[k][p] = ss[k][q] /\ k \in 1..k
        BY <2>4, <3>2, <4>0
      <4>2. QED BY <4>1
    <3>3. QED BY <2>4, <3>1, <3>2
  <2>8. All(k)
    <3> SUFFICES ASSUME NEW i \in 1..k, NEW j \in 1..Len(ss[i])
                 PROVE  \E p \in 1..Len(f[k]) : f[k][p] = ss[i][j]
      OBVIOUS
    <3>1. CASE i = k
      BY <2>4, <3>1
    <3>2. CASE i # k
      <4>1. i \in 1..h
        BY <2>1, <3>2
      <4>2. PICK p \in 1..Len(a) : a[p] = ss[i][j]
        BY <2>5, <4>1
      <4>3. QED BY <2>4, <4>2
    <3>3. QED BY <3>1, <3>2
  <2>9. ASSUME Apart PROVE Distinct(f[k])
    <3> SUFFICES ASSUME NEW p \in 1..Len(f[k]), NEW q \in 1..Len(f[k]), f[k][p] = f[k][q]
                 PROVE  p = q
      BY DEF Distinct
    <3>1. ASSUME NEW x \in 1..Len(a), NEW y \in 1..Len(b), a[x] = b[y] PROVE FALSE
      <4>1. PICK i \in 1..h : \E j \in 1..Len(ss[i]) : a[x] = ss[i][j]
        BY <2>5
      <4>2. i \in 1..n /\ i # k
        BY <2>1, <2>6
      <4>3. PICK j \in 1..Len(ss[i]) : ss[i][j] = ss[k][y]
        BY <3>1, <4>1
      <4>4. i = k
        BY <2>9, <4>2, <4>3
      <4>5. QED BY <4>2, <4>4
    <3>2. CASE p \in 1..Len(a) /\ q \in 1..Len(a)
      BY <2>4, <2>5, <2>9, <3>2 DEF Distinct
    <3>3. CASE p \in 1..Len(a) /\ q \notin 1..Len(a)
      <4>1. PICK y \in 1..Len(b) : q = Len(a) + y
        BY <2>4, <3>3
      <4>2. a[p] = b[y]
        BY <2>4, <3>3, <4>1
      <4>3. QED BY <3>1, <3>3, <4>2
    <3>4. CASE p \notin 1..Len(a) /\ q \in 1..Len(a)
      <4>1. PICK y \in 1..Len(b) : p = Len(a) + y
        BY <2>4, <3>4
      <4>2. a[q] = b[y]
        BY <2>4, <3>4, <4>1
      <4>3. QED BY <3>1, <3>4, <4>2
    <3>5. CASE p \notin 1..Len(a) /\ q \notin 1..Len(a)
      <4>1. PICK x \in 1..Len(b), y \in 1..Len(b) : p = Len(a) + x /\ q = Len(a) + y
        BY <2>4, <3>5
      <4>2. b[x] = b[y]
        BY <2>4, <4>1
      <4>3. x = y
        BY <2>9, <4>2
      <4>4. QED BY <4>1, <4>3
    <3>6. QED BY <3>2, <3>3, <3>4, <3>5
  <2> HIDE DEF Only, All, Apart
  <2>10. k \in Nat
    OBVIOUS
  <2>11. Apart => Distinct(f[k])
    BY ONLY <2>9, Zenon
  <2>12. k \in G
    BY ONLY <2>7, <2>8, <2>10, <2>11, Zenon
  <2>13. QED BY ONLY <2>1, <2>12, Zenon
<1> HIDE DEF G
<1>6. \A k \in 0..n : k \in G
  BY <1>4, <1>5, InductionUpTo
<1>7. n \in G
  BY <1>6
<1>8. f[n] \in LT
  OBVIOUS
<1>9. Only(n) /\ All(n) /\ (Apart => Distinct(f[n]))
  BY <1>7 DEF G
<1>10. QED BY <1>1, <1>2, <1>8, <1>9

\* The members of a sequence that are in a set.
LEMMA AmongOf ==
  ASSUME NEW T, NEW s \in Seq(T), NEW S
  PROVE  /\ Among(s, S) \in Seq(T)
         /\ ToSet(Among(s, S)) = ToSet(s) \cap S
         /\ Distinct(s) => Distinct(Among(s, S))
<1>1. PICK n \in Nat : n = Len(s)
  OBVIOUS
<1> DEFINE ss == [i \in 1..n |-> IF s[i] \in S THEN <<s[i]>> ELSE <<>>]
<1>2. DOMAIN s = 1..n
  BY <1>1
<1>3. \A i \in 1..n : s[i] \in T
  BY <1>1
<1>4. /\ \A i \in 1..n : ss[i] \in Seq(T)
      /\ \A i \in 1..n : s[i] \in S => Len(ss[i]) = 1 /\ ss[i][1] = s[i]
      /\ \A i \in 1..n : s[i] \notin S => Len(ss[i]) = 0
  <2>1. ASSUME NEW i \in 1..n, s[i] \in S PROVE ss[i] \in Seq(T) /\ Len(ss[i]) = 1 /\ ss[i][1] = s[i]
    <3>1. <<s[i]>> \in Seq(T)
      BY <1>3
    <3>2. QED BY <2>1, <3>1
  <2>2. ASSUME NEW i \in 1..n, s[i] \notin S PROVE ss[i] \in Seq(T) /\ Len(ss[i]) = 0
    <3>1. <<>> \in Seq(T)
      OBVIOUS
    <3>2. QED BY <2>2, <3>1
  <2> HIDE DEF ss
  <2>3. QED BY <2>1, <2>2
<1>5. Among(s, S) = FlattenSeq(ss)
  BY <1>2 DEF Among
<1>6. ss \in Seq(Seq(T)) /\ Len(ss) = n
  <2> DEFINE LT == Seq(T)
  <2>1. \A i \in 1..n : ss[i] \in LT
    BY <1>4
  <2> HIDE DEF LT
  <2>2. ss \in Seq(LT) /\ Len(ss) = n
    BY <2>1
  <2>3. QED BY <2>2 DEF LT
<1> HIDE DEF ss
<1> DEFINE t == FlattenSeq(ss)
<1>7. /\ t \in Seq(T)
      /\ \A p \in 1..Len(t) : \E i \in 1..n : \E j \in 1..Len(ss[i]) : t[p] = ss[i][j]
      /\ \A i \in 1..n : \A j \in 1..Len(ss[i]) : \E p \in 1..Len(t) : t[p] = ss[i][j]
      /\ (\A i, k \in 1..n : \A j \in 1..Len(ss[i]), l \in 1..Len(ss[k]) :
            ss[i][j] = ss[k][l] => i = k /\ j = l) => Distinct(t)
  <2>1. /\ t \in Seq(T)
        /\ \A p \in 1..Len(t) : \E i \in 1..Len(ss) : \E j \in 1..Len(ss[i]) : t[p] = ss[i][j]
        /\ \A i \in 1..Len(ss) : \A j \in 1..Len(ss[i]) : \E p \in 1..Len(t) : t[p] = ss[i][j]
        /\ (\A i, k \in 1..Len(ss) : \A j \in 1..Len(ss[i]), l \in 1..Len(ss[k]) :
              ss[i][j] = ss[k][l] => i = k /\ j = l) => Distinct(t)
    BY <1>6, FlattenOf
  <2> HIDE DEF t
  <2>2. QED BY <1>6, <2>1
<1> HIDE DEF t
<1>8. ASSUME NEW i \in 1..n, NEW j \in 1..Len(ss[i]) PROVE s[i] \in S /\ j = 1 /\ ss[i][j] = s[i]
  <2>1. s[i] \in S
    BY <1>4
  <2>2. Len(ss[i]) = 1 /\ ss[i][1] = s[i]
    BY <1>4, <2>1
  <2>3. j = 1
    BY <2>2
  <2>4. QED BY <2>1, <2>2, <2>3
<1>9. ToSet(t) = ToSet(s) \cap S
  <2>1. ASSUME NEW y, y \in ToSet(t) PROVE y \in ToSet(s) /\ y \in S
    <3>1. PICK p \in 1..Len(t) : t[p] = y
      BY <1>7, <2>1, ToSetOf
    <3>2. PICK i \in 1..n : \E j \in 1..Len(ss[i]) : t[p] = ss[i][j]
      BY <1>7
    <3>3. y = s[i] /\ s[i] \in S
      BY <1>8, <3>1, <3>2
    <3>4. QED BY <1>1, <3>3, ToSetOf
  <2>2. ASSUME NEW y, y \in ToSet(s), y \in S PROVE y \in ToSet(t)
    <3>1. PICK i \in 1..n : s[i] = y
      BY <1>1, <2>2, ToSetOf
    <3>2. 1 \in 1..Len(ss[i]) /\ ss[i][1] = y
      BY <1>4, <2>2, <3>1
    <3>3. PICK p \in 1..Len(t) : t[p] = y
      BY <1>7, <3>2
    <3>4. QED BY <1>7, <3>3, ToSetOf
  <2>3. QED BY <2>1, <2>2
<1>10. ASSUME Distinct(s) PROVE Distinct(t)
  <2>1. ASSUME NEW i \in 1..n, NEW k \in 1..n, NEW j \in 1..Len(ss[i]), NEW l \in 1..Len(ss[k]), ss[i][j] = ss[k][l]
        PROVE  i = k /\ j = l
    BY <1>1, <1>8, <1>10, <2>1 DEF Distinct
  <2>2. QED BY <1>7, <2>1
<1>11. QED BY <1>5, <1>7, <1>9, <1>10 DEF t

\* Sorting keeps the members.
LEMMA InsertedOf ==
  ASSUME NEW T, NEW t \in Seq(T), NEW x \in T, NEW key
  PROVE  /\ Inserted(t, x, key) \in Seq(T)
         /\ Len(Inserted(t, x, key)) = Len(t) + 1
         /\ ToSet(Inserted(t, x, key)) = ToSet(t) \cup {x}
         /\ Distinct(t) /\ x \notin ToSet(t) => Distinct(Inserted(t, x, key))
<1>1. PICK n \in Nat : n = Len(t)
  OBVIOUS
<1> DEFINE P == {k \in 1..n : key[t[k]] <= key[x]}
<1>2. PICK p \in 0..n : p = Cardinality(P)
  <2>1. IsFiniteSet(1..n) /\ Cardinality(1..n) = n
    BY FS_Interval
  <2>2. P \in SUBSET (1..n)
    OBVIOUS
  <2> HIDE DEF P
  <2>3. IsFiniteSet(P) /\ Cardinality(P) <= n
    BY <2>1, <2>2, FS_Subset
  <2>4. Cardinality(P) \in Nat
    BY <2>3, FS_CardinalityType
  <2>5. QED BY <2>3, <2>4
<1> DEFINE a == SubSeq(t, 1, p)
           b == SubSeq(t, p + 1, n)
           u == Inserted(t, x, key)
<1>3. u = (a \o <<x>>) \o b
  <2>1. DOMAIN t = 1..n
    BY <1>1
  <2>2. QED BY <1>1, <1>2, <2>1 DEF Inserted
<1> HIDE DEF P, u
<1>4. a \in Seq(T) /\ Len(a) = p /\ \A i \in 1..p : a[i] = t[i]
  BY <1>1
<1>5. b \in Seq(T) /\ Len(b) = n - p /\ \A i \in 1..(n - p) : b[i] = t[p + i]
  BY <1>1
<1>6. <<x>> \in Seq(T) /\ Len(<<x>>) = 1 /\ <<x>>[1] = x
  OBVIOUS
<1> HIDE DEF a, b
<1>7. /\ a \o <<x>> \in Seq(T) /\ Len(a \o <<x>>) = p + 1
      /\ \A i \in 1..p : (a \o <<x>>)[i] = t[i]
      /\ (a \o <<x>>)[p + 1] = x
  <2>1. /\ a \o <<x>> \in Seq(T) /\ Len(a \o <<x>>) = p + 1
        /\ \A i \in 1..(p + 1) : (a \o <<x>>)[i] = IF i <= p THEN a[i] ELSE <<x>>[i - p]
    BY <1>4, <1>6, ConcatProperties
  <2>2. \A i \in 1..p : i \in 1..(p + 1) /\ i <= p
    OBVIOUS
  <2>3. p + 1 \in 1..(p + 1) /\ ~(p + 1 <= p) /\ (p + 1) - p = 1
    OBVIOUS
  <2>4. QED BY <1>4, <1>6, <2>1, <2>2, <2>3
<1>8. /\ u \in Seq(T) /\ Len(u) = n + 1
      /\ \A i \in 1..p : u[i] = t[i]
      /\ u[p + 1] = x
      /\ \A i \in (p + 1)..n : u[i + 1] = t[i]
  <2> DEFINE c == a \o <<x>>
  <2> HIDE DEF c
  <2>1. c \in Seq(T) /\ Len(c) = p + 1 /\ (\A i \in 1..p : c[i] = t[i]) /\ c[p + 1] = x
    BY <1>7 DEF c
  <2>2. /\ c \o b \in Seq(T) /\ Len(c \o b) = (p + 1) + (n - p)
        /\ \A i \in 1..((p + 1) + (n - p)) : (c \o b)[i] = IF i <= p + 1 THEN c[i] ELSE b[i - (p + 1)]
    <3>1. /\ c \o b \in Seq(T) /\ Len(c \o b) = Len(c) + Len(b)
          /\ \A i \in 1..(Len(c) + Len(b)) : (c \o b)[i] = IF i <= Len(c) THEN c[i] ELSE b[i - Len(c)]
      BY <1>5, <2>1, ConcatProperties
    <3>2. Len(c) = p + 1 /\ Len(b) = n - p
      BY <1>5, <2>1
    <3>3. QED BY <3>1, <3>2
  <2>3. (p + 1) + (n - p) = n + 1
    OBVIOUS
  <2>4. u = c \o b
    BY <1>3 DEF c
  <2>5. \A i \in 1..p : i \in 1..(n + 1) /\ i <= p + 1
    OBVIOUS
  <2>6. p + 1 \in 1..(n + 1)
    OBVIOUS
  <2>7. ASSUME NEW i \in (p + 1)..n PROVE u[i + 1] = t[i]
    <3>1. i + 1 \in 1..(n + 1) /\ ~(i + 1 <= p + 1) /\ (i + 1) - (p + 1) \in 1..(n - p) /\ p + ((i + 1) - (p + 1)) = i
      OBVIOUS
    <3>2. u[i + 1] = b[(i + 1) - (p + 1)]
      BY <2>2, <2>3, <2>4, <3>1
    <3>3. QED BY <1>5, <3>1, <3>2
  <2>8. u \in Seq(T) /\ Len(u) = n + 1
    BY <2>2, <2>3, <2>4
  <2>9. \A i \in 1..p : u[i] = t[i]
    BY <2>1, <2>2, <2>3, <2>4, <2>5
  <2>10. u[p + 1] = x
    BY <2>1, <2>2, <2>3, <2>4, <2>6
  <2>11. QED BY <2>7, <2>8, <2>9, <2>10
<1>9. \A i \in 1..(n + 1) : i \in 1..p \/ i = p + 1 \/ \E k \in (p + 1)..n : i = k + 1
  <2>1. ASSUME NEW i \in 1..(n + 1), i \notin 1..p, i # p + 1 PROVE \E k \in (p + 1)..n : i = k + 1
    <3>1. i - 1 \in (p + 1)..n /\ i = (i - 1) + 1
      BY <2>1
    <3>2. QED BY <3>1
  <2>2. QED BY <2>1
<1>10. \A i \in 1..n : i \in 1..p \/ i \in (p + 1)..n
  OBVIOUS
<1>11. p + 1 \in 1..(n + 1) /\ (\A i \in 1..p : i \in 1..(n + 1) /\ i \in 1..n)
       /\ (\A i \in (p + 1)..n : i + 1 \in 1..(n + 1) /\ i \in 1..n)
  OBVIOUS
<1>12. ToSet(u) = ToSet(t) \cup {x}
  <2>1. ASSUME NEW y, y \in ToSet(u) PROVE y \in ToSet(t) \cup {x}
    <3>1. PICK i \in 1..(n + 1) : u[i] = y
      BY <1>8, <2>1, ToSetOf
    <3>2. CASE i \in 1..p
      <4>1. t[i] = y /\ i \in 1..n
        BY <1>8, <1>11, <3>1, <3>2
      <4>2. QED BY <1>1, <4>1, ToSetOf
    <3>3. CASE i = p + 1
      BY <1>8, <3>1, <3>3
    <3>4. ASSUME NEW k \in (p + 1)..n, i = k + 1 PROVE y \in ToSet(t)
      <4>1. t[k] = y /\ k \in 1..n
        BY <1>8, <1>11, <3>1, <3>4
      <4>2. QED BY <1>1, <4>1, ToSetOf
    <3>5. QED BY <1>9, <3>2, <3>3, <3>4
  <2>2. ASSUME NEW y, y \in ToSet(t) PROVE y \in ToSet(u)
    <3>1. PICK i \in 1..n : t[i] = y
      BY <1>1, <2>2, ToSetOf
    <3>2. \E j \in 1..(n + 1) : u[j] = y
      BY <1>8, <1>10, <1>11, <3>1
    <3>3. QED BY <1>8, <3>2, ToSetOf
  <2>3. x \in ToSet(u)
    BY <1>8, <1>11, ToSetOf
  <2>4. QED BY <2>1, <2>2, <2>3
<1>13. ASSUME Distinct(t), x \notin ToSet(t) PROVE Distinct(u)
  <2>1. \A i \in 1..n : t[i] # x
    BY <1>1, <1>13, ToSetOf
  <2>2. \A i, j \in 1..n : t[i] = t[j] => i = j
    BY <1>1, <1>13 DEF Distinct
  <2> DEFINE from(i) == IF i \in 1..p THEN i ELSE i - 1
  <2>3. ASSUME NEW i \in 1..(n + 1), i # p + 1 PROVE from(i) \in 1..n /\ u[i] = t[from(i)] /\ u[i] # x
    <3>1. CASE i \in 1..p
      BY <1>8, <1>11, <2>1, <3>1
    <3>2. CASE i \notin 1..p
      <4>1. PICK k \in (p + 1)..n : i = k + 1
        BY <1>9, <2>3, <3>2
      <4>2. from(i) = k /\ k \in 1..n
        BY <3>2, <4>1
      <4>3. QED BY <1>8, <2>1, <4>1, <4>2
    <3>3. QED BY <3>1, <3>2
  <2>4. ASSUME NEW i \in 1..(n + 1), NEW j \in 1..(n + 1), u[i] = u[j] PROVE i = j
    <3>1. CASE i # p + 1 /\ j # p + 1
      <4>1. from(i) = from(j)
        <5> HIDE DEF from
        <5> QED BY <2>2, <2>3, <2>4, <3>1
      <4>2. QED BY <3>1, <4>1
    <3>2. CASE i = p + 1 \/ j = p + 1
      BY <1>8, <2>3, <2>4, <3>2
    <3>3. QED BY <3>1, <3>2
  <2>5. QED BY <1>8, <2>4 DEF Distinct
<1>14. QED BY <1>1, <1>8, <1>12, <1>13 DEF u

LEMMA SortedOf ==
  ASSUME NEW T, NEW s \in Seq(T), NEW key
  PROVE  /\ SortedBy(s, key) \in Seq(T)
         /\ Len(SortedBy(s, key)) = Len(s)
         /\ ToSet(SortedBy(s, key)) = ToSet(s)
         /\ Distinct(s) => Distinct(SortedBy(s, key))
<1>1. PICK n \in Nat : n = Len(s)
  OBVIOUS
<1>2. \A i \in 1..n : s[i] \in T
  BY <1>1
<1> DEFINE LT == Seq(T)
           step == [q \in Nat \X LT |-> IF q[1] \in 1..n THEN Inserted(q[2], s[q[1]], key) ELSE q[2]]
<1>3. <<>> \in LT
  OBVIOUS
<1>4. \A t \in LT : \A i \in 1..n : Inserted(t, s[i], key) \in LT
  BY <1>2, InsertedOf
<1> HIDE DEF LT
<1>5. step \in [Nat \X LT -> LT]
  BY <1>4
<1>6. \E f \in [0..n -> LT] : f[0] = <<>> /\ \A i \in 1..n : f[i] = Inserted(f[i - 1], s[i], key)
  <2> HIDE DEF step
  <2>1. Runs(LT, <<>>, step, n) # {}
    BY <1>3, <1>5, IterationUpTo
  <2>2. PICK f \in [0..n -> LT] : f[0] = <<>> /\ \A i \in 1..n : f[i] = step[<<i, f[i - 1]>>]
    BY <2>1 DEF Runs
  <2>3. ASSUME NEW i \in 1..n PROVE f[i] = Inserted(f[i - 1], s[i], key)
    <3>1. i - 1 \in 0..n /\ i \in Nat
      OBVIOUS
    <3>2. <<i, f[i - 1]>> \in Nat \X LT
      BY <2>2, <3>1
    <3>3. step[<<i, f[i - 1]>>] = Inserted(f[i - 1], s[i], key)
      BY <3>2 DEF step
    <3>4. QED BY <2>2, <3>3
  <2>4. QED BY <2>2, <2>3
<1> DEFINE IsRun(f) == f = [i \in 0..n |-> IF i = 0 THEN <<>> ELSE Inserted(f[i - 1], s[i], key)]
           sorted == CHOOSE f : IsRun(f)
<1>7. IsRun(sorted)
  <2>1. PICK f \in [0..n -> LT] : f[0] = <<>> /\ \A i \in 1..n : f[i] = Inserted(f[i - 1], s[i], key)
    BY <1>6
  <2>2. \A i \in 0..n : f[i] = IF i = 0 THEN <<>> ELSE Inserted(f[i - 1], s[i], key)
    BY <2>1
  <2>3. IsRun(f)
    BY <2>1, <2>2
  <2> HIDE DEF IsRun
  <2>4. QED BY <2>3
<1>8. SortedBy(s, key) = sorted[n]
  BY <1>1 DEF SortedBy
<1>9. /\ sorted[0] = <<>>
      /\ \A i \in 1..n : sorted[i] = Inserted(sorted[i - 1], s[i], key)
  <2> HIDE DEF sorted
  <2>1. \A i \in 0..n : sorted[i] = IF i = 0 THEN <<>> ELSE Inserted(sorted[i - 1], s[i], key)
    BY <1>7
  <2>2. 0 \in 0..n /\ \A i \in 1..n : i \in 0..n /\ i # 0
    OBVIOUS
  <2>3. QED BY <2>1, <2>2
<1> HIDE DEF sorted
<1> DEFINE First(k) == {s[i] : i \in 1..k}
           Good(k) == /\ sorted[k] \in Seq(T) /\ Len(sorted[k]) = k /\ ToSet(sorted[k]) = First(k)
                      /\ Distinct(s) => Distinct(sorted[k])
           G == {k \in Nat : Good(k)}
<1>10. 0 \in G
  <2>1. <<>> \in Seq(T) /\ Len(<<>>) = 0 /\ ToSet(<<>>) = {} /\ Distinct(<<>>)
    BY DEF ToSet, Distinct
  <2>2. First(0) = {}
    OBVIOUS
  <2> HIDE DEF First
  <2>3. QED BY <1>9, <2>1, <2>2
<1>11. ASSUME NEW h \in 0..(n - 1), h \in G PROVE h + 1 \in G
  <2>1. PICK k \in 1..n : k = h + 1 /\ k - 1 = h
    OBVIOUS
  <2>2. Good(h)
    BY <1>11
  <2>3. sorted[k] = Inserted(sorted[h], s[k], key)
    BY <1>9, <2>1
  <2>4. s[k] \in T
    BY <1>2
  <2>5. First(k) = First(h) \cup {s[k]}
    <3>1. \A i : i \in 1..k <=> i \in 1..h \/ i = k
      BY <2>1
    <3>2. QED BY <3>1
  <2>6. ASSUME Distinct(s) PROVE s[k] \notin First(h)
    <3>1. ASSUME NEW i \in 1..h, s[i] = s[k] PROVE FALSE
      <4>1. i \in 1..n /\ i # k
        BY <2>1
      <4>2. QED BY <1>1, <2>6, <3>1, <4>1 DEF Distinct
    <3>2. QED BY <3>1
  <2> HIDE DEF First
  <2>7. Good(k)
    <3>1. sorted[h] \in Seq(T) /\ Len(sorted[h]) = h /\ ToSet(sorted[h]) = First(h)
          /\ (Distinct(s) => Distinct(sorted[h]))
      BY <2>2
    <3>2. /\ sorted[k] \in Seq(T) /\ Len(sorted[k]) = h + 1
          /\ ToSet(sorted[k]) = First(h) \cup {s[k]}
          /\ Distinct(sorted[h]) /\ s[k] \notin First(h) => Distinct(sorted[k])
      BY <2>3, <2>4, <3>1, InsertedOf
    <3>3. QED BY <2>1, <2>5, <2>6, <3>1, <3>2
  <2> HIDE DEF Good
  <2>8. QED BY <2>1, <2>7
<1> HIDE DEF G
<1>12. \A k \in 0..n : k \in G
  BY <1>10, <1>11, InductionUpTo
<1>13. Good(n)
  <2>1. n \in G
    BY <1>12
  <2> HIDE DEF Good
  <2>2. QED BY <2>1 DEF G
<1>14. ToSet(s) = First(n)
  BY <1>1 DEF ToSet
<1>15. QED BY <1>1, <1>8, <1>13, <1>14

-------------------------------------------------------------------------------
(* Lines.                                                                  *)

\* A line is a sequence of up to kS cells without repetition.
LineSeqs == {l \in Seq(Cells) : Len(l) \in 1..kS /\ Distinct(l)}

LEMMA Numbers ==
  /\ kS \in Nat \ {0} /\ kN \in Nat \ {0} /\ kN = kS * kS /\ Unit \in Nat \ {0}
  /\ kDiagCount \in Nat \ {0} /\ kDiagCount = 2 * kS - 1
  /\ Index = 0..(kS - 1) /\ Cells = Index \X Index
<1>1. kS \in Nat \ {0} /\ Unit \in Nat \ {0}
  BY DimensionAssumption
<1>2. kS * kS \in Nat \ {0}
  BY <1>1
<1>3. QED BY <1>1, <1>2 DEF kN, kDiagCount, Index, Cells

LEMMA FiniteCells == IsFiniteSet(Cells)
<1>1. IsFiniteSet(Index)
  BY Numbers, FS_Interval
<1>2. QED BY <1>1, Numbers, FS_Product

LEMMA FiniteSubset == ASSUME NEW S \in SUBSET Cells PROVE IsFiniteSet(S) /\ Cardinality(S) \in Nat
BY FiniteCells, FS_Subset, FS_CardinalityType

LEMMA RowMajorRight ==
  /\ RowMajor \in Seq(Cells) /\ Len(RowMajor) = kN /\ Distinct(RowMajor)
  /\ ToSet(RowMajor) = Cells
<1>1. PICK w \in Nat \ {0}, n \in Nat \ {0} : w = kS /\ n = kN /\ n = w * w
  BY Numbers
<1>2. /\ \A k, j \in 0..(w - 1) : k * w + j \in 0..(n - 1)
      /\ \A p \in 0..(n - 1) : \E k, j \in 0..(w - 1) : k = p \div w /\ j = p % w /\ p = k * w + j
      /\ \A k, l, i, j \in 0..(w - 1) : k * w + i = l * w + j => k = l /\ i = j
  BY <1>1, SquarePlaces
<1>3. Index = 0..(w - 1) /\ Cells = Index \X Index
  BY <1>1, Numbers
<1>4. ASSUME NEW i \in 1..n
      PROVE  \E k, j \in 0..(w - 1) : RowMajor[i] = <<k, j>> /\ i - 1 = k * w + j
  <2>1. i - 1 \in 0..(n - 1)
    OBVIOUS
  <2>2. PICK k \in 0..(w - 1), j \in 0..(w - 1) : k = (i - 1) \div w /\ j = (i - 1) % w /\ i - 1 = k * w + j
    BY <1>2, <2>1
  <2>3. RowMajor[i] = <<k, j>>
    BY <1>1, <2>2 DEF RowMajor
  <2>4. QED BY <2>2, <2>3
<1>5. RowMajor \in Seq(Cells) /\ Len(RowMajor) = n
  <2>1. ASSUME NEW i \in 1..n PROVE RowMajor[i] \in Cells
    <3>1. PICK k \in 0..(w - 1), j \in 0..(w - 1) : RowMajor[i] = <<k, j>>
      BY <1>4
    <3>2. QED BY <1>3, <3>1
  <2>2. RowMajor = [i \in 1..n |-> RowMajor[i]]
    BY <1>1 DEF RowMajor
  <2>3. QED BY <2>1, <2>2
<1>6. Distinct(RowMajor)
  <2>1. ASSUME NEW i \in 1..n, NEW j \in 1..n, RowMajor[i] = RowMajor[j] PROVE i = j
    <3>1. PICK k \in 0..(w - 1), c \in 0..(w - 1) : RowMajor[i] = <<k, c>> /\ i - 1 = k * w + c
      BY <1>4
    <3>2. PICK l \in 0..(w - 1), d \in 0..(w - 1) : RowMajor[j] = <<l, d>> /\ j - 1 = l * w + d
      BY <1>4
    <3>3. k = l /\ c = d
      <4>1. <<k, c>> = <<l, d>>
        BY ONLY <2>1, <3>1, <3>2, Zenon
      <4>2. QED BY <4>1
    <3>4. i - 1 = j - 1
      BY <3>1, <3>2, <3>3
    <3>5. QED BY <3>4
  <2>2. QED BY <1>5, <2>1 DEF Distinct
<1>7. ASSUME NEW x \in Cells PROVE x \in ToSet(RowMajor)
  <2>1. PICK k \in 0..(w - 1), c \in 0..(w - 1) : x = <<k, c>>
    BY <1>3
  <2>2. PICK p \in 0..(n - 1) : p = k * w + c
    BY <1>2
  <2>3. p + 1 \in 1..n /\ (p + 1) - 1 = p
    OBVIOUS
  <2>a. \E l, d \in 0..(w - 1) : RowMajor[p + 1] = <<l, d>> /\ (p + 1) - 1 = l * w + d
    BY ONLY <1>4, <2>3, Zenon
  <2>4. PICK l \in 0..(w - 1), d \in 0..(w - 1) : RowMajor[p + 1] = <<l, d>> /\ p = l * w + d
    BY ONLY <2>3, <2>a, Zenon
  <2>5. l = k /\ d = c
    BY <1>2, <2>2, <2>4
  <2>6. RowMajor[p + 1] = x
    BY <2>1, <2>4, <2>5
  <2>7. QED BY <1>5, <2>3, <2>6, ToSetOf
<1>8. ToSet(RowMajor) \subseteq Cells
  BY <1>5, ToSetOf
<1>9. QED BY <1>1, <1>5, <1>6, <1>7, <1>8

\* A filtered sequence without repetition that keeps something.
LEMMA KeptLine ==
  ASSUME NEW T, NEW s \in Seq(T), Distinct(s), Len(s) = kS,
         NEW i \in 1..kS, s[i] \in Cells
  PROVE  Among(s, Cells) \in LineSeqs
<1> DEFINE t == Among(s, Cells)
<1>1. t \in Seq(T) /\ ToSet(t) = ToSet(s) \cap Cells /\ Distinct(t)
  BY AmongOf
<1> HIDE DEF t
<1>2. IsFiniteSet(ToSet(s)) /\ Cardinality(ToSet(s)) = kS
  BY DistinctCount
<1>3. Cardinality(ToSet(t)) = Len(t) /\ Len(t) \in Nat
  <2>1. t \in Seq(T) /\ Distinct(t)
    BY <1>1
  <2>2. Cardinality(ToSet(t)) = Len(t)
    BY <2>1, DistinctCount
  <2>3. QED BY <2>1, <2>2
<1>4. Cardinality(ToSet(t)) <= kS
  BY <1>1, <1>2, FS_Subset
<1>5. s[i] \in ToSet(t)
  <2>1. i \in 1..Len(s)
    OBVIOUS
  <2>2. s[i] \in ToSet(s)
    BY <2>1, ToSetOf
  <2>3. QED BY <1>1, <2>2
<1>6. Len(t) # 0
  <2>1. \E p \in 1..Len(t) : t[p] = s[i]
    BY <1>1, <1>5, ToSetOf
  <2>2. QED BY <2>1
<1>7. t \in Seq(Cells)
  <2>1. PICK n \in Nat : n = Len(t)
    BY <1>3
  <2>2. \A p \in 1..n : t[p] \in Cells
    BY <1>1, <2>1, ToSetOf
  <2>3. QED BY <1>1, <2>1, <2>2
<1>8. QED BY <1>1, <1>3, <1>4, <1>6, <1>7, Numbers DEF LineSeqs, t

LEMMA RowColumnLines ==
  ASSUME NEW k \in Index
  PROVE  RowCells(k) \in LineSeqs /\ ColumnCells(k) \in LineSeqs
<1>1. PICK w \in Nat \ {0} : w = kS /\ Index = 0..(w - 1)
  BY Numbers
<1>2. \A i \in 1..w : <<k, i - 1>> \in Cells /\ <<i - 1, k>> \in Cells
  BY <1>1, Numbers
<1> DEFINE r == [i \in 1..w |-> <<k, i - 1>>]
           c == [i \in 1..w |-> <<i - 1, k>>]
<1>3. RowCells(k) = r /\ ColumnCells(k) = c
  BY <1>1 DEF RowCells, ColumnCells
<1>4. r \in Seq(Cells) /\ Len(r) = w
  <2>1. \A i \in 1..w : r[i] \in Cells
    BY <1>2
  <2>2. QED BY <2>1
<1>5. c \in Seq(Cells) /\ Len(c) = w
  <2>1. \A i \in 1..w : c[i] \in Cells
    BY <1>2
  <2>2. QED BY <2>1
<1>6. \A i, j \in 1..w : (r[i] = r[j] => i = j) /\ (c[i] = c[j] => i = j)
  OBVIOUS
<1> HIDE DEF r, c
<1>7. QED BY <1>1, <1>3, <1>4, <1>5, <1>6 DEF LineSeqs, Distinct

LEMMA DiagonalLines ==
  ASSUME NEW d \in 0..(kDiagCount - 1)
  PROVE  diagCells(d) \in LineSeqs /\ antiDiagCells(d) \in LineSeqs
<1>1. PICK w \in Nat \ {0} : w = kS /\ Index = 0..(w - 1) /\ kDiagCount = 2 * w - 1
  BY Numbers
<1> DEFINE T == Int \X Int
           s == [i \in 1..w |-> <<i - 1, i - 1 + d - (w - 1)>>]
           a == [i \in 1..w |-> <<i - 1, d - (i - 1)>>]
<1>2. s \in Seq(T) /\ Len(s) = w /\ Distinct(s)
  <2>1. \A i \in 1..w : s[i] \in T
    BY <1>1
  <2>2. s \in Seq(T) /\ Len(s) = w
    BY <2>1
  <2>3. \A i, j \in 1..w : s[i] = s[j] => i = j
    OBVIOUS
  <2> HIDE DEF s
  <2>4. QED BY <2>2, <2>3 DEF Distinct
<1>3. a \in Seq(T) /\ Len(a) = w /\ Distinct(a)
  <2>1. \A i \in 1..w : a[i] \in T
    BY <1>1
  <2>2. a \in Seq(T) /\ Len(a) = w
    BY <2>1
  <2>3. \A i, j \in 1..w : a[i] = a[j] => i = j
    OBVIOUS
  <2> HIDE DEF a
  <2>4. QED BY <2>2, <2>3 DEF Distinct
<1>4. \E i \in 1..w : s[i] \in Cells
  <2>1. CASE d <= w - 1
    <3>1. w - d \in 1..w /\ w - d - 1 \in 0..(w - 1) /\ w - d - 1 + d - (w - 1) = 0
      BY <2>1
    <3>2. s[w - d] = <<w - d - 1, 0>>
      BY <3>1
    <3>3. s[w - d] \in Cells
      BY <1>1, <3>1, <3>2, Numbers
    <3>4. QED BY <3>1, <3>3
  <2>2. CASE d > w - 1
    <3>1. 1 \in 1..w /\ s[1] = <<0, d - (w - 1)>> /\ d - (w - 1) \in 0..(w - 1)
      BY <1>1, <2>2
    <3>2. s[1] \in Cells
      BY <1>1, <3>1, Numbers
    <3>3. QED BY <3>1, <3>2
  <2>3. d \in Nat
    BY <1>1
  <2> HIDE DEF s
  <2>4. QED BY <1>1, <2>1, <2>2, <2>3
<1>5. \E i \in 1..w : a[i] \in Cells
  <2>1. CASE d <= w - 1
    <3>1. 1 \in 1..w /\ a[1] = <<0, d>> /\ d \in 0..(w - 1)
      BY <1>1, <2>1
    <3>2. a[1] \in Cells
      BY <1>1, <3>1, Numbers
    <3>3. QED BY <3>1, <3>2
  <2>2. CASE d > w - 1
    <3>1. w \in 1..w /\ a[w] = <<w - 1, d - (w - 1)>> /\ d - (w - 1) \in 0..(w - 1)
      BY <1>1, <2>2
    <3>2. a[w] \in Cells
      BY <1>1, <3>1, Numbers
    <3>3. QED BY <3>1, <3>2
  <2>3. d \in Nat
    BY <1>1
  <2> HIDE DEF a
  <2>4. QED BY <1>1, <2>1, <2>2, <2>3
<1>6. diagCells(d) = Among(s, Cells) /\ antiDiagCells(d) = Among(a, Cells)
  BY <1>1 DEF diagCells, antiDiagCells
<1> HIDE DEF s, a, T
<1>7. QED BY <1>1, <1>2, <1>3, <1>4, <1>5, <1>6, KeptLine

LEMMA ToroidalLine ==
  ASSUME NEW k \in Index
  PROVE  ToroidalDiagCells(k) \in LineSeqs /\ ToroidalAntiDiagCells(k) \in LineSeqs
<1>1. PICK w \in Nat \ {0} : w = kS /\ Index = 0..(w - 1)
  BY Numbers
<1>2. \A n \in Nat : n % w \in 0..(w - 1)
  <2>1. ASSUME NEW n \in Nat PROVE n % w \in 0..(w - 1)
    BY Quotient
  <2>2. QED BY <2>1
<1>3. ASSUME NEW i \in 1..w
      PROVE  <<i - 1, (k + i - 1) % w>> \in Cells /\ <<i - 1, (k + w - (i - 1)) % w>> \in Cells
  <2>1. k + i - 1 \in Nat /\ k + w - (i - 1) \in Nat /\ i - 1 \in 0..(w - 1)
    BY <1>1
  <2>2. (k + i - 1) % w \in 0..(w - 1) /\ (k + w - (i - 1)) % w \in 0..(w - 1)
    BY <1>2, <2>1
  <2>3. QED BY <1>1, <2>1, <2>2, Numbers
<1> DEFINE r == [i \in 1..w |-> <<i - 1, (k + i - 1) % w>>]
           c == [i \in 1..w |-> <<i - 1, (k + w - (i - 1)) % w>>]
<1>4. ToroidalDiagCells(k) = r /\ ToroidalAntiDiagCells(k) = c
  BY <1>1 DEF ToroidalDiagCells, ToroidalAntiDiagCells
<1>5. r \in Seq(Cells) /\ Len(r) = w
  <2>1. \A i \in 1..w : r[i] \in Cells
    BY <1>3
  <2>2. QED BY <2>1
<1>6. c \in Seq(Cells) /\ Len(c) = w
  <2>1. \A i \in 1..w : c[i] \in Cells
    BY <1>3
  <2>2. QED BY <2>1
<1>7. \A i, j \in 1..w : (r[i] = r[j] => i = j) /\ (c[i] = c[j] => i = j)
  <2>1. \A i \in 1..w : r[i][1] = i - 1 /\ c[i][1] = i - 1
    OBVIOUS
  <2> HIDE DEF r, c
  <2>2. QED BY <2>1
<1> HIDE DEF r, c
<1>8. QED BY <1>1, <1>4, <1>5, <1>6, <1>7 DEF LineSeqs, Distinct

LEMMA MinOfTwo ==
  ASSUME NEW a \in Int, NEW b \in Int
  PROVE  Min({a, b}) = IF a <= b THEN a ELSE b
<1> DEFINE m == IF a <= b THEN a ELSE b
<1>1. m \in {a, b} /\ \A y \in {a, b} : m <= y
  OBVIOUS
<1>2. \A x \in {a, b} : (\A y \in {a, b} : x <= y) => x = m
  OBVIOUS
<1> HIDE DEF m
<1>3. Min({a, b}) \in {a, b} /\ \A y \in {a, b} : Min({a, b}) <= y
  BY <1>1 DEF Min
<1>4. Min({a, b}) = m
  BY <1>2, <1>3
<1>5. QED BY <1>4 DEF m

LEMMA PieceOf ==
  ASSUME NEW T, NEW s \in Seq(T), NEW a \in Nat, NEW b \in Nat, a <= b, b <= Len(s)
  PROVE  /\ SubSeq(s, a + 1, b) \in Seq(T)
         /\ Len(SubSeq(s, a + 1, b)) = b - a
         /\ Distinct(s) => Distinct(SubSeq(s, a + 1, b))
<1>1. PICK n \in Nat : n = Len(s)
  OBVIOUS
<1>2. \A i \in 1..n : s[i] \in T
  BY <1>1
<1> DEFINE t == SubSeq(s, a + 1, b)
<1>3. b - a \in Nat /\ \A i \in 1..(b - a) : a + i \in 1..n
  BY <1>1
<1>4. Len(t) = b - a /\ DOMAIN t = 1..(b - a) /\ \A i \in 1..(b - a) : t[i] = s[a + i]
  BY <1>1
<1>5. t \in Seq(T)
  BY <1>2, <1>3, <1>4
<1>6. ASSUME Distinct(s) PROVE Distinct(t)
  <2> HIDE DEF t
  <2>1. ASSUME NEW i \in 1..(b - a), NEW j \in 1..(b - a), t[i] = t[j] PROVE i = j
    <3>1. s[a + i] = s[a + j] /\ a + i \in 1..n /\ a + j \in 1..n
      BY <1>3, <1>4, <2>1
    <3>2. a + i = a + j
      BY <1>1, <1>6, <3>1 DEF Distinct
    <3>3. QED BY <3>2
  <2>2. QED BY <1>4, <2>1 DEF Distinct
<1>7. QED BY <1>4, <1>5, <1>6

LEMMA StraightLines ==
  /\ RowLines \in Seq(LineSeqs) /\ Len(RowLines) = kS
  /\ ColumnLines \in Seq(LineSeqs) /\ Len(ColumnLines) = kS
  /\ DiagLines \in Seq(LineSeqs) /\ Len(DiagLines) = kDiagCount
  /\ AntiDiagLines \in Seq(LineSeqs) /\ Len(AntiDiagLines) = kDiagCount
  /\ ToroidalLines \in Seq(LineSeqs)
<1>1. PICK w \in Nat \ {0}, n \in Nat \ {0} : w = kS /\ n = kDiagCount /\ Index = 0..(w - 1)
  BY Numbers
<1>2. \A i \in 1..w : /\ RowCells(i - 1) \in LineSeqs /\ ColumnCells(i - 1) \in LineSeqs
                      /\ ToroidalDiagCells(i - 1) \in LineSeqs
                      /\ ToroidalAntiDiagCells(i - 1) \in LineSeqs
  BY <1>1, RowColumnLines, ToroidalLine
<1>3. \A i \in 1..n : diagCells(i - 1) \in LineSeqs /\ antiDiagCells(i - 1) \in LineSeqs
  BY <1>1, DiagonalLines
<1> DEFINE L == LineSeqs
           t == [i \in 1..w |-> ToroidalDiagCells(i - 1)]
           a == [i \in 1..w |-> ToroidalAntiDiagCells(i - 1)]
<1> HIDE DEF L
<1>4. RowLines \in Seq(L) /\ Len(RowLines) = w
  BY <1>1, <1>2 DEF RowLines, L
<1>5. ColumnLines \in Seq(L) /\ Len(ColumnLines) = w
  BY <1>1, <1>2 DEF ColumnLines, L
<1>6. DiagLines \in Seq(L) /\ Len(DiagLines) = n
  BY <1>1, <1>3 DEF DiagLines, L
<1>7. AntiDiagLines \in Seq(L) /\ Len(AntiDiagLines) = n
  BY <1>1, <1>3 DEF AntiDiagLines, L
<1>8. t \in Seq(L) /\ a \in Seq(L)
  BY <1>2 DEF L
<1>9. ToroidalLines = t \o a
  BY <1>1 DEF ToroidalLines
<1> HIDE DEF t, a
<1>10. ToroidalLines \in Seq(L)
  BY <1>8, <1>9
<1>11. QED BY <1>1, <1>4, <1>5, <1>6, <1>7, <1>10 DEF L

LEMMA ShuffledLines ==
  ASSUME NEW seed \in DOMAIN YltpLine
  PROVE  YltpLines(seed) \in Seq(LineSeqs)
<1>1. PICK w \in Nat \ {0} : w = kS /\ Index = 0..(w - 1)
  BY Numbers
<1> DEFINE L == LineSeqs
           S(i) == {x \in Cells : YltpLine[seed][x] = i - 1}
<1>2. ASSUME NEW i \in 1..w PROVE Among(RowMajor, S(i)) \in L
  <2> DEFINE t == Among(RowMajor, S(i))
  <2> HIDE DEF t
  <2>1. t \in Seq(Cells) /\ ToSet(t) = Cells \cap S(i) /\ Distinct(t)
    <3> HIDE DEF S
    <3> QED BY RowMajorRight, AmongOf DEF t
  <2>2. Cells \cap S(i) = S(i) /\ i - 1 \in Index
    BY <1>1
  <2>3. Cardinality(S(i)) = kS
    BY <2>2, YltpAssumption
  <2> HIDE DEF S
  <2>4. Cardinality(ToSet(t)) = Len(t)
    BY <2>1, DistinctCount
  <2>5. Len(t) = kS /\ kS \in 1..kS
    <3>1. Cardinality(ToSet(t)) = kS
      BY <2>1, <2>2, <2>3
    <3>2. QED BY <1>1, <2>4, <3>1
  <2>6. QED BY <2>1, <2>5 DEF LineSeqs, t
<1>3. YltpLines(seed) = [i \in 1..w |-> Among(RowMajor, S(i))]
  BY <1>1 DEF YltpLines
<1> HIDE DEF L, S
<1>4. [i \in 1..w |-> Among(RowMajor, S(i))] \in Seq(L)
  BY <1>2
<1>5. QED BY <1>3, <1>4 DEF L

LEMMA SpiralRight ==
  ASSUME NEW centre
  PROVE  Spiral(centre) \in Seq(Cells) /\ Len(Spiral(centre)) = kN /\ Distinct(Spiral(centre))
<1> DEFINE key == [x \in Cells |-> (x[1] - centre[1]) * (x[1] - centre[1])
                                   + (x[2] - centre[2]) * (x[2] - centre[2])]
<1>1. Spiral(centre) = SortedBy(RowMajor, key)
  BY DEF Spiral
<1> HIDE DEF key
<1>2. QED BY <1>1, RowMajorRight, SortedOf

LEMMA SpiralLines ==
  ASSUME NEW cfg, cfg.rltpMaxLines \in Nat, NEW centre
  PROVE  RltpLines(cfg, centre) \in Seq(LineSeqs)
<1> DEFINE L == LineSeqs
           cells == Spiral(centre)
           maxGrad == IF cfg.rltpMaxLines > 0 THEN Min({cfg.rltpMaxLines, kS}) ELSE kS
           length(k) == IF k <= maxGrad THEN k ELSE kS
           from(k)  == IF k <= maxGrad THEN (k * (k - 1)) \div 2
                        ELSE (maxGrad * (maxGrad + 1)) \div 2 + (k - maxGrad - 1) * kS
           line(k) == SubSeq(cells, from(k) + 1, Min({from(k) + length(k), kN}))
           wanted(k) == from(k) < kN /\ (cfg.rltpMaxLines = 0 \/ k <= maxGrad)
           row(k) == IF wanted(k) THEN <<line(k)>> ELSE <<>>
<1>1. PICK w \in Nat \ {0}, n \in Nat \ {0} : w = kS /\ n = kN
  BY Numbers
<1>2. cells \in Seq(Cells) /\ Len(cells) = n /\ Distinct(cells)
  BY <1>1, SpiralRight
<1> HIDE DEF cells
<1>3. PICK g \in 1..w : g = maxGrad
  <2>1. CASE cfg.rltpMaxLines > 0
    <3>1. Min({cfg.rltpMaxLines, kS}) \in 1..w
      BY <1>1, <2>1, MinOfTwo
    <3>2. QED BY <2>1, <3>1
  <2>2. QED BY <1>1, <2>1
<1>4. ASSUME NEW k \in 1..n PROVE from(k) \in Nat /\ length(k) \in 1..w
  <2>1. \A h \in Nat : h \div 2 \in Nat
    OBVIOUS
  <2>2. CASE k <= maxGrad
    <3>1. k * (k - 1) \in Nat /\ k \in 1..w
      BY <1>3, <2>2
    <3>2. (k * (k - 1)) \div 2 \in Nat
      BY <2>1, <3>1
    <3>3. QED BY <2>2, <3>1, <3>2
  <2>3. CASE ~(k <= maxGrad)
    <3>1. g * (g + 1) \in Nat /\ k - g - 1 \in Nat
      BY <1>3, <2>3
    <3>2. (g * (g + 1)) \div 2 \in Nat /\ (k - g - 1) * w \in Nat
      BY <2>1, <3>1
    <3>3. (g * (g + 1)) \div 2 + (k - g - 1) * w \in Nat
      BY <3>2
    <3>4. from(k) = (g * (g + 1)) \div 2 + (k - g - 1) * w /\ length(k) = w
      BY <1>1, <1>3, <2>3
    <3>5. QED BY <3>3, <3>4
  <2>4. QED BY <2>2, <2>3
<1> HIDE DEF from, length, maxGrad
<1>5. ASSUME NEW k \in 1..n, wanted(k) PROVE line(k) \in L
  <2>1. PICK a \in Nat, l \in 1..w : a = from(k) /\ l = length(k) /\ a < n
    BY <1>1, <1>4, <1>5
  <2>2. PICK b \in Nat : b = Min({a + l, n})
    BY MinOfTwo
  <2>3. a < b /\ b <= n /\ b - a <= l
    BY <2>1, <2>2, MinOfTwo
  <2>4. line(k) = SubSeq(cells, a + 1, b)
    BY <1>1, <2>1, <2>2
  <2>5. /\ SubSeq(cells, a + 1, b) \in Seq(Cells)
        /\ Len(SubSeq(cells, a + 1, b)) = b - a
        /\ Distinct(SubSeq(cells, a + 1, b))
    <3>1. a <= b /\ b <= Len(cells)
      BY <1>2, <2>3
    <3>2. QED BY <1>2, <3>1, PieceOf
  <2>6. b - a \in 1..w
    BY <2>1, <2>3
  <2>7. QED BY <1>1, <2>4, <2>5, <2>6 DEF LineSeqs
<1> HIDE DEF line, wanted, L
<1>6. ASSUME NEW k \in 1..n PROVE row(k) \in Seq(L)
  <2>1. <<>> \in Seq(L)
    OBVIOUS
  <2>2. CASE wanted(k)
    BY <1>5, <2>2
  <2>3. QED BY <2>1, <2>2
<1>7. [k \in 1..n |-> row(k)] \in Seq(Seq(L))
  <2> DEFINE R == Seq(L)
  <2> HIDE DEF R, row
  <2>1. \A k \in 1..n : row(k) \in R
    BY <1>6 DEF R
  <2>2. [k \in 1..n |-> row(k)] \in Seq(R)
    BY <2>1
  <2>3. QED BY <2>2 DEF R
<1>8. RltpLines(cfg, centre) = FlattenSeq([k \in 1..n |-> row(k)])
  BY <1>1 DEF RltpLines, row, wanted, line, length, from, maxGrad, cells
<1> HIDE DEF row
<1>9. QED BY <1>7, <1>8, FlattenOf DEF L

LEMMA ShortestOf ==
  ASSUME NEW T, NEW ls \in Seq(T), NEW n
  PROVE  Shortest(ls, n) \in Seq(T)
<1> DEFINE key == [line \in ToSet(ls) |-> Len(line)]
           sorted == SortedBy(ls, key)
           b == IF n \in 1..Len(ls) THEN n ELSE Len(ls)
<1> HIDE DEF key
<1>1. sorted \in Seq(T) /\ Len(sorted) = Len(ls)
  BY SortedOf
<1> HIDE DEF sorted
<1>2. b \in Nat /\ b <= Len(sorted)
  BY <1>1
<1> HIDE DEF b
<1>3. SubSeq(sorted, 0 + 1, b) \in Seq(T)
  BY <1>1, <1>2, PieceOf
<1>4. Shortest(ls, n) = SubSeq(sorted, 1, b)
  BY DEF Shortest, sorted, b, key
<1>5. QED BY <1>3, <1>4

LEMMA InRangeOf ==
  ASSUME NEW T, NEW ls \in Seq(T), NEW a, NEW b
  PROVE  InRange(ls, a, b) \in Seq(T)
BY AmongOf DEF InRange

-------------------------------------------------------------------------------
(* What the equations and the integer lines say of a matrix.               *)

Matrices   == [Cells -> {0, 1}]
CellStates == [Cells -> {0, 1, Unassigned}]
Nothing    == [x \in Cells |-> Unassigned]

Unset(c) == {x \in Cells : c[x] = Unassigned}

Equation == [cells : SUBSET Cells, target : {0, 1}]
Line     == [cells : SUBSET Cells, rho : Int, u : Int]

EquationsOf(m) == {eq \in Equation : Satisfies(m, eq)}

\* What is left of a line, of the matrix m, when the cells of c are assigned.
LinesOf(m, c) ==
  {line \in Line : /\ line.u = Cardinality(line.cells \cap Unset(c))
                   /\ line.rho = OnesOf(m, line.cells) - OnesOf(c, line.cells)}

LEMMA OnesCount ==
  ASSUME NEW m, NEW S \in SUBSET Cells
  PROVE  OnesOf(m, S) \in Nat /\ OnesOf(m, S) <= Cardinality(S) /\ Cardinality(S) \in Nat
<1>1. {x \in S : m[x] = 1} \in SUBSET S /\ IsFiniteSet(S)
  BY FiniteSubset
<1>2. QED BY <1>1, FiniteSubset, FS_Subset DEF OnesOf

LEMMA OnesSplit ==
  ASSUME NEW m, NEW S \in SUBSET Cells, NEW H \in SUBSET S
  PROVE  /\ OnesOf(m, S) = OnesOf(m, H) + OnesOf(m, S \ H)
         /\ OnesOf(m, S) \in Nat /\ OnesOf(m, H) \in Nat /\ OnesOf(m, S \ H) \in Nat
<1> DEFINE A == {x \in H : m[x] = 1}
           B == {x \in S \ H : m[x] = 1}
<1>1. A \cup B = {x \in S : m[x] = 1} /\ A \cap B = {}
  OBVIOUS
<1>2. IsFiniteSet(A) /\ IsFiniteSet(B)
  BY FiniteSubset
<1> HIDE DEF A, B
<1>3. Cardinality(A \cup B) = Cardinality(A) + Cardinality(B)
  <2>1. Cardinality(A \cup B) = Cardinality(A) + Cardinality(B) - Cardinality(A \cap B)
    BY <1>2, FS_Union
  <2>2. Cardinality(A \cap B) = 0
    BY <1>1, FS_EmptySet
  <2>3. Cardinality(A) \in Nat /\ Cardinality(B) \in Nat
    BY <1>2, FS_CardinalityType
  <2>4. QED BY <2>1, <2>2, <2>3
<1>4. Cardinality(A) = OnesOf(m, H) /\ Cardinality(B) = OnesOf(m, S \ H)
  BY DEF OnesOf, A, B
<1>5. H \in SUBSET Cells /\ S \ H \in SUBSET Cells
  OBVIOUS
<1>6. QED BY <1>1, <1>3, <1>4, <1>5, OnesCount DEF OnesOf

LEMMA SymDiffMember ==
  ASSUME NEW A, NEW B, NEW x PROVE x \in SymDiff(A, B) <=> (x \in A) # (x \in B)
BY DEF SymDiff

\* Adding two equations adds their sums, modulo 2.
LEMMA OnesOfSum ==
  ASSUME NEW m, NEW A \in SUBSET Cells, NEW B \in SUBSET Cells
  PROVE  /\ SymDiff(A, B) \in SUBSET Cells
         /\ OnesOf(m, SymDiff(A, B)) % 2 = (OnesOf(m, A) + OnesOf(m, B)) % 2
<1> DEFINE C == A \cap B
           S == SymDiff(A, B)
<1>1. S = (A \ B) \cup (B \ A)
  BY DEF SymDiff
<1>2. S \in SUBSET Cells /\ A \ B \in SUBSET S /\ S \ (A \ B) = B \ A
  BY <1>1
<1>3. C \in SUBSET A /\ C \in SUBSET B /\ A \ C = A \ B /\ B \ C = B \ A
  OBVIOUS
<1> HIDE DEF S, C
<1>0. \A U \in SUBSET Cells : \A H \in SUBSET U : OnesOf(m, U) = OnesOf(m, H) + OnesOf(m, U \ H)
  <2>1. ASSUME NEW U \in SUBSET Cells, NEW H \in SUBSET U
        PROVE  OnesOf(m, U) = OnesOf(m, H) + OnesOf(m, U \ H)
    BY OnesSplit
  <2>2. QED BY <2>1
<1>4. PICK a \in Nat, b \in Nat, c \in Nat :
        a = OnesOf(m, A \ B) /\ b = OnesOf(m, B \ A) /\ c = OnesOf(m, C)
  BY <1>2, <1>3, OnesSplit
<1>5. OnesOf(m, S) = a + b
  <2>1. OnesOf(m, S) = OnesOf(m, A \ B) + OnesOf(m, S \ (A \ B))
    BY <1>2, OnesSplit
  <2>2. QED BY <1>2, <1>4, <2>1
<1>6. OnesOf(m, A) = c + a /\ OnesOf(m, B) = c + b
  <2>1. OnesOf(m, A) = OnesOf(m, C) + OnesOf(m, A \ C) /\ OnesOf(m, B) = OnesOf(m, C) + OnesOf(m, B \ C)
    <3>1. OnesOf(m, A) = OnesOf(m, C) + OnesOf(m, A \ C)
      BY <1>0, <1>3, Zenon
    <3>2. OnesOf(m, B) = OnesOf(m, C) + OnesOf(m, B \ C)
      BY <1>0, <1>3, Zenon
    <3>3. QED BY <3>1, <3>2
  <2>2. QED BY <1>3, <1>4, <2>1
<1>7. (a + b) % 2 = ((c + a) + (c + b)) % 2
  OBVIOUS
<1>8. QED BY <1>2, <1>5, <1>6, <1>7 DEF S

LEMMA ParityOf ==
  ASSUME NEW m \in Matrices, NEW line \in LineSeqs
  PROVE  Parity(m, line) \in EquationsOf(m)
<1>1. ToSet(line) \in SUBSET Cells
  BY ToSetOf DEF LineSeqs
<1>2. OnesOf(m, ToSet(line)) % 2 \in {0, 1}
  BY <1>1, OnesCount
<1>3. QED BY <1>1, <1>2 DEF Parity, EquationsOf, Equation, Satisfies

LEMMA IntLineOf ==
  ASSUME NEW m \in Matrices, NEW line \in LineSeqs
  PROVE  IntLine(m, line) \in LinesOf(m, Nothing)
<1>1. ToSet(line) \in SUBSET Cells /\ Len(line) \in Nat
  BY ToSetOf DEF LineSeqs
<1>2. Cardinality(ToSet(line)) = Len(line)
  BY DistinctCount DEF LineSeqs
<1>3. OnesOf(m, ToSet(line)) \in Nat
  BY <1>1, OnesCount
<1>4. OnesOf(Nothing, ToSet(line)) = 0
  <2>1. {x \in ToSet(line) : Nothing[x] = 1} = {}
    BY <1>1 DEF Nothing, Unassigned
  <2>2. QED BY <2>1, FS_EmptySet DEF OnesOf
<1>5. ToSet(line) \cap Unset(Nothing) = ToSet(line)
  BY <1>1 DEF Unset, Nothing
<1> DEFINE l == IntLine(m, line)
<1>6. l \in Line /\ l.cells = ToSet(line) /\ l.u = Len(line) /\ l.rho = OnesOf(m, ToSet(line))
  BY <1>1, <1>3 DEF IntLine, Line
<1> HIDE DEF l
<1>7. l.rho = OnesOf(m, l.cells) - OnesOf(Nothing, l.cells)
  BY <1>3, <1>4, <1>6
<1>8. l.u = Cardinality(l.cells \cap Unset(Nothing))
  BY <1>2, <1>5, <1>6
<1>9. QED BY <1>6, <1>7, <1>8 DEF LinesOf, l

LEMMA ParitiesOf ==
  ASSUME NEW m \in Matrices, NEW ls \in Seq(LineSeqs)
  PROVE  Parities(m, ls) \in Seq(EquationsOf(m))
<1> DEFINE T == EquationsOf(m)
<1>1. PICK n \in Nat : n = Len(ls) /\ DOMAIN ls = 1..n
  OBVIOUS
<1>2. \A i \in 1..n : ls[i] \in LineSeqs
  BY <1>1
<1>3. \A i \in 1..n : Parity(m, ls[i]) \in T
  BY <1>2, ParityOf
<1> HIDE DEF T
<1>4. [i \in 1..n |-> Parity(m, ls[i])] \in Seq(T)
  BY <1>3
<1>5. QED BY <1>1, <1>4 DEF Parities, T

LEMMA IntLinesOf ==
  ASSUME NEW m \in Matrices, NEW ls \in Seq(LineSeqs)
  PROVE  IntLines(m, ls) \in Seq(LinesOf(m, Nothing))
<1> DEFINE T == LinesOf(m, Nothing)
<1>1. PICK n \in Nat : n = Len(ls) /\ DOMAIN ls = 1..n
  OBVIOUS
<1>2. \A i \in 1..n : ls[i] \in LineSeqs
  BY <1>1
<1>3. \A i \in 1..n : IntLine(m, ls[i]) \in T
  BY <1>2, IntLineOf
<1> HIDE DEF T
<1>4. [i \in 1..n |-> IntLine(m, ls[i])] \in Seq(T)
  BY <1>3
<1>5. QED BY <1>1, <1>4 DEF IntLines, T

\* A message's CRC differs from the zero message's in the bits that an odd number
\* of its ones flips.
LEMMA CrcIsLinear ==
  ASSUME NEW w \in Widths, NEW n \in 1..kS, NEW bits \in [1..n -> {0, 1}], NEW b
  PROVE  b \in SymDiff(Crc(w, bits), Crc(w, Zeros(n)))
           <=> Cardinality({j \in 1..n : bits[j] = 1 /\ b \in genMatrix[w][n][j]}) % 2 = 1
<1>1. n \in Nat /\ kS \in Nat
  BY Numbers
<1> DEFINE ahead(k) == [j \in 1..n |-> IF j <= k THEN bits[j] ELSE 0]
           flips(k) == {j \in 1..k : bits[j] = 1 /\ b \in genMatrix[w][n][j]}
           G == {k \in Nat : b \in SymDiff(Crc(w, ahead(k)), Crc(w, Zeros(n)))
                               <=> Cardinality(flips(k)) % 2 = 1}
<1>2. \A j \in 1..n : genMatrix[w][n][j] = SymDiff(Crc(w, UnitBit(n, j)), Crc(w, Zeros(n)))
  BY DEF genMatrix, crcZero
<1>3. 0 \in G
  <2>1. ahead(0) = Zeros(n)
    <3>1. \A j \in 1..n : (IF j <= 0 THEN bits[j] ELSE 0) = 0
      OBVIOUS
    <3>2. QED BY <3>1 DEF Zeros
  <2>2. flips(0) = {}
    OBVIOUS
  <2>3. Cardinality(flips(0)) = 0
    BY <2>2, FS_EmptySet
  <2>4. ~(b \in SymDiff(Crc(w, ahead(0)), Crc(w, Zeros(n))))
    BY <2>1, SymDiffMember
  <2> HIDE DEF ahead, flips
  <2>5. QED BY <2>3, <2>4
<1>4. ASSUME NEW k \in 0..(n - 1), k \in G PROVE k + 1 \in G
  <2>1. k \in Nat /\ k + 1 \in 1..n
    BY <1>1
  <2>2. IsFiniteSet(flips(k)) /\ Cardinality(flips(k)) \in Nat
    <3>1. flips(k) \in SUBSET (1..k) /\ IsFiniteSet(1..k)
      BY <2>1, FS_Interval
    <3> HIDE DEF flips
    <3>2. QED BY <3>1, FS_Subset, FS_CardinalityType
  <2>3. CASE bits[k + 1] = 0
    <3>1. ahead(k + 1) = ahead(k)
      <4>1. \A j \in 1..n : (IF j <= k + 1 THEN bits[j] ELSE 0) = (IF j <= k THEN bits[j] ELSE 0)
        BY <2>1, <2>3
      <4>2. QED BY <4>1
    <3>2. flips(k + 1) = flips(k)
      <4>1. \A j \in 1..(k + 1) : j \in 1..k \/ j = k + 1
        BY <2>1
      <4>2. QED BY <2>1, <2>3, <4>1
    <3> HIDE DEF ahead, flips
    <3>3. QED BY <1>4, <2>1, <3>1, <3>2
  <2>4. CASE bits[k + 1] = 1
    <3>1. ahead(k) \in [1..n -> {0, 1}] /\ ahead(k)[k + 1] = 0
      BY <2>1
    <3>2. ahead(k + 1) = [ahead(k) EXCEPT ![k + 1] = 1]
      <4>1. \A j \in 1..n : (IF j <= k + 1 THEN bits[j] ELSE 0)
                              = IF j = k + 1 THEN 1 ELSE IF j <= k THEN bits[j] ELSE 0
        BY <2>1, <2>4
      <4>2. QED BY <4>1
    <3>3. Crc(w, ahead(k + 1)) = SymDiff(Crc(w, ahead(k)), genMatrix[w][n][k + 1])
      <4>1. \A a \in [1..n -> {0, 1}], j \in 1..n : a[j] = 0 =>
              Crc(w, [a EXCEPT ![j] = 1])
                = SymDiff(Crc(w, a), SymDiff(Crc(w, UnitBit(n, j)), Crc(w, Zeros(n))))
        BY CrcAssumption
      <4> HIDE DEF ahead
      <4>2. Crc(w, [ahead(k) EXCEPT ![k + 1] = 1])
              = SymDiff(Crc(w, ahead(k)), SymDiff(Crc(w, UnitBit(n, k + 1)), Crc(w, Zeros(n))))
        BY <2>1, <3>1, <4>1
      <4>3. QED BY <1>2, <2>1, <3>2, <4>2
    <3>4. b \in SymDiff(Crc(w, ahead(k + 1)), Crc(w, Zeros(n)))
            <=> (b \in SymDiff(Crc(w, ahead(k)), Crc(w, Zeros(n)))) # (b \in genMatrix[w][n][k + 1])
      <4> HIDE DEF ahead
      <4>1. QED BY <3>3, SymDiffMember
    <3>5. CASE b \in genMatrix[w][n][k + 1]
      <4>1. flips(k + 1) = flips(k) \cup {k + 1} /\ k + 1 \notin flips(k)
        <5>1. \A j : j \in 1..(k + 1) <=> j \in 1..k \/ j = k + 1
          BY <2>1
        <5>2. k + 1 \notin 1..k
          BY <2>1
        <5>3. QED BY <2>4, <3>5, <5>1, <5>2
      <4> HIDE DEF ahead, flips
      <4>2. Cardinality(flips(k + 1)) = Cardinality(flips(k)) + 1
        BY <2>2, <4>1, FS_AddElement
      <4>3. PICK c \in Nat : c = Cardinality(flips(k))
        BY <2>2
      <4>4. (c + 1) % 2 = 1 <=> ~(c % 2 = 1)
        OBVIOUS
      <4>5. QED BY <1>4, <2>1, <3>4, <3>5, <4>2, <4>3, <4>4
    <3>6. CASE b \notin genMatrix[w][n][k + 1]
      <4>1. flips(k + 1) = flips(k)
        <5>1. \A j : j \in 1..(k + 1) <=> j \in 1..k \/ j = k + 1
          BY <2>1
        <5>2. QED BY <3>6, <5>1
      <4> HIDE DEF ahead, flips
      <4>2. QED BY <1>4, <2>1, <3>4, <3>6, <4>1
    <3>7. QED BY <3>5, <3>6
  <2>5. bits[k + 1] \in {0, 1}
    BY <2>1
  <2>6. QED BY <2>3, <2>4, <2>5
<1>5. n \in G
  <2> HIDE DEF G
  <2>1. \A i \in 0..n : i \in G
    BY <1>1, <1>3, <1>4, InductionUpTo
  <2>2. QED BY <1>1, <2>1
<1>6. ahead(n) = bits
  <2>1. \A j \in 1..n : (IF j <= n THEN bits[j] ELSE 0) = bits[j]
    BY <1>1
  <2>2. QED BY <2>1
<1> HIDE DEF ahead
<1>7. QED BY <1>5, <1>6

LEMMA CrcEquationsOf ==
  ASSUME NEW w \in Widths, NEW m \in Matrices, NEW line \in LineSeqs
  PROVE  CrcEquations(w, m, line) \in Seq(EquationsOf(m))
<1>1. PICK n \in 1..kS : n = Len(line) /\ DOMAIN line = 1..n /\ line \in Seq(Cells)
  BY DEF LineSeqs
<1>2. n \in Nat /\ CrcBits[w] \in Nat
  BY Numbers, WidthAssumption
<1>3. \A j \in 1..n : line[j] \in Cells /\ m[line[j]] \in {0, 1}
  BY <1>1, <1>2 DEF Matrices
<1>4. \A i, j \in 1..n : line[i] = line[j] => i = j
  BY <1>1 DEF LineSeqs, Distinct
<1> DEFINE bits == [j \in 1..n |-> m[line[j]]]
           places(b) == {j \in 1..n : b \in genMatrix[w][n][j]}
           cells(b) == {line[j] : j \in places(b)}
           diff == SymDiff(Crc(w, bits), Crc(w, Zeros(n)))
           eq(b) == [cells |-> cells(b), target |-> IF b \in diff THEN 1 ELSE 0]
<1>5. bits \in [1..n -> {0, 1}]
  BY <1>3
<1>6. ASSUME NEW b PROVE eq(b) \in EquationsOf(m)
  <2> DEFINE J == {j \in 1..n : bits[j] = 1 /\ b \in genMatrix[w][n][j]}
             X == {x \in cells(b) : m[x] = 1}
             f == [j \in J |-> line[j]]
  <2>1. cells(b) \in SUBSET Cells
    BY <1>3
  <2>2. b \in diff <=> Cardinality(J) % 2 = 1
    <3> HIDE DEF bits
    <3>1. QED BY <1>5, CrcIsLinear
  <2>3. f \in Bijection(J, X)
    <3>1. ASSUME NEW j \in J PROVE line[j] \in X
      BY <3>1
    <3>2. f \in [J -> X]
      BY <3>1
    <3>3. ASSUME NEW x \in X PROVE \E j \in J : f[j] = x
      <4>1. PICK j \in places(b) : x = line[j]
        BY <3>3
      <4>2. j \in J
        BY <3>3, <4>1
      <4>3. QED BY <4>1, <4>2
    <3>4. \A i, j \in J : f[i] = f[j] => i = j
      BY <1>4
    <3> HIDE DEF J, X, f
    <3>5. QED BY <3>2, <3>3, <3>4 DEF Bijection, Injection, Surjection, IsInjective
  <2>4. IsFiniteSet(J) /\ Cardinality(J) \in Nat
    <3>1. J \in SUBSET (1..n) /\ IsFiniteSet(1..n)
      BY <1>2, FS_Interval
    <3> HIDE DEF J
    <3>2. QED BY <3>1, FS_Subset, FS_CardinalityType
  <2>5. Cardinality(X) = Cardinality(J)
    <3> HIDE DEF J, X, f
    <3>1. ExistsBijection(J, X)
      BY <2>3 DEF ExistsBijection
    <3>2. QED BY <2>4, <3>1, FS_Bijection
  <2>6. OnesOf(m, cells(b)) = Cardinality(J)
    BY <2>5 DEF OnesOf
  <2> HIDE DEF J, X, f, cells, diff
  <2>7. Satisfies(m, eq(b))
    <3>1. PICK c \in Nat : c = Cardinality(J)
      BY <2>4
    <3>2. c % 2 = IF b \in diff THEN 1 ELSE 0
      BY <2>2, <3>1
    <3>3. QED BY <2>6, <3>1, <3>2 DEF Satisfies
  <2>8. QED BY <2>1, <2>7 DEF EquationsOf, Equation
<1>7. CrcEquations(w, m, line) = [b \in 1..CrcBits[w] |-> eq(b)]
  <2>1. LineCrc(w, m, line) = Crc(w, bits)
    BY <1>1 DEF LineCrc
  <2>2. crcZero[w][n] = Crc(w, Zeros(n))
    BY DEF crcZero
  <2>3. QED BY <1>1, <2>1, <2>2 DEF CrcEquations
<1> DEFINE T == EquationsOf(m)
<1> HIDE DEF eq, T
<1>8. [b \in 1..CrcBits[w] |-> eq(b)] \in Seq(T)
  BY <1>2, <1>6 DEF T
<1>9. QED BY <1>7, <1>8 DEF T

LEMMA AllCrcEquationsOf ==
  ASSUME NEW w \in Widths, NEW m \in Matrices, NEW ls \in Seq(LineSeqs)
  PROVE  AllCrcEquations(w, m, ls) \in Seq(EquationsOf(m))
<1> DEFINE T == EquationsOf(m)
           S == Seq(T)
<1>1. PICK n \in Nat : n = Len(ls) /\ DOMAIN ls = 1..n
  OBVIOUS
<1>2. \A i \in 1..n : ls[i] \in LineSeqs
  BY <1>1
<1>3. \A i \in 1..n : CrcEquations(w, m, ls[i]) \in S
  BY <1>2, CrcEquationsOf
<1> HIDE DEF T, S
<1>4. [i \in 1..n |-> CrcEquations(w, m, ls[i])] \in Seq(S)
  BY <1>3
<1>5. QED BY <1>1, <1>4, FlattenOf DEF AllCrcEquations, T, S

LEMMA Wider ==
  ASSUME NEW T, NEW U, T \subseteq U, NEW s \in Seq(T) PROVE s \in Seq(U)
<1>1. PICK n \in Nat : n = Len(s) /\ DOMAIN s = 1..n /\ s \in [1..n -> T]
  OBVIOUS
<1>2. QED BY <1>1

LEMMA GivenOf == ASSUME NEW T, NEW flag, NEW s \in Seq(T) PROVE Given(flag, s) \in Seq(T)
<1>1. <<>> \in Seq(T)
  OBVIOUS
<1>2. QED BY <1>1 DEF Given

LEMMA GeometricOf ==
  ASSUME NEW m \in Matrices, NEW cfg
  PROVE  /\ GeometricParities(m, cfg) \in Seq(EquationsOf(m))
         /\ GeometricIntLines(m, cfg) \in Seq(LinesOf(m, Nothing))
<1> DEFINE L == LineSeqs
           diagonals == IF cfg.toroidal THEN ToroidalLines
                        ELSE DiagLines \o AntiDiagLines \o Given(cfg.useXSMSums, AntiDiagLines)
           parities == RowLines \o ColumnLines \o diagonals
           sums == IF cfg.toroidal THEN ToroidalLines
                   ELSE Given(cfg.useDSMSums, DiagLines) \o Given(cfg.useXSMSums, AntiDiagLines)
           ints == Given(cfg.useLSMSums, RowLines) \o Given(cfg.useVSMSums, ColumnLines) \o sums
<1>1. /\ RowLines \in Seq(L) /\ ColumnLines \in Seq(L) /\ DiagLines \in Seq(L)
      /\ AntiDiagLines \in Seq(L) /\ ToroidalLines \in Seq(L)
  BY StraightLines
<1> HIDE DEF L
<1>2. /\ Given(cfg.useLSMSums, RowLines) \in Seq(L) /\ Given(cfg.useVSMSums, ColumnLines) \in Seq(L)
      /\ Given(cfg.useDSMSums, DiagLines) \in Seq(L) /\ Given(cfg.useXSMSums, AntiDiagLines) \in Seq(L)
  BY <1>1, GivenOf
<1>3. diagonals \in Seq(L) /\ sums \in Seq(L)
  BY <1>1, <1>2
<1> HIDE DEF diagonals, sums
<1>4. parities \in Seq(L) /\ ints \in Seq(L)
  BY <1>1, <1>2, <1>3
<1>5. GeometricParities(m, cfg) = Parities(m, parities) /\ GeometricIntLines(m, cfg) = IntLines(m, ints)
  BY DEF GeometricParities, GeometricIntLines, diagonals, sums
<1> HIDE DEF parities, ints
<1>6. QED BY <1>4, <1>5, ParitiesOf, IntLinesOf DEF L

LEMMA HashesOf ==
  ASSUME NEW m \in Matrices, NEW cfg, NEW a, NEW b, NEW w \in Widths
  PROVE  /\ addLH(m) \in Seq(EquationsOf(m)) /\ addLH16(m) \in Seq(EquationsOf(m))
         /\ addVH(m) \in Seq(EquationsOf(m)) /\ addVH16(m) \in Seq(EquationsOf(m))
         /\ addDH(m, cfg) \in Seq(EquationsOf(m)) /\ addXH(m, cfg) \in Seq(EquationsOf(m))
         /\ AllCrcEquations(w, m, InRange(DiagLines, a, b)) \in Seq(EquationsOf(m))
         /\ AllCrcEquations(w, m, InRange(AntiDiagLines, a, b)) \in Seq(EquationsOf(m))
<1> DEFINE L == LineSeqs
<1>1. /\ RowLines \in Seq(L) /\ ColumnLines \in Seq(L) /\ DiagLines \in Seq(L) /\ AntiDiagLines \in Seq(L)
  BY StraightLines
<1>2. 16 \in Widths /\ 32 \in Widths
  BY DEF Widths
<1> HIDE DEF L
<1>3. Shortest(DiagLines, cfg.dhMaxDiags) \in Seq(L) /\ Shortest(AntiDiagLines, cfg.xhMaxDiags) \in Seq(L)
  BY <1>1, ShortestOf
<1>4. InRange(DiagLines, a, b) \in Seq(L) /\ InRange(AntiDiagLines, a, b) \in Seq(L)
  BY <1>1, InRangeOf
<1>5. \A v \in Widths, ls \in Seq(L) : AllCrcEquations(v, m, ls) \in Seq(EquationsOf(m))
  BY AllCrcEquationsOf DEF L
<1>6. QED BY <1>1, <1>2, <1>3, <1>4, <1>5 DEF addLH, addLH16, addVH, addVH16, addDH, addXH

LEMMA PartitionOf ==
  ASSUME NEW m \in Matrices, NEW cfg, IsConfig(cfg)
  PROVE  /\ addYLTP(m, cfg) \in Seq(EquationsOf(m))
         /\ YltpIntLines(m, cfg) \in Seq(LinesOf(m, Nothing))
<1> DEFINE E == EquationsOf(m)
           N == LinesOf(m, Nothing)
           SE == Seq(E)
           SN == Seq(N)
<1>1. PICK n \in Nat : n = Len(cfg.yltpSeeds) /\ DOMAIN cfg.yltpSeeds = 1..n
  BY DEF IsConfig
<1>2. \A i \in 1..n : cfg.yltpSeeds[i] \in DOMAIN YltpLine
  BY <1>1 DEF IsConfig
<1>3. ASSUME NEW i \in 1..n
      PROVE  /\ addYLTPWithSeed(m, cfg.yltpSeeds[i]) \in SE
             /\ IntLines(m, YltpLines(cfg.yltpSeeds[i])) \in SN
  <2>1. YltpLines(cfg.yltpSeeds[i]) \in Seq(LineSeqs) /\ 32 \in Widths
    BY <1>2, ShuffledLines DEF Widths
  <2>2. /\ Parities(m, YltpLines(cfg.yltpSeeds[i])) \in SE
        /\ AllCrcEquations(32, m, YltpLines(cfg.yltpSeeds[i])) \in SE
        /\ IntLines(m, YltpLines(cfg.yltpSeeds[i])) \in SN
    BY <2>1, ParitiesOf, AllCrcEquationsOf, IntLinesOf
  <2> HIDE DEF E, N
  <2>3. QED BY <2>2 DEF addYLTPWithSeed
<1> HIDE DEF E, N, SE, SN
<1>4. [i \in 1..n |-> addYLTPWithSeed(m, cfg.yltpSeeds[i])] \in Seq(SE)
  BY <1>3
<1>5. [i \in 1..n |-> IntLines(m, YltpLines(cfg.yltpSeeds[i]))] \in Seq(SN)
  BY <1>3
<1>6. QED BY <1>1, <1>4, <1>5, FlattenOf DEF addYLTP, YltpIntLines, E, N, SE, SN

LEMMA WidthOf ==
  ASSUME NEW cfg, IsConfig(cfg), NEW n PROVE RltpWidth(cfg, n) \in Widths
<1>1. cfg.rltpTier3Width \in Widths /\ cfg.rltpTier5Width \in Widths
  BY DEF IsConfig
<1>2. 8 \in Widths /\ 16 \in Widths /\ 32 \in Widths
  BY DEF Widths
<1> DEFINE A == n <= Unit
           B == n > Unit /\ n <= 2 * Unit
           C == n > 2 * Unit /\ n <= 4 * Unit
           D == n > 4 * Unit /\ n <= 8 * Unit
<1>3. RltpWidth(cfg, n) = CASE A -> 8 [] B -> 16 [] C -> cfg.rltpTier3Width [] D -> 32
                            [] OTHER -> cfg.rltpTier5Width
  BY DEF RltpWidth
<1> HIDE DEF A, B, C, D
<1>4. QED BY <1>1, <1>2, <1>3

LEMMA SpiralOf ==
  ASSUME NEW m \in Matrices, NEW cfg, IsConfig(cfg)
  PROVE  /\ addRLTP(m, cfg) \in Seq(EquationsOf(m))
         /\ RltpIntLines(m, cfg) \in Seq(LinesOf(m, Nothing))
<1> DEFINE E == EquationsOf(m)
           N == LinesOf(m, Nothing)
           SE == Seq(E)
           SN == Seq(N)
<1>1. PICK n \in Nat : n = Len(cfg.rltpCentres) /\ DOMAIN cfg.rltpCentres = 1..n
  BY DEF IsConfig
<1>2. cfg.rltpMaxLines \in Nat
  BY DEF IsConfig
<1>3. ASSUME NEW centre
      PROVE  addRLTPAt(m, cfg, centre) \in SE /\ IntLines(m, RltpLines(cfg, centre)) \in SN
  <2> DEFINE ls == RltpLines(cfg, centre)
             row(k) == <<Parity(m, ls[k])>> \o CrcEquations(RltpWidth(cfg, Len(ls[k])), m, ls[k])
  <2>1. ls \in Seq(LineSeqs)
    BY <1>2, SpiralLines
  <2> HIDE DEF ls
  <2>2. PICK l \in Nat : l = Len(ls) /\ DOMAIN ls = 1..l
    BY <2>1
  <2>3. IntLines(m, ls) \in SN
    BY <2>1, IntLinesOf
  <2>4. ASSUME NEW k \in 1..l PROVE row(k) \in SE
    <3>1. ls[k] \in LineSeqs
      BY <2>1, <2>2
    <3>2. RltpWidth(cfg, Len(ls[k])) \in Widths
      BY WidthOf
    <3>3. Parity(m, ls[k]) \in E /\ CrcEquations(RltpWidth(cfg, Len(ls[k])), m, ls[k]) \in Seq(E)
      BY <3>1, <3>2, ParityOf, CrcEquationsOf
    <3> HIDE DEF E
    <3>4. QED BY <3>3
  <2>5. addRLTPAt(m, cfg, centre) = FlattenSeq([k \in 1..l |-> row(k)])
    BY <2>2 DEF addRLTPAt, ls
  <2> HIDE DEF row, SE, E
  <2>6. [k \in 1..l |-> row(k)] \in Seq(SE)
    BY <2>4
  <2>7. FlattenSeq([k \in 1..l |-> row(k)]) \in SE
    BY <2>6, FlattenOf DEF SE
  <2>8. QED BY <2>3, <2>5, <2>7 DEF ls
<1> HIDE DEF E, N, SE, SN
<1>4. [i \in 1..n |-> addRLTPAt(m, cfg, cfg.rltpCentres[i])] \in Seq(SE)
  BY <1>3
<1>5. [i \in 1..n |-> IntLines(m, RltpLines(cfg, cfg.rltpCentres[i]))] \in Seq(SN)
  BY <1>3
<1>6. FlattenSeq([i \in 1..n |-> IntLines(m, RltpLines(cfg, cfg.rltpCentres[i]))]) \in Seq(N)
  BY <1>5, FlattenOf DEF SN
<1>7. RltpIntLines(m, cfg) \in Seq(N)
  BY <1>1, <1>6, GivenOf DEF RltpIntLines
<1>8. QED BY <1>1, <1>4, <1>7, FlattenOf DEF addRLTP, E, N, SE, SN

\* What the constructor makes holds of the matrix it is made from.
LEMMA BuiltOf ==
  ASSUME NEW m \in Matrices, NEW cfg, IsConfig(cfg)
  PROVE  /\ buildSystem(m, cfg) \in Seq(EquationsOf(m))
         /\ buildIntLines(m, cfg) \in Seq(LinesOf(m, Nothing))
<1> DEFINE E == EquationsOf(m)
           N == LinesOf(m, Nothing)
           lh == Given(cfg.useLH, IF cfg.lhBits = 16 THEN addLH16(m) ELSE addLH(m))
           vh == Given(cfg.useVH, IF cfg.vhBits = 16 THEN addVH16(m) ELSE addVH(m))
           dh == Given(cfg.useDH, addDH(m, cfg))
           xh == Given(cfg.useXH, addXH(m, cfg))
<1>1. /\ addLH(m) \in Seq(E) /\ addLH16(m) \in Seq(E) /\ addVH(m) \in Seq(E) /\ addVH16(m) \in Seq(E)
      /\ addDH(m, cfg) \in Seq(E) /\ addXH(m, cfg) \in Seq(E)
  <2>1. 8 \in Widths
    BY DEF Widths
  <2>2. QED BY <2>1, HashesOf
<1>2. GeometricParities(m, cfg) \in Seq(E) /\ GeometricIntLines(m, cfg) \in Seq(N)
  BY GeometricOf
<1>3. /\ addYLTP(m, cfg) \in Seq(E) /\ YltpIntLines(m, cfg) \in Seq(N)
      /\ addRLTP(m, cfg) \in Seq(E) /\ RltpIntLines(m, cfg) \in Seq(N)
  BY PartitionOf, SpiralOf
<1> HIDE DEF E, N
<1>4. lh \in Seq(E) /\ vh \in Seq(E) /\ dh \in Seq(E) /\ xh \in Seq(E)
  BY <1>1, GivenOf
<1>5. buildSystem(m, cfg) = GeometricParities(m, cfg) \o lh \o vh \o dh \o xh
                              \o addYLTP(m, cfg) \o addRLTP(m, cfg)
  BY DEF buildSystem
<1> HIDE DEF lh, vh, dh, xh
<1>6. buildSystem(m, cfg) \in Seq(E)
  BY <1>2, <1>3, <1>4, <1>5
<1>7. buildIntLines(m, cfg) \in Seq(N)
  BY <1>2, <1>3 DEF buildIntLines
<1>8. QED BY <1>6, <1>7 DEF E, N

-------------------------------------------------------------------------------
(* Assigning cells.                                                        *)

\* Some cells with values.
Values(new) == DOMAIN new \subseteq Cells /\ \A x \in DOMAIN new : new[x] \in {0, 1}

Right(m, new) == \A x \in DOMAIN new : new[x] = m[x]

LEMMA WithOf ==
  ASSUME NEW c \in CellStates, NEW new, Values(new)
  PROVE  /\ With(c, new) \in CellStates
         /\ Unset(With(c, new)) = Unset(c) \ DOMAIN new
         /\ \A x \in Cells : With(c, new)[x] = IF x \in DOMAIN new THEN new[x] ELSE c[x]
BY DEF With, Values, CellStates, Unset, Unassigned

LEMMA SubstituteOf ==
  ASSUME NEW rows \in Seq(Equation), NEW known
  PROVE  /\ Substitute(rows, known) \in Seq(Equation)
         /\ Len(Substitute(rows, known)) = Len(rows)
         /\ \A i \in 1..Len(rows) : Substitute(rows, known)[i].cells = rows[i].cells \ DOMAIN known
<1>1. PICK n \in Nat : n = Len(rows) /\ DOMAIN rows = 1..n
  OBVIOUS
<1> DEFINE hit(i) == rows[i].cells \cap DOMAIN known
           row(i) == [cells  |-> rows[i].cells \ hit(i),
                      target |-> (rows[i].target + OnesOf(known, hit(i))) % 2]
           s == [i \in 1..n |-> row(i)]
<1>2. ASSUME NEW i \in 1..n PROVE row(i) \in Equation
  <2>1. rows[i] \in Equation
    BY <1>1
  <2>2. rows[i].cells \in SUBSET Cells /\ rows[i].target \in {0, 1}
    BY <2>1 DEF Equation
  <2>3. hit(i) \in SUBSET Cells /\ rows[i].cells \ hit(i) \in SUBSET Cells
    BY <2>2
  <2>4. PICK k \in Nat : k = OnesOf(known, hit(i))
    BY <2>3, OnesCount
  <2>5. (rows[i].target + k) % 2 \in {0, 1}
    BY <2>2
  <2> HIDE DEF hit
  <2>6. QED BY <2>3, <2>4, <2>5 DEF Equation
<1>3. Substitute(rows, known) = s
  BY <1>1 DEF Substitute
<1>4. \A i \in 1..n : row(i).cells = rows[i].cells \ DOMAIN known
  OBVIOUS
<1> HIDE DEF row
<1>5. s \in Seq(Equation) /\ Len(s) = n /\ \A i \in 1..n : s[i] = row(i)
  <2> DEFINE E == Equation
  <2>1. \A i \in 1..n : row(i) \in E
    BY <1>2
  <2> HIDE DEF E
  <2>2. [i \in 1..n |-> row(i)] \in Seq(E)
    BY <2>1
  <2>3. QED BY <2>2 DEF E
<1> HIDE DEF s
<1>6. QED BY <1>1, <1>3, <1>4, <1>5

LEMMA OnesParts ==
  ASSUME NEW m
  PROVE  \A U \in SUBSET Cells : \A H \in SUBSET U :
           /\ OnesOf(m, U) = OnesOf(m, H) + OnesOf(m, U \ H)
           /\ OnesOf(m, U) \in Nat /\ OnesOf(m, H) \in Nat /\ OnesOf(m, U \ H) \in Nat
<1>1. ASSUME NEW U \in SUBSET Cells, NEW H \in SUBSET U
      PROVE  /\ OnesOf(m, U) = OnesOf(m, H) + OnesOf(m, U \ H)
             /\ OnesOf(m, U) \in Nat /\ OnesOf(m, H) \in Nat /\ OnesOf(m, U \ H) \in Nat
  BY OnesSplit
<1>2. QED BY <1>1

LEMMA SubstituteRight ==
  ASSUME NEW m \in Matrices, NEW rows \in Seq(EquationsOf(m)), NEW known, Right(m, known)
  PROVE  Substitute(rows, known) \in Seq(EquationsOf(m))
<1>1. PICK n \in Nat : n = Len(rows) /\ DOMAIN rows = 1..n
  OBVIOUS
<1> DEFINE hit(i) == rows[i].cells \cap DOMAIN known
           row(i) == [cells  |-> rows[i].cells \ hit(i),
                      target |-> (rows[i].target + OnesOf(known, hit(i))) % 2]
<1>2. ASSUME NEW i \in 1..n PROVE row(i) \in EquationsOf(m)
  <2>1. rows[i] \in EquationsOf(m)
    BY <1>1
  <2>2. rows[i].cells \in SUBSET Cells /\ rows[i].target \in {0, 1} /\ Satisfies(m, rows[i])
    BY <2>1 DEF EquationsOf, Equation
  <2>3. hit(i) \in SUBSET rows[i].cells /\ rows[i].cells \ hit(i) \in SUBSET Cells
    BY <2>2
  <2>4. OnesOf(known, hit(i)) = OnesOf(m, hit(i))
    <3>1. {x \in hit(i) : known[x] = 1} = {x \in hit(i) : m[x] = 1}
      BY DEF Right
    <3>2. QED BY <3>1 DEF OnesOf
  <2> HIDE DEF hit
  <2>5. PICK a \in Nat, b \in Nat :
          /\ a = OnesOf(m, hit(i)) /\ b = OnesOf(m, rows[i].cells \ hit(i))
          /\ OnesOf(m, rows[i].cells) = a + b
    <3>1. /\ OnesOf(m, rows[i].cells) = OnesOf(m, hit(i)) + OnesOf(m, rows[i].cells \ hit(i))
          /\ OnesOf(m, hit(i)) \in Nat /\ OnesOf(m, rows[i].cells \ hit(i)) \in Nat
      <4> DEFINE U == rows[i].cells
                 H == hit(i)
      <4>1. U \in SUBSET Cells /\ H \in SUBSET U
        BY <2>2, <2>3
      <4> HIDE DEF U, H
      <4>2. /\ OnesOf(m, U) = OnesOf(m, H) + OnesOf(m, U \ H)
            /\ OnesOf(m, U) \in Nat /\ OnesOf(m, H) \in Nat /\ OnesOf(m, U \ H) \in Nat
        BY <4>1, OnesParts, Zenon
      <4>3. QED BY <4>2 DEF U, H
    <3>2. QED BY <3>1
  <2>6. rows[i].target = (a + b) % 2
    BY <2>2, <2>5 DEF Satisfies
  <2>7. PICK t \in {0, 1} : t = rows[i].target
    BY <2>2
  <2>8. (t + a) % 2 \in {0, 1} /\ b % 2 = (t + a) % 2
    BY <2>6, <2>7
  <2>9. row(i) \in Equation
    BY <2>3, <2>4, <2>5, <2>7, <2>8 DEF Equation
  <2>10. Satisfies(m, row(i))
    BY <2>4, <2>5, <2>7, <2>8 DEF Satisfies
  <2>11. QED BY <2>9, <2>10 DEF EquationsOf
<1>3. Substitute(rows, known) = [i \in 1..n |-> row(i)]
  BY <1>1 DEF Substitute
<1> DEFINE E == EquationsOf(m)
<1> HIDE DEF row, E
<1>4. [i \in 1..n |-> row(i)] \in Seq(E)
  BY <1>2 DEF E
<1>5. QED BY <1>3, <1>4 DEF E

LEMMA AssignLinesOf ==
  ASSUME NEW ls \in Seq(Line), NEW new
  PROVE  /\ AssignLines(ls, new) \in Seq(Line)
         /\ Len(AssignLines(ls, new)) = Len(ls)
         /\ \A i \in 1..Len(ls) : AssignLines(ls, new)[i] =
              [cells |-> ls[i].cells,
               rho |-> ls[i].rho - OnesOf(new, ls[i].cells \cap DOMAIN new),
               u   |-> ls[i].u - Cardinality(ls[i].cells \cap DOMAIN new)]
<1>1. PICK n \in Nat : n = Len(ls) /\ DOMAIN ls = 1..n
  OBVIOUS
<1> DEFINE hit(i) == ls[i].cells \cap DOMAIN new
           row(i) == [cells |-> ls[i].cells,
                      rho |-> ls[i].rho - OnesOf(new, hit(i)),
                      u   |-> ls[i].u - Cardinality(hit(i))]
           s == [i \in 1..n |-> row(i)]
<1>2. ASSUME NEW i \in 1..n PROVE row(i) \in Line
  <2>1. ls[i] \in Line
    BY <1>1
  <2>2. ls[i].cells \in SUBSET Cells /\ ls[i].rho \in Int /\ ls[i].u \in Int
    BY <2>1 DEF Line
  <2>3. hit(i) \in SUBSET Cells
    BY <2>2
  <2> HIDE DEF hit
  <2>4. OnesOf(new, hit(i)) \in Int /\ Cardinality(hit(i)) \in Int
    BY <2>3, OnesCount
  <2>5. QED BY <2>2, <2>4 DEF Line
<1>3. AssignLines(ls, new) = s
  BY <1>1 DEF AssignLines
<1> HIDE DEF row
<1>4. s \in Seq(Line) /\ Len(s) = n /\ \A i \in 1..n : s[i] = row(i)
  <2> DEFINE E == Line
  <2>1. \A i \in 1..n : row(i) \in E
    BY <1>2
  <2> HIDE DEF E
  <2>2. [i \in 1..n |-> row(i)] \in Seq(E)
    BY <2>1
  <2>3. QED BY <2>2 DEF E
<1> HIDE DEF s
<1>5. QED BY <1>1, <1>3, <1>4 DEF row

LEMMA AssignLinesExact ==
  ASSUME NEW m, NEW c \in CellStates, NEW ls \in Seq(LinesOf(m, c)),
         NEW new, Values(new), DOMAIN new \subseteq Unset(c)
  PROVE  AssignLines(ls, new) \in Seq(LinesOf(m, With(c, new)))
<1> DEFINE d == With(c, new)
           s == AssignLines(ls, new)
           N == LinesOf(m, d)
<1>1. PICK n \in Nat : n = Len(ls) /\ DOMAIN ls = 1..n
  OBVIOUS
<1>2. ls \in Seq(Line)
  <2>1. \A i \in 1..n : ls[i] \in Line
    <3>1. \A i \in 1..n : ls[i] \in LinesOf(m, c)
      BY <1>1
    <3>2. QED BY <3>1 DEF LinesOf
  <2>2. QED BY <1>1, <2>1
<1>3. /\ s \in Seq(Line) /\ Len(s) = n
      /\ \A i \in 1..n : s[i] =
              [cells |-> ls[i].cells,
               rho |-> ls[i].rho - OnesOf(new, ls[i].cells \cap DOMAIN new),
               u   |-> ls[i].u - Cardinality(ls[i].cells \cap DOMAIN new)]
  BY <1>1, <1>2, AssignLinesOf
<1>4. /\ d \in CellStates /\ Unset(d) = Unset(c) \ DOMAIN new
      /\ \A x \in Cells : d[x] = IF x \in DOMAIN new THEN new[x] ELSE c[x]
  BY WithOf
<1> HIDE DEF s, d
<1>5. ASSUME NEW i \in 1..n PROVE s[i] \in N
  <2> DEFINE S == ls[i].cells
             H == S \cap DOMAIN new
             A == {x \in S : c[x] = 1}
             B == {x \in H : new[x] = 1}
             F == S \cap Unset(c)
  <2>1. ls[i] \in LinesOf(m, c)
    BY <1>1
  <2>2. S \in SUBSET Cells /\ ls[i].u = Cardinality(F) /\ ls[i].rho = OnesOf(m, S) - OnesOf(c, S)
    BY <2>1 DEF LinesOf, Line
  <2>3. s[i] \in Line /\ s[i].cells = S /\ s[i].rho = ls[i].rho - OnesOf(new, H)
          /\ s[i].u = ls[i].u - Cardinality(H)
    <3>1. s[i] \in Line
      BY <1>3
    <3>2. s[i] = [cells |-> S, rho |-> ls[i].rho - OnesOf(new, H), u |-> ls[i].u - Cardinality(H)]
      BY <1>3
    <3> HIDE DEF H
    <3>3. QED BY <3>1, <3>2
  <2>4. H \in SUBSET F /\ F \in SUBSET Cells /\ S \cap Unset(d) = F \ H
    BY <1>4, <2>2
  <2>5. /\ Cardinality(F) = Cardinality(H) + Cardinality(F \ H)
        /\ Cardinality(F) \in Nat /\ Cardinality(H) \in Nat /\ Cardinality(F \ H) \in Nat
    <3>1. F = H \cup (F \ H) /\ H \cap (F \ H) = {}
      BY <2>4
    <3>2. H \in SUBSET Cells /\ F \ H \in SUBSET Cells
      BY <2>4
    <3> HIDE DEF H, F
    <3>3. IsFiniteSet(H) /\ IsFiniteSet(F \ H) /\ Cardinality(H) \in Nat /\ Cardinality(F \ H) \in Nat
            /\ Cardinality(F) \in Nat
      BY <2>4, <3>2, FiniteSubset
    <3>4. Cardinality(H \cup (F \ H)) = Cardinality(H) + Cardinality(F \ H) - Cardinality(H \cap (F \ H))
      BY <3>3, FS_Union
    <3>5. Cardinality(H \cap (F \ H)) = 0
      BY <3>1, FS_EmptySet
    <3>6. Cardinality(F) = Cardinality(H \cup (F \ H))
      BY <3>1
    <3>7. QED BY <3>3, <3>4, <3>5, <3>6
  <2>6. {x \in S : d[x] = 1} = A \cup B /\ A \cap B = {}
    BY <1>4, <2>2 DEF Unset, Unassigned, CellStates
  <2>7. OnesOf(d, S) = OnesOf(c, S) + OnesOf(new, H) /\ OnesOf(c, S) \in Nat /\ OnesOf(new, H) \in Nat
    <3>1. A \in SUBSET Cells /\ B \in SUBSET Cells
      BY <2>2
    <3> HIDE DEF A, B
    <3>2. IsFiniteSet(A) /\ IsFiniteSet(B) /\ Cardinality(A) \in Nat /\ Cardinality(B) \in Nat
      BY <3>1, FiniteSubset
    <3>3. Cardinality(A \cup B) = Cardinality(A) + Cardinality(B) - Cardinality(A \cap B)
      BY <3>2, FS_Union
    <3>4. Cardinality(A \cap B) = 0
      BY <2>6, FS_EmptySet
    <3>5. OnesOf(d, S) = Cardinality(A) + Cardinality(B)
      <4>1. OnesOf(d, S) = Cardinality(A \cup B)
        BY <2>6 DEF OnesOf
      <4>2. QED BY <3>2, <3>3, <3>4, <4>1
    <3>6. OnesOf(c, S) = Cardinality(A) /\ OnesOf(new, H) = Cardinality(B)
      BY DEF OnesOf, A, B
    <3>7. QED BY <3>2, <3>5, <3>6
  <2>8. OnesOf(m, S) \in Nat
    BY <2>2, OnesCount
  <2> HIDE DEF S, H, F
  <2>9. s[i].u = Cardinality(F \ H)
    BY <2>2, <2>3, <2>5
  <2>10. s[i].rho = OnesOf(m, S) - OnesOf(d, S)
    BY <2>2, <2>3, <2>7, <2>8
  <2>11. QED BY <2>3, <2>4, <2>9, <2>10 DEF LinesOf
<1> HIDE DEF N
<1>6. s \in Seq(N)
  BY <1>3, <1>5
<1>7. QED BY <1>6 DEF s, N, d

\* The lines of a matrix, where the ones made late overlook the cells of D.
LinesSeen(m, D, c) == LinesOf(m, c) \cup LinesOf(m, Overlooking(c, D))

LEMMA OverlookingOf ==
  ASSUME NEW c \in CellStates, NEW D
  PROVE  /\ Overlooking(c, D) \in CellStates /\ Unset(c) \subseteq Unset(Overlooking(c, D))
         /\ \A x \in Cells : Overlooking(c, D)[x] = IF x \in D THEN Unassigned ELSE c[x]
         /\ D \cap Unset(c) = {} => Unset(Overlooking(c, D)) \subseteq Unset(c) \cup D
BY DEF Overlooking, CellStates, Unset, Unassigned

\* What AssignLines makes of one line.
LEMMA AssignLineExact ==
  ASSUME NEW m, NEW c \in CellStates, NEW l \in LinesOf(m, c),
         NEW new, Values(new), DOMAIN new \subseteq Unset(c)
  PROVE  [cells |-> l.cells,
          rho |-> l.rho - OnesOf(new, l.cells \cap DOMAIN new),
          u   |-> l.u - Cardinality(l.cells \cap DOMAIN new)] \in LinesOf(m, With(c, new))
<1> DEFINE one == <<l>>
           after == AssignLines(one, new)
           N == LinesOf(m, With(c, new))
<1>1. one \in Seq(LinesOf(m, c)) /\ Len(one) = 1 /\ one[1] = l
  OBVIOUS
<1>2. one \in Seq(Line)
  <2>1. l \in Line
    BY DEF LinesOf
  <2>2. QED BY <2>1
<1> HIDE DEF one
<1>3. after \in Seq(N)
  BY <1>1, AssignLinesExact
<1>4. /\ Len(after) = 1
      /\ after[1] = [cells |-> l.cells,
                     rho |-> l.rho - OnesOf(new, l.cells \cap DOMAIN new),
                     u   |-> l.u - Cardinality(l.cells \cap DOMAIN new)]
  BY <1>1, <1>2, AssignLinesOf
<1> HIDE DEF after, N
<1>5. Len(after) = 1
  BY <1>4
<1>6. after[1] \in N
  BY ONLY <1>3, <1>5
<1>7. QED BY <1>4, <1>6 DEF N

LEMMA AssignLinesSeen ==
  ASSUME NEW m, NEW D, NEW c \in CellStates, D \cap Unset(c) = {}, NEW ls \in Seq(LinesSeen(m, D, c)),
         NEW new, Values(new), DOMAIN new \subseteq Unset(c)
  PROVE  AssignLines(ls, new) \in Seq(LinesSeen(m, D, With(c, new)))
<1> DEFINE o == Overlooking(c, D)
           d == With(c, new)
           s == AssignLines(ls, new)
           N == LinesSeen(m, D, d)
           row(i) == [cells |-> ls[i].cells,
                      rho |-> ls[i].rho - OnesOf(new, ls[i].cells \cap DOMAIN new),
                      u   |-> ls[i].u - Cardinality(ls[i].cells \cap DOMAIN new)]
<1>1. o \in CellStates /\ DOMAIN new \subseteq Unset(o)
  BY OverlookingOf
<1>2. With(o, new) = Overlooking(d, D)
  BY DEF With, Overlooking, Unset
<1>3. PICK n \in Nat : n = Len(ls) /\ DOMAIN ls = 1..n
  OBVIOUS
<1>4. \A i \in 1..n : ls[i] \in LinesSeen(m, D, c)
  BY <1>3
<1>5. ls \in Seq(Line)
  <2>1. \A i \in 1..n : ls[i] \in Line
    BY <1>4 DEF LinesSeen, LinesOf
  <2>2. QED BY <1>3, <2>1
<1>6. s \in Seq(Line) /\ Len(s) = n /\ \A i \in 1..n : s[i] = row(i)
  BY <1>3, <1>5, AssignLinesOf
<1> HIDE DEF s, o, d
<1>7. ASSUME NEW i \in 1..n PROVE s[i] \in N
  <2>1. CASE ls[i] \in LinesOf(m, c)
    <3>1. row(i) \in LinesOf(m, d)
      BY <2>1, AssignLineExact DEF d
    <3> HIDE DEF row
    <3>2. QED BY <1>6, <3>1 DEF LinesSeen
  <2>2. CASE ls[i] \in LinesOf(m, o)
    <3>1. row(i) \in LinesOf(m, With(o, new))
      BY <1>1, <2>2, AssignLineExact
    <3> HIDE DEF row
    <3>2. QED BY <1>2, <1>6, <3>1 DEF LinesSeen
  <2>3. QED BY <1>4, <2>1, <2>2 DEF LinesSeen, o
<1> HIDE DEF N, row
<1>8. s \in Seq(N)
  BY <1>6, <1>7
<1>9. QED BY <1>8 DEF s, N, d

-------------------------------------------------------------------------------
(* Elimination.                                                            *)

\* Sets of equations that are closed under what elimination does: the addition
\* of two equations of one free cell.
ClosedUnderXor(T) ==
  /\ T \subseteq Equation
  /\ \A e1, e2 \in T : \A x \in e1.cells \cap e2.cells :
       cellState[x] = Unassigned => Xor(e1, e2) \in T

\* Each pivot is a free cell of its own row and of no other.
Pivoted(w) ==
  /\ Len(w.pivots) <= Len(w.rows)
  /\ \A i \in 1..Len(w.pivots) : cellState[w.pivots[i]] = Unassigned
  /\ \A i \in 1..Len(w.pivots) : \A r \in 1..Len(w.rows) : w.pivots[i] \in w.rows[r].cells <=> r = i

Reduced(T) == {w \in [rows : Seq(T), pivots : Seq(Cells)] : Pivoted(w)}

LEMMA EliminateOf ==
  ASSUME NEW T, ClosedUnderXor(T), NEW rows \in Seq(T), NEW n \in Nat, n = Len(rows),
         NEW p \in 1..n, NEW f \in p..n, NEW col \in rows[f].cells, cellState[col] = Unassigned
  PROVE  /\ Eliminate(rows, p, f, col) \in Seq(T)
         /\ Len(Eliminate(rows, p, f, col)) = n
         /\ \A r \in 1..n : col \in Eliminate(rows, p, f, col)[r].cells <=> r = p
         /\ \A x : (x \notin rows[f].cells) =>
              \A r \in 1..n : x \in Eliminate(rows, p, f, col)[r].cells
                                <=> x \in (IF r = p THEN rows[f] ELSE IF r = f THEN rows[p] ELSE rows[r]).cells
<1> DEFINE pivot == rows[f]
           at(r) == IF r = p THEN rows[f] ELSE IF r = f THEN rows[p] ELSE rows[r]
           row(r) == IF r # p /\ col \in at(r).cells THEN Xor(at(r), pivot) ELSE at(r)
           s == [r \in 1..n |-> row(r)]
<1>1. DOMAIN rows = 1..n /\ \A r \in 1..n : rows[r] \in T
  OBVIOUS
<1>2. f \in 1..n
  OBVIOUS
<1>3. pivot \in T /\ \A r \in 1..n : at(r) \in T
  BY <1>1, <1>2
<1>4. \A e1, e2 \in T : \A x : x \in Xor(e1, e2).cells <=> (x \in e1.cells) # (x \in e2.cells)
  BY SymDiffMember DEF Xor
<1>5. at(p) = pivot /\ col \in pivot.cells
  OBVIOUS
<1> HIDE DEF at
<1>6. \A r \in 1..n : row(r) \in T
  <2>1. ASSUME NEW r \in 1..n PROVE row(r) \in T
    <3>1. CASE r # p /\ col \in at(r).cells
      <4>1. col \in at(r).cells \cap pivot.cells
        BY <1>5, <3>1
      <4>2. Xor(at(r), pivot) \in T
        BY <1>3, <4>1 DEF ClosedUnderXor
      <4>3. QED BY <3>1, <4>2
    <3>2. CASE ~(r # p /\ col \in at(r).cells)
      BY <1>3, <3>2
    <3>3. QED BY <3>1, <3>2
  <2>2. QED BY <2>1
<1>7. Eliminate(rows, p, f, col) = s
  BY <1>1 DEF Eliminate, at
<1>8. \A r \in 1..n : col \in row(r).cells <=> r = p
  BY <1>3, <1>4, <1>5
<1>9. \A x : x \notin pivot.cells => \A r \in 1..n : x \in row(r).cells <=> x \in at(r).cells
  BY <1>3, <1>4, <1>5
<1> HIDE DEF row, pivot
<1>10. s \in Seq(T) /\ Len(s) = n /\ \A r \in 1..n : s[r] = row(r)
  BY <1>6
<1> HIDE DEF s
<1>11. QED BY <1>7, <1>8, <1>9, <1>10 DEF at, pivot

LEMMA PivotColumnOf ==
  ASSUME NEW T, ClosedUnderXor(T), NEW w \in Reduced(T), NEW col \in Cells
  PROVE  PivotColumn(w, col) \in Reduced(T)
<1>1. w.rows \in Seq(T) /\ w.pivots \in Seq(Cells) /\ Pivoted(w)
  BY DEF Reduced
<1>2. PICK n \in Nat, k \in Nat : n = Len(w.rows) /\ k = Len(w.pivots) /\ k <= n
  BY <1>1 DEF Pivoted
<1> DEFINE p == k + 1
           having == {r \in p..n : col \in w.rows[r].cells}
<1>3. CASE cellState[col] # Unassigned \/ having = {}
  BY <1>2, <1>3 DEF PivotColumn
<1>4. CASE cellState[col] = Unassigned /\ having # {}
  <2> DEFINE f == Min(having)
             rows == Eliminate(w.rows, p, f, col)
             pivots == Append(w.pivots, col)
             v == [rows |-> rows, pivots |-> pivots]
  <2>1. f \in having
    <3>1. having \subseteq Nat /\ having # {}
      BY <1>4
    <3> HIDE DEF having
    <3>2. PICK x \in having : \A y \in having : x <= y
      BY <3>1, Least
    <3>3. QED BY <3>2 DEF Min
  <2>2. PivotColumn(w, col) = v
    BY <1>2, <1>4 DEF PivotColumn
  <2>3. p \in 1..n /\ f \in p..n /\ f \in 1..n /\ col \in w.rows[f].cells
    BY <2>1
  <2> HIDE DEF f, having
  <2>4. /\ rows \in Seq(T) /\ Len(rows) = n
        /\ \A r \in 1..n : col \in rows[r].cells <=> r = p
        /\ \A x : (x \notin w.rows[f].cells) =>
             \A r \in 1..n : x \in rows[r].cells
                  <=> x \in (IF r = p THEN w.rows[f] ELSE IF r = f THEN w.rows[p] ELSE w.rows[r]).cells
    <3> DEFINE ro == w.rows
    <3>1. ro \in Seq(T) /\ n = Len(ro) /\ col \in ro[f].cells /\ cellState[col] = Unassigned
      BY <1>1, <1>2, <1>4, <2>3
    <3> HIDE DEF ro
    <3>2. /\ Eliminate(ro, p, f, col) \in Seq(T)
          /\ Len(Eliminate(ro, p, f, col)) = n
          /\ \A r \in 1..n : col \in Eliminate(ro, p, f, col)[r].cells <=> r = p
          /\ \A x : (x \notin ro[f].cells) =>
               \A r \in 1..n : x \in Eliminate(ro, p, f, col)[r].cells
                    <=> x \in (IF r = p THEN ro[f] ELSE IF r = f THEN ro[p] ELSE ro[r]).cells
      BY <2>3, <3>1, EliminateOf
    <3>3. QED BY <3>2 DEF ro
  <2> HIDE DEF rows
  <2>5. pivots \in Seq(Cells) /\ Len(pivots) = p /\ pivots[p] = col /\ \A i \in 1..k : pivots[i] = w.pivots[i]
    BY <1>1, <1>2
  <2> HIDE DEF pivots
  <2>6. ASSUME NEW i \in 1..p PROVE cellState[pivots[i]] = Unassigned
    <3>1. CASE i = p
      BY <1>4, <2>5, <3>1
    <3>2. CASE i # p
      <4>1. i \in 1..k
        BY <3>2
      <4>2. QED BY <1>1, <1>2, <2>5, <4>1 DEF Pivoted
    <3>3. QED BY <3>1, <3>2
  <2>7. ASSUME NEW i \in 1..p, NEW r \in 1..n PROVE pivots[i] \in rows[r].cells <=> r = i
    <3>1. CASE i = p
      BY <2>4, <2>5, <3>1
    <3>2. CASE i # p
      <4>1. i \in 1..k /\ i # f /\ i # p
        BY <2>3, <3>2
      <4>2. \A q \in 1..n : w.pivots[i] \in w.rows[q].cells <=> q = i
        BY <1>1, <1>2, <4>1 DEF Pivoted
      <4>3. w.pivots[i] \notin w.rows[f].cells /\ w.pivots[i] \notin w.rows[p].cells
        BY <2>3, <4>1, <4>2
      <4>4. w.pivots[i] \in rows[r].cells
              <=> w.pivots[i] \in (IF r = p THEN w.rows[f] ELSE IF r = f THEN w.rows[p] ELSE w.rows[r]).cells
        BY <2>4, <4>3
      <4>5. QED BY <2>5, <4>1, <4>2, <4>3, <4>4
    <3>3. QED BY <3>1, <3>2
  <2>8. v.rows = rows /\ v.pivots = pivots /\ v \in [rows : Seq(T), pivots : Seq(Cells)]
    BY <2>4, <2>5
  <2> HIDE DEF v
  <2>9. Pivoted(v)
    <3>1. p <= n
      BY <2>3
    <3>2. QED BY <2>4, <2>5, <2>6, <2>7, <2>8, <3>1 DEF Pivoted
  <2>10. QED BY <2>2, <2>8, <2>9 DEF Reduced
<1>5. QED BY <1>3, <1>4

\* What elimination reads its cells off.
LEMMA GaussOf ==
  ASSUME NEW T, ClosedUnderXor(T), NEW rows \in Seq(T)
  PROVE  \E w \in Reduced(T) : gaussElim(rows) = DeterminedBy(w)
<1>1. PICK n \in Nat : n = kN /\ RowMajor \in Seq(Cells) /\ \A i \in 1..n : RowMajor[i] \in Cells
  <2>1. RowMajor \in Seq(Cells) /\ Len(RowMajor) = kN /\ kN \in Nat
    BY RowMajorRight, Numbers
  <2>2. PICK n \in Nat : n = kN
    BY <2>1
  <2>3. \A i \in 1..n : RowMajor[i] \in Cells
    BY <2>1, <2>2
  <2>4. QED BY <2>1, <2>2, <2>3
<1> DEFINE R == Reduced(T)
           first == [rows |-> rows, pivots |-> <<>>]
           step == [q \in Nat \X R |-> IF q[1] \in 1..n THEN PivotColumn(q[2], RowMajor[q[1]]) ELSE q[2]]
<1>2. first \in R
  <2>1. <<>> \in Seq(Cells) /\ Len(<<>>) = 0
    OBVIOUS
  <2>2. first.rows = rows /\ first.pivots = <<>> /\ first \in [rows : Seq(T), pivots : Seq(Cells)]
    BY <2>1
  <2> HIDE DEF first
  <2>3. Pivoted(first)
    BY <2>1, <2>2 DEF Pivoted
  <2>4. QED BY <2>2, <2>3 DEF Reduced
<1>3. \A w \in R : \A i \in 1..n : PivotColumn(w, RowMajor[i]) \in R
  BY <1>1, PivotColumnOf
<1> HIDE DEF R, first
<1>4. step \in [Nat \X R -> R]
  BY <1>3
<1>5. \E f \in [0..n -> R] : f[0] = first /\ \A i \in 1..n : f[i] = PivotColumn(f[i - 1], RowMajor[i])
  <2> HIDE DEF step
  <2>1. Runs(R, first, step, n) # {}
    BY <1>2, <1>4, IterationUpTo
  <2>2. PICK f \in [0..n -> R] : f[0] = first /\ \A i \in 1..n : f[i] = step[<<i, f[i - 1]>>]
    BY <2>1 DEF Runs
  <2>3. ASSUME NEW i \in 1..n PROVE f[i] = PivotColumn(f[i - 1], RowMajor[i])
    <3>1. i - 1 \in 0..n /\ i \in Nat
      OBVIOUS
    <3>2. <<i, f[i - 1]>> \in Nat \X R
      BY <2>2, <3>1
    <3>3. step[<<i, f[i - 1]>>] = PivotColumn(f[i - 1], RowMajor[i])
      BY <3>2 DEF step
    <3>4. QED BY <2>2, <3>3
  <2>4. QED BY <2>2, <2>3
<1> DEFINE one(w, i) == CHOOSE next \in {PivotColumn(v, RowMajor[i]) : v \in {w}} : TRUE
           IsRun(f) == f = [i \in 0..n |-> IF i = 0 THEN first ELSE one(f[i - 1], i)]
           work == CHOOSE f : IsRun(f)
<1>6. \A w, i : one(w, i) = PivotColumn(w, RowMajor[i])
  OBVIOUS
<1> HIDE DEF one
<1>7. IsRun(work)
  <2>1. PICK f \in [0..n -> R] : f[0] = first /\ \A i \in 1..n : f[i] = PivotColumn(f[i - 1], RowMajor[i])
    BY <1>5
  <2>2. \A i \in 0..n : f[i] = IF i = 0 THEN first ELSE one(f[i - 1], i)
    BY <1>6, <2>1
  <2>3. IsRun(f)
    BY <2>1, <2>2
  <2> HIDE DEF IsRun
  <2>4. QED BY <2>3
<1>8. gaussElim(rows) = DeterminedBy(work[n])
  BY <1>1 DEF gaussElim, first, one
<1>9. /\ work[0] = first
      /\ \A i \in 1..n : work[i] = PivotColumn(work[i - 1], RowMajor[i])
  <2> HIDE DEF work
  <2>1. \A i \in 0..n : work[i] = IF i = 0 THEN first ELSE one(work[i - 1], i)
    BY <1>7
  <2>2. 0 \in 0..n /\ \A i \in 1..n : i \in 0..n /\ i # 0
    OBVIOUS
  <2>3. QED BY <1>6, <2>1, <2>2
<1> HIDE DEF work
<1> DEFINE G == {i \in 0..n : work[i] \in R}
<1>10. 0 \in G
  BY <1>2, <1>9
<1>11. ASSUME NEW h \in 0..(n - 1), h \in G PROVE h + 1 \in G
  <2>1. PICK k \in 1..n : k = h + 1 /\ k - 1 = h
    OBVIOUS
  <2>2. work[k] \in R
    BY <1>3, <1>9, <1>11, <2>1
  <2>3. QED BY <2>1, <2>2
<1> HIDE DEF G
<1>12. n \in G
  <2>1. \A i \in 0..n : i \in G
    BY <1>10, <1>11, InductionUpTo
  <2>2. QED BY <2>1
<1>13. work[n] \in R
  BY <1>12 DEF G
<1>14. QED BY <1>8, <1>13 DEF R

\* Elimination gives free cells values.
LEMMA GaussTyped ==
  ASSUME cellState \in CellStates, NEW rows \in Seq(Equation)
  PROVE  Values(gaussElim(rows)) /\ DOMAIN gaussElim(rows) \subseteq Unset(cellState)
<1>1. ClosedUnderXor(Equation)
  <2>1. ASSUME NEW e1 \in Equation, NEW e2 \in Equation PROVE Xor(e1, e2) \in Equation
    <3>1. /\ e1.cells \in SUBSET Cells /\ e1.target \in {0, 1}
          /\ e2.cells \in SUBSET Cells /\ e2.target \in {0, 1}
      BY DEF Equation
    <3>2. SymDiff(e1.cells, e2.cells) \in SUBSET Cells
      BY <3>1 DEF SymDiff
    <3>3. (e1.target + e2.target) % 2 \in {0, 1}
      BY <3>1
    <3>4. QED BY <3>2, <3>3 DEF Xor, Equation
  <2>2. QED BY <2>1 DEF ClosedUnderXor
<1>2. PICK w \in Reduced(Equation) : gaussElim(rows) = DeterminedBy(w)
  BY <1>1, GaussOf
<1>3. w.rows \in Seq(Equation) /\ w.pivots \in Seq(Cells) /\ Pivoted(w)
  BY DEF Reduced
<1>4. PICK n \in Nat, k \in Nat : n = Len(w.rows) /\ k = Len(w.pivots) /\ k <= n
  BY <1>3 DEF Pivoted
<1> DEFINE free == Cells \ (Assigned \cup ToSet(w.pivots))
           S == {i \in 1..k : w.rows[i].cells \cap free = {}}
           X == {w.pivots[i] : i \in S}
           d == [x \in X |-> w.rows[CHOOSE i \in S : w.pivots[i] = x].target]
<1>5. DeterminedBy(w) = d
  BY <1>4 DEF DeterminedBy
<1>6. ASSUME NEW x \in X PROVE x \in Cells /\ cellState[x] = Unassigned /\ d[x] \in {0, 1}
  <2> DEFINE i == CHOOSE i \in S : w.pivots[i] = x
  <2>1. i \in S /\ w.pivots[i] = x
    BY <1>6
  <2> HIDE DEF i
  <2>2. i \in 1..k /\ i \in 1..n
    BY <1>4, <2>1
  <2>3. w.rows[i] \in Equation
    BY <1>3, <1>4, <2>2
  <2>4. x \in Cells
    BY <1>3, <1>4, <2>1, <2>2
  <2>5. cellState[x] = Unassigned
    BY <1>3, <1>4, <2>1, <2>2 DEF Pivoted
  <2>6. d[x] = w.rows[i].target
    BY <1>6 DEF i
  <2>7. QED BY <2>3, <2>4, <2>5, <2>6 DEF Equation
<1>7. DOMAIN d = X
  OBVIOUS
<1> HIDE DEF d, X
<1>8. Values(d) /\ DOMAIN d \subseteq Unset(cellState)
  BY <1>6, <1>7 DEF Values, Unset
<1>9. QED BY <1>2, <1>5, <1>8

\* Equations that hold of the matrix, whose cells are all known or all free.
CleanOf(m, S) == {eq \in EquationsOf(m) : eq.cells \subseteq S \/ eq.cells \cap S = {}}

\* Over such equations elimination only finds what the matrix has.
LEMMA GaussRight ==
  ASSUME cellState \in CellStates, NEW m \in Matrices, NEW rows \in Seq(CleanOf(m, Assigned))
  PROVE  Right(m, gaussElim(rows))
<1> DEFINE T == CleanOf(m, Assigned)
<1>1. ClosedUnderXor(T)
  <2>1. T \subseteq Equation
    BY DEF CleanOf, EquationsOf
  <2>2. ASSUME NEW e1 \in T, NEW e2 \in T, NEW x \in e1.cells \cap e2.cells, cellState[x] = Unassigned
        PROVE  Xor(e1, e2) \in T
    <3>1. /\ e1.cells \in SUBSET Cells /\ e1.target \in {0, 1} /\ Satisfies(m, e1)
          /\ e2.cells \in SUBSET Cells /\ e2.target \in {0, 1} /\ Satisfies(m, e2)
      BY DEF CleanOf, EquationsOf, Equation
    <3>2. e1.cells \cap Assigned = {} /\ e2.cells \cap Assigned = {}
      BY <2>2 DEF CleanOf, Assigned
    <3>3. /\ SymDiff(e1.cells, e2.cells) \in SUBSET Cells
          /\ OnesOf(m, SymDiff(e1.cells, e2.cells)) % 2 = (OnesOf(m, e1.cells) + OnesOf(m, e2.cells)) % 2
      BY <3>1, OnesOfSum
    <3>4. SymDiff(e1.cells, e2.cells) \cap Assigned = {}
      BY <3>2 DEF SymDiff
    <3>5. PICK a \in Nat, b \in Nat : a = OnesOf(m, e1.cells) /\ b = OnesOf(m, e2.cells)
      BY <3>1, OnesCount
    <3>6. e1.target = a % 2 /\ e2.target = b % 2
      BY <3>1, <3>5 DEF Satisfies
    <3>7. (a + b) % 2 = ((a % 2) + (b % 2)) % 2 /\ (a + b) % 2 \in {0, 1}
      OBVIOUS
    <3> DEFINE e == Xor(e1, e2)
    <3>8. e.cells = SymDiff(e1.cells, e2.cells) /\ e.target = (a + b) % 2 /\ e \in Equation
      BY <3>3, <3>6, <3>7 DEF Xor, Equation
    <3> HIDE DEF e
    <3>9. Satisfies(m, e)
      BY <3>3, <3>5, <3>8 DEF Satisfies
    <3>10. QED BY <3>4, <3>8, <3>9 DEF CleanOf, EquationsOf, e
  <2> HIDE DEF T
  <2>3. QED BY <2>1, <2>2 DEF ClosedUnderXor
<1> HIDE DEF T
<1>2. PICK w \in Reduced(T) : gaussElim(rows) = DeterminedBy(w)
  BY <1>1, GaussOf DEF T
<1>3. w.rows \in Seq(T) /\ w.pivots \in Seq(Cells) /\ Pivoted(w)
  BY DEF Reduced
<1>4. PICK n \in Nat, k \in Nat : n = Len(w.rows) /\ k = Len(w.pivots) /\ k <= n
  BY <1>3 DEF Pivoted
<1> DEFINE free == Cells \ (Assigned \cup ToSet(w.pivots))
           S == {i \in 1..k : w.rows[i].cells \cap free = {}}
           X == {w.pivots[i] : i \in S}
           d == [x \in X |-> w.rows[CHOOSE i \in S : w.pivots[i] = x].target]
<1>5. DeterminedBy(w) = d
  BY <1>4 DEF DeterminedBy
<1>6. ASSUME NEW x \in X PROVE d[x] = m[x]
  <2> DEFINE i == CHOOSE i \in S : w.pivots[i] = x
  <2>1. i \in S /\ w.pivots[i] = x
    BY <1>6
  <2>2. d[x] = w.rows[i].target
    BY <1>6
  <2> HIDE DEF i, d
  <2>3. i \in 1..k /\ i \in 1..n
    BY <1>4, <2>1
  <2> DEFINE e == w.rows[i]
  <2>4. e \in T /\ e.cells \cap free = {}
    BY <1>3, <1>4, <2>1, <2>3
  <2>5. x \in Cells /\ cellState[x] = Unassigned
    BY <1>3, <1>4, <2>1, <2>3 DEF Pivoted
  <2>6. x \in e.cells /\ \A j \in 1..k : w.pivots[j] \in e.cells => j = i
    BY <1>3, <1>4, <2>1, <2>3 DEF Pivoted
  <2>7. e.cells \in SUBSET Cells /\ e.target \in {0, 1} /\ Satisfies(m, e)
          /\ (e.cells \subseteq Assigned \/ e.cells \cap Assigned = {})
    BY <2>4 DEF T, CleanOf, EquationsOf, Equation
  <2>8. e.cells \cap Assigned = {}
    BY <2>5, <2>6, <2>7 DEF Assigned
  <2>9. ASSUME NEW y \in e.cells PROVE y = x
    <3>1. y \in Cells /\ y \notin Assigned /\ y \notin free
      BY <2>4, <2>7, <2>8
    <3>2. y \in ToSet(w.pivots)
      BY <3>1
    <3>3. PICK j \in 1..k : w.pivots[j] = y
      BY <1>3, <1>4, <3>2, ToSetOf
    <3>4. QED BY <2>1, <2>6, <2>9, <3>3
  <2>10. e.cells = {x}
    BY <2>6, <2>9
  <2>11. m[x] \in {0, 1}
    BY <2>5 DEF Matrices
  <2>12. OnesOf(m, {x}) = m[x]
    <3>1. CASE m[x] = 1
      <4>1. {y \in {x} : m[y] = 1} = {x}
        BY <3>1
      <4>2. QED BY <3>1, <4>1, FS_Singleton DEF OnesOf
    <3>2. CASE m[x] = 0
      <4>1. {y \in {x} : m[y] = 1} = {}
        BY <3>2
      <4>2. QED BY <3>2, <4>1, FS_EmptySet DEF OnesOf
    <3>3. QED BY <2>11, <3>1, <3>2
  <2>13. m[x] % 2 = e.target
    BY <2>7, <2>10, <2>12 DEF Satisfies
  <2>14. QED BY <2>2, <2>11, <2>13
<1>7. DOMAIN d = X
  OBVIOUS
<1> HIDE DEF d, X
<1>8. QED BY <1>2, <1>5, <1>6, <1>7 DEF Right

-------------------------------------------------------------------------------
(* Bounds.                                                                 *)

RightOf(m, c) == \A x \in Cells : c[x] # Unassigned => c[x] = m[x]

LEMMA OnesAll ==
  ASSUME NEW m \in Matrices, NEW F \in SUBSET Cells
  PROVE  /\ OnesOf(m, F) = 0 => \A x \in F : m[x] = 0
         /\ OnesOf(m, F) = Cardinality(F) => \A x \in F : m[x] = 1
         /\ \A x \in F : OnesOf(m, F) - m[x] \in 0..(Cardinality(F) - 1)
<1> DEFINE A == {x \in F : m[x] = 1}
           B == F \ A
<1>1. \A x \in F : m[x] \in {0, 1}
  BY DEF Matrices
<1>2. A \in SUBSET F /\ F = A \cup B /\ A \cap B = {}
  OBVIOUS
<1>3. OnesOf(m, F) = Cardinality(A)
  BY DEF OnesOf
<1>4. \A x \in F : (x \in A => m[x] = 1) /\ (x \in B => m[x] = 0)
  BY <1>1
<1> HIDE DEF A, B
<1>5. /\ IsFiniteSet(A) /\ IsFiniteSet(B) /\ IsFiniteSet(F)
      /\ Cardinality(A) \in Nat /\ Cardinality(B) \in Nat /\ Cardinality(F) \in Nat
  <2>1. A \in SUBSET Cells /\ B \in SUBSET Cells
    BY <1>2
  <2>2. QED BY <2>1, FiniteSubset
<1>6. Cardinality(F) = Cardinality(A) + Cardinality(B)
  <2>1. Cardinality(A \cup B) = Cardinality(A) + Cardinality(B) - Cardinality(A \cap B)
    BY <1>5, FS_Union
  <2>2. Cardinality(A \cap B) = 0
    BY <1>2, FS_EmptySet
  <2>3. Cardinality(F) = Cardinality(A \cup B)
    BY <1>2
  <2>4. QED BY <1>5, <2>1, <2>2, <2>3
<1>7. (Cardinality(A) = 0 <=> A = {}) /\ (Cardinality(B) = 0 <=> B = {})
  BY <1>5, FS_EmptySet
<1>8. ASSUME NEW x \in F PROVE OnesOf(m, F) - m[x] \in 0..(Cardinality(F) - 1)
  <2>1. CASE x \in A
    <3>1. Cardinality(A) >= 1 /\ m[x] = 1
      BY <1>4, <1>5, <1>7, <2>1
    <3>2. QED BY <1>3, <1>5, <1>6, <3>1
  <2>2. CASE x \in B
    <3>1. Cardinality(B) >= 1 /\ m[x] = 0
      BY <1>4, <1>5, <1>7, <2>2
    <3>2. QED BY <1>3, <1>5, <1>6, <3>1
  <2>3. QED BY <1>2, <2>1, <2>2
<1>9. ASSUME OnesOf(m, F) = 0 PROVE \A x \in F : m[x] = 0
  <2>1. A = {}
    BY <1>3, <1>7, <1>9
  <2>2. QED BY <1>2, <1>4, <2>1
<1>10. ASSUME OnesOf(m, F) = Cardinality(F) PROVE \A x \in F : m[x] = 1
  <2>1. B = {}
    BY <1>3, <1>5, <1>6, <1>7, <1>10
  <2>2. QED BY <1>2, <1>4, <2>1
<1>11. QED BY <1>8, <1>9, <1>10

\* The ones of a set are those of a part of it and those of the rest.
PartsAddUp(m, U, H) ==
  /\ OnesOf(m, U) = OnesOf(m, H) + OnesOf(m, U \ H)
  /\ OnesOf(m, U) \in Nat /\ OnesOf(m, H) \in Nat /\ OnesOf(m, U \ H) \in Nat

LEMMA PartsAdded == \A m : \A U \in SUBSET Cells : \A H \in SUBSET U : PartsAddUp(m, U, H)
BY OnesParts DEF PartsAddUp

\* Over right cells, what a line has left is what the matrix has there.
LEMMA RightLine ==
  ASSUME NEW m \in Matrices, NEW c \in CellStates, RightOf(m, c), NEW line \in LinesOf(m, c)
  PROVE  /\ line.cells \cap Unset(c) \in SUBSET Cells
         /\ line.u = Cardinality(line.cells \cap Unset(c)) /\ line.u \in Nat
         /\ line.rho = OnesOf(m, line.cells \cap Unset(c)) /\ line.rho \in 0..line.u
<1> DEFINE S == line.cells
           F == S \cap Unset(c)
<1>1. S \in SUBSET Cells /\ line.u = Cardinality(F) /\ line.rho = OnesOf(m, S) - OnesOf(c, S)
  BY DEF LinesOf, Line
<1>2. F \in SUBSET S /\ F \in SUBSET Cells
  BY <1>1
<1>3. OnesOf(c, S \ F) = OnesOf(m, S \ F)
  <2>1. \A x \in S \ F : c[x] = m[x]
    BY <1>1 DEF RightOf, Unset
  <2>2. {x \in S \ F : c[x] = 1} = {x \in S \ F : m[x] = 1}
    BY <2>1
  <2>3. QED BY <2>2 DEF OnesOf
<1>4. OnesOf(c, F) = 0
  <2>1. {x \in F : c[x] = 1} = {}
    BY DEF Unset, Unassigned
  <2>2. QED BY <2>1, FS_EmptySet DEF OnesOf
<1> HIDE DEF S, F
<1>9. S \in SUBSET Cells /\ F \in SUBSET S
  BY <1>1, <1>2
<1>5. /\ OnesOf(m, S) = OnesOf(m, F) + OnesOf(m, S \ F)
      /\ OnesOf(m, F) \in Nat /\ OnesOf(m, S \ F) \in Nat
  <2>1. PartsAddUp(m, S, F)
    BY ONLY <1>9, PartsAdded, Zenon
  <2>2. QED BY ONLY <2>1 DEF PartsAddUp
<1>6. OnesOf(c, S) = OnesOf(c, F) + OnesOf(c, S \ F) /\ OnesOf(c, S \ F) \in Nat
  <2>1. PartsAddUp(c, S, F)
    BY ONLY <1>9, PartsAdded, Zenon
  <2>2. QED BY ONLY <2>1 DEF PartsAddUp
<1>7. OnesOf(m, F) <= Cardinality(F) /\ Cardinality(F) \in Nat
  BY <1>2, OnesCount
<1>8. F \in SUBSET Cells /\ line.u = Cardinality(F) /\ line.u \in Nat /\ line.rho = OnesOf(m, F) /\ line.rho \in 0..line.u
  BY <1>1, <1>2, <1>3, <1>4, <1>5, <1>6, <1>7
<1>10. QED BY <1>8 DEF F, S

\* Over right cells, what a line has left tells the matrix, overlooked cells or not.
LEMMA RightSeen ==
  ASSUME NEW m \in Matrices, NEW D, NEW c \in CellStates, RightOf(m, c), NEW line \in LinesSeen(m, D, c)
  PROVE  /\ line.u \in Nat /\ line.rho \in 0..line.u
         /\ line.rho = 0 => \A x \in line.cells \cap Unset(c) : m[x] = 0
         /\ line.rho = line.u => \A x \in line.cells \cap Unset(c) : m[x] = 1
<1> DEFINE o == Overlooking(c, D)
<1>1. o \in CellStates /\ Unset(c) \subseteq Unset(o) /\ RightOf(m, o)
  BY OverlookingOf DEF RightOf
<1> HIDE DEF o
<1>2. PICK b \in CellStates : Unset(c) \subseteq Unset(b) /\ RightOf(m, b) /\ line \in LinesOf(m, b)
  BY <1>1 DEF LinesSeen, o
<1> DEFINE F == line.cells \cap Unset(b)
<1>3. F \in SUBSET Cells /\ line.u = Cardinality(F) /\ line.u \in Nat
      /\ line.rho = OnesOf(m, F) /\ line.rho \in 0..line.u
  BY <1>2, RightLine
<1>4. line.cells \cap Unset(c) \subseteq F
  BY <1>2
<1> HIDE DEF F
<1>5. (line.rho = 0 => \A x \in F : m[x] = 0) /\ (line.rho = line.u => \A x \in F : m[x] = 1)
  BY <1>3, OnesAll
<1>6. QED BY <1>3, <1>4, <1>5

\* What propagateIB works on: any position, one with exact lines, a right one.
Position == [cells : CellStates, lines : Seq(Line), ok : BOOLEAN]

Extends(c, d) == \A x \in Cells : d[x] # Unassigned => c[x] = d[x]

ExactAt(m, s) ==
  s.lines \in Seq(LinesSeen(m, Overlooked, s.cells)) /\ Overlooked \cap Unset(s.cells) = {}
SoundAt(m, s) == s.ok /\ ExactAt(m, s) /\ RightOf(m, s.cells)

LEMMA LinesTyped ==
  ASSUME NEW m, NEW c, NEW ls \in Seq(LinesOf(m, c)) PROVE ls \in Seq(Line)
<1>1. PICK n \in Nat : n = Len(ls)
  OBVIOUS
<1>2. \A i \in 1..n : ls[i] \in LinesOf(m, c)
  BY <1>1
<1>3. \A i \in 1..n : ls[i] \in Line
  BY <1>2 DEF LinesOf
<1>4. QED BY <1>1, <1>3

LEMMA AssignInOf ==
  ASSUME NEW s \in Position, NEW new, Values(new), DOMAIN new \subseteq Unset(s.cells)
  PROVE  /\ AssignIn(s, new) \in Position /\ AssignIn(s, new).ok = s.ok
         /\ AssignIn(s, new).cells = With(s.cells, new)
         /\ Len(AssignIn(s, new).lines) = Len(s.lines)
         /\ Extends(AssignIn(s, new).cells, s.cells)
         /\ \A m : ExactAt(m, s) => ExactAt(m, AssignIn(s, new))
         /\ \A m : SoundAt(m, s) /\ Right(m, new) => SoundAt(m, AssignIn(s, new))
<1> DEFINE t == AssignIn(s, new)
<1>1. s.cells \in CellStates /\ s.lines \in Seq(Line) /\ s.ok \in BOOLEAN
  BY DEF Position
<1>2. t.cells = With(s.cells, new) /\ t.lines = AssignLines(s.lines, new) /\ t.ok = s.ok
  BY DEF AssignIn
<1>3. With(s.cells, new) \in CellStates
      /\ \A x \in Cells : With(s.cells, new)[x] = IF x \in DOMAIN new THEN new[x] ELSE s.cells[x]
  BY <1>1, WithOf
<1>4. AssignLines(s.lines, new) \in Seq(Line) /\ Len(AssignLines(s.lines, new)) = Len(s.lines)
  BY <1>1, AssignLinesOf
<1>5. t \in Position
  BY <1>1, <1>3, <1>4 DEF AssignIn, Position
<1> HIDE DEF t
<1>6. Extends(t.cells, s.cells)
  BY <1>2, <1>3 DEF Extends, Unset
<1>7. ASSUME NEW m, ExactAt(m, s) PROVE ExactAt(m, t)
  <2>1. s.lines \in Seq(LinesSeen(m, Overlooked, s.cells)) /\ Overlooked \cap Unset(s.cells) = {}
    BY <1>7 DEF ExactAt
  <2>2. AssignLines(s.lines, new) \in Seq(LinesSeen(m, Overlooked, With(s.cells, new)))
    BY <1>1, <2>1, AssignLinesSeen
  <2>3. Overlooked \cap Unset(t.cells) = {}
    BY <1>1, <1>2, <2>1, WithOf
  <2>4. QED BY <1>2, <2>2, <2>3 DEF ExactAt
<1>8. ASSUME NEW m, SoundAt(m, s), Right(m, new) PROVE SoundAt(m, t)
  <2>1. s.ok /\ ExactAt(m, s) /\ RightOf(m, s.cells)
    BY <1>8 DEF SoundAt
  <2>2. RightOf(m, t.cells)
    BY <1>2, <1>3, <1>8, <2>1 DEF RightOf, Right
  <2>3. QED BY <1>2, <1>7, <2>1, <2>2 DEF SoundAt
<1>9. QED BY <1>2, <1>4, <1>5, <1>6, <1>7, <1>8 DEF t

LEMMA ForceLineOf ==
  ASSUME NEW s \in Position, NEW i \in 1..Len(s.lines)
  PROVE  /\ ForceLine(s, i) \in Position
         /\ Len(ForceLine(s, i).lines) = Len(s.lines)
         /\ Extends(ForceLine(s, i).cells, s.cells)
         /\ \A m : ExactAt(m, s) => ExactAt(m, ForceLine(s, i))
         /\ \A m \in Matrices : SoundAt(m, s) => SoundAt(m, ForceLine(s, i))
<1> DEFINE l == s.lines[i]
           free == {x \in l.cells : s.cells[x] = Unassigned}
           new == [x \in free |-> IF l.rho = 0 THEN 0 ELSE 1]
           t == ForceLine(s, i)
           A == s.ok /\ Violated(l)
           B == s.ok /\ Forces(l)
           bad == [s EXCEPT !.ok = FALSE]
<1>1. s.cells \in CellStates /\ s.lines \in Seq(Line) /\ s.ok \in BOOLEAN
  BY DEF Position
<1>2. l \in Line
  BY <1>1
<1>3. l.cells \in SUBSET Cells
  BY <1>2 DEF Line
<1>4. t = CASE A -> bad [] B -> AssignIn(s, new) [] OTHER -> s
  BY DEF ForceLine
<1>5. A => ~B
  BY DEF Forces
<1>6. ASSUME NEW m \in Matrices, SoundAt(m, s)
      PROVE  ~A /\ (B => Right(m, new))
  <2>1. s.ok /\ s.lines \in Seq(LinesSeen(m, Overlooked, s.cells)) /\ RightOf(m, s.cells)
    BY <1>6 DEF SoundAt, ExactAt
  <2> DEFINE c == s.cells
  <2>2. l \in LinesSeen(m, Overlooked, c) /\ c \in CellStates /\ RightOf(m, c)
    BY <1>1, <2>1
  <2>3. l.cells \cap Unset(c) = free
    BY <1>3 DEF Unset
  <2> HIDE DEF c, l
  <2>4. /\ l.u \in Nat /\ l.rho \in 0..l.u
        /\ l.rho = 0 => \A x \in l.cells \cap Unset(c) : m[x] = 0
        /\ l.rho = l.u => \A x \in l.cells \cap Unset(c) : m[x] = 1
    BY <2>2, RightSeen
  <2>5. ~A
    BY <2>4 DEF Violated
  <2>6. ASSUME B PROVE Right(m, new)
    <3>1. l.rho = 0 \/ l.rho = l.u
      BY <2>6 DEF Forces
    <3>2. QED BY <2>3, <2>4, <3>1 DEF Right
  <2>7. QED BY <2>5, <2>6
<1>7. CASE A
  <2>1. t = bad
    <3> HIDE DEF A, B, bad, t
    <3>1. QED BY <1>4, <1>5, <1>7
  <2>2. t \in Position /\ t.cells = s.cells /\ t.lines = s.lines
    BY <2>1 DEF Position
  <2> HIDE DEF t, A, B
  <2>3. QED BY <1>6, <1>7, <2>2 DEF Extends, ExactAt, t
<1>8. CASE B
  <2>1. t = AssignIn(s, new)
    BY <1>4, <1>5, <1>8
  <2>2. Values(new) /\ DOMAIN new \subseteq Unset(s.cells)
    BY <1>3 DEF Values, Unset
  <2> HIDE DEF t, A, B, new
  <2>3. /\ t \in Position /\ Len(t.lines) = Len(s.lines) /\ Extends(t.cells, s.cells)
        /\ \A m : ExactAt(m, s) => ExactAt(m, t)
        /\ \A m : SoundAt(m, s) /\ Right(m, new) => SoundAt(m, t)
    BY <2>1, <2>2, AssignInOf
  <2>4. QED BY <1>6, <1>8, <2>3 DEF t
<1>9. CASE ~A /\ ~B
  <2>1. t = s
    BY <1>4, <1>9
  <2> HIDE DEF t, A, B
  <2>2. QED BY <2>1 DEF Extends, t
<1> HIDE DEF A, B
<1>10. QED BY <1>7, <1>8, <1>9

\* What bound propagation may make of a position.
Reach(s) ==
  {t \in Position :
     /\ Len(t.lines) = Len(s.lines)
     /\ Extends(t.cells, s.cells)
     /\ \A m : ExactAt(m, s) => ExactAt(m, t)
     /\ \A m \in Matrices : SoundAt(m, s) => SoundAt(m, t)}

LEMMA ReachSelf == ASSUME NEW s \in Position PROVE s \in Reach(s)
BY DEF Reach, Extends

LEMMA ReachOn ==
  ASSUME NEW s \in Position, NEW t \in Reach(s), NEW u \in Reach(t) PROVE u \in Reach(s)
<1>1. t \in Position /\ u \in Position
  BY DEF Reach
<1>2. Extends(t.cells, s.cells) /\ Extends(u.cells, t.cells)
  BY DEF Reach
<1>3. Extends(u.cells, s.cells)
  <2>1. ASSUME NEW x \in Cells, s.cells[x] # Unassigned PROVE u.cells[x] = s.cells[x]
    <3>1. t.cells[x] = s.cells[x]
      BY <1>2, <2>1 DEF Extends
    <3>2. u.cells[x] = t.cells[x]
      BY <1>2, <2>1, <3>1 DEF Extends
    <3>3. QED BY <3>1, <3>2
  <2>2. QED BY <2>1 DEF Extends
<1>4. QED BY <1>1, <1>3 DEF Reach

LEMMA ForceLineReach ==
  ASSUME NEW s \in Position, NEW i \in 1..Len(s.lines) PROVE ForceLine(s, i) \in Reach(s)
BY ForceLineOf DEF Reach

LEMMA ForcePassOf == ASSUME NEW s \in Position PROVE ForcePass(s) \in Reach(s)
<1>1. PICK n \in Nat : n = Len(s.lines)
  BY DEF Position
<1> DEFINE R == Reach(s)
           step == [q \in Nat \X R |-> IF q[1] \in 1..n THEN ForceLine(q[2], q[1]) ELSE q[2]]
<1>2. s \in R
  BY ReachSelf
<1>3. ASSUME NEW t \in R, NEW i \in 1..n PROVE ForceLine(t, i) \in R
  <2>1. t \in Position /\ i \in 1..Len(t.lines)
    BY <1>1 DEF Reach
  <2>2. ForceLine(t, i) \in Reach(t)
    BY <2>1, ForceLineReach
  <2>3. QED BY <2>2, ReachOn
<1> HIDE DEF R
<1>4. step \in [Nat \X R -> R]
  BY <1>3
<1>5. \E f \in [0..n -> R] : f[0] = s /\ \A i \in 1..n : f[i] = ForceLine(f[i - 1], i)
  <2> HIDE DEF step
  <2>1. Runs(R, s, step, n) # {}
    BY <1>2, <1>4, IterationUpTo
  <2>2. PICK f \in [0..n -> R] : f[0] = s /\ \A i \in 1..n : f[i] = step[<<i, f[i - 1]>>]
    BY <2>1 DEF Runs
  <2>3. ASSUME NEW i \in 1..n PROVE f[i] = ForceLine(f[i - 1], i)
    <3>1. i - 1 \in 0..n /\ i \in Nat
      OBVIOUS
    <3>2. <<i, f[i - 1]>> \in Nat \X R
      BY <2>2, <3>1
    <3>3. step[<<i, f[i - 1]>>] = ForceLine(f[i - 1], i)
      BY <3>2 DEF step
    <3>4. QED BY <2>2, <3>3
  <2>4. QED BY <2>2, <2>3
<1> DEFINE IsRun(f) == f = [i \in 0..n |-> IF i = 0 THEN s ELSE ForceLine(f[i - 1], i)]
           after == CHOOSE f : IsRun(f)
<1>6. IsRun(after)
  <2>1. PICK f \in [0..n -> R] : f[0] = s /\ \A i \in 1..n : f[i] = ForceLine(f[i - 1], i)
    BY <1>5
  <2>2. \A i \in 0..n : f[i] = IF i = 0 THEN s ELSE ForceLine(f[i - 1], i)
    BY <2>1
  <2>3. IsRun(f)
    BY <2>1, <2>2
  <2> HIDE DEF IsRun
  <2>4. QED BY <2>3
<1>7. ForcePass(s) = after[n]
  BY <1>1 DEF ForcePass
<1>8. after[0] = s /\ \A i \in 1..n : after[i] = ForceLine(after[i - 1], i)
  <2> HIDE DEF after
  <2>1. \A i \in 0..n : after[i] = IF i = 0 THEN s ELSE ForceLine(after[i - 1], i)
    BY <1>6
  <2>2. 0 \in 0..n /\ \A i \in 1..n : i \in 0..n /\ i # 0
    OBVIOUS
  <2>3. QED BY <2>1, <2>2
<1> HIDE DEF after
<1> DEFINE G == {i \in 0..n : after[i] \in R}
<1>9. 0 \in G
  BY <1>2, <1>8
<1>10. ASSUME NEW h \in 0..(n - 1), h \in G PROVE h + 1 \in G
  <2>1. PICK k \in 1..n : k = h + 1 /\ k - 1 = h
    OBVIOUS
  <2>2. after[k] \in R
    BY <1>3, <1>8, <1>10, <2>1
  <2>3. QED BY <2>1, <2>2
<1> HIDE DEF G
<1>11. n \in G
  <2>1. \A i \in 0..n : i \in G
    BY <1>9, <1>10, InductionUpTo
  <2>2. QED BY <2>1
<1>12. QED BY <1>7, <1>11 DEF G, R

LEMMA OpenOf ==
  ASSUME NEW c
  PROVE  Open(c) \in Seq(Cells) /\ ToSet(Open(c)) = Unset(c) /\ Distinct(Open(c))
<1> DEFINE S == {x \in Cells : c[x] = Unassigned}
<1>1. Open(c) = Among(RowMajor, S) /\ Unset(c) = S /\ Cells \cap S = S
  BY DEF Open, Unset
<1> HIDE DEF S
<1>2. RowMajor \in Seq(Cells) /\ ToSet(RowMajor) = Cells /\ Distinct(RowMajor)
  BY RowMajorRight
<1>3. /\ Among(RowMajor, S) \in Seq(Cells)
      /\ ToSet(Among(RowMajor, S)) = ToSet(RowMajor) \cap S
      /\ Distinct(RowMajor) => Distinct(Among(RowMajor, S))
  BY <1>2, AmongOf
<1>4. QED BY <1>1, <1>2, <1>3

LEMMA PropagateOf == ASSUME NEW s \in Position PROVE propagateIB(s) \in Reach(s)
<1>1. PICK n \in Nat : n = Len(Open(s.cells)) + 1
  BY OpenOf
<1> DEFINE R == Reach(s)
           step == [q \in Nat \X R |-> ForcePass(q[2])]
           one(t) == CHOOSE u \in {ForcePass(a) : a \in {t}} : TRUE
<1>2. s \in R
  BY ReachSelf
<1>3. ASSUME NEW t \in R PROVE ForcePass(t) \in R
  <2>1. t \in Position
    BY DEF Reach
  <2>2. ForcePass(t) \in Reach(t)
    BY <2>1, ForcePassOf
  <2>3. QED BY <2>2, ReachOn
<1>4. \A t : one(t) = ForcePass(t)
  OBVIOUS
<1> HIDE DEF R, one
<1>5. step \in [Nat \X R -> R]
  BY <1>3
<1>6. \E f \in [0..n -> R] : f[0] = s /\ \A i \in 1..n : f[i] = ForcePass(f[i - 1])
  <2> HIDE DEF step
  <2>1. Runs(R, s, step, n) # {}
    BY <1>2, <1>5, IterationUpTo
  <2>2. PICK f \in [0..n -> R] : f[0] = s /\ \A i \in 1..n : f[i] = step[<<i, f[i - 1]>>]
    BY <2>1 DEF Runs
  <2>3. ASSUME NEW i \in 1..n PROVE f[i] = ForcePass(f[i - 1])
    <3>1. i - 1 \in 0..n /\ i \in Nat
      OBVIOUS
    <3>2. <<i, f[i - 1]>> \in Nat \X R
      BY <2>2, <3>1
    <3>3. step[<<i, f[i - 1]>>] = ForcePass(f[i - 1])
      BY <3>2 DEF step
    <3>4. QED BY <2>2, <3>3
  <2>4. QED BY <2>2, <2>3
<1> DEFINE IsRun(f) == f = [k \in 0..n |-> IF k = 0 THEN s ELSE one(f[k - 1])]
           pass == CHOOSE f : IsRun(f)
<1>7. IsRun(pass)
  <2>1. PICK f \in [0..n -> R] : f[0] = s /\ \A i \in 1..n : f[i] = ForcePass(f[i - 1])
    BY <1>6
  <2>2. \A i \in 0..n : f[i] = IF i = 0 THEN s ELSE one(f[i - 1])
    BY <1>4, <2>1
  <2>3. IsRun(f)
    BY <2>1, <2>2
  <2> HIDE DEF IsRun
  <2>4. QED BY <2>3
<1>8. propagateIB(s) = [cells |-> pass[n].cells, lines |-> pass[n].lines,
                        ok |-> pass[n].ok /\ \A i \in DOMAIN pass[n].lines :
                                               pass[n].lines[i].rho \in 0..pass[n].lines[i].u]
  BY <1>1 DEF propagateIB, one
<1>9. pass[0] = s /\ \A i \in 1..n : pass[i] = ForcePass(pass[i - 1])
  <2> HIDE DEF pass
  <2>1. \A i \in 0..n : pass[i] = IF i = 0 THEN s ELSE one(pass[i - 1])
    BY <1>7
  <2>2. 0 \in 0..n /\ \A i \in 1..n : i \in 0..n /\ i # 0
    OBVIOUS
  <2>3. QED BY <1>4, <2>1, <2>2
<1> HIDE DEF pass
<1> DEFINE G == {i \in 0..n : pass[i] \in R}
<1>10. 0 \in G
  BY <1>2, <1>9
<1>11. ASSUME NEW h \in 0..(n - 1), h \in G PROVE h + 1 \in G
  <2>1. PICK k \in 1..n : k = h + 1 /\ k - 1 = h
    OBVIOUS
  <2>2. pass[k] \in R
    BY <1>3, <1>9, <1>11, <2>1
  <2>3. QED BY <2>1, <2>2
<1> HIDE DEF G
<1>12. n \in G
  <2>1. \A i \in 0..n : i \in G
    BY <1>10, <1>11, InductionUpTo
  <2>2. QED BY <2>1
<1>13. PICK t \in Reach(s) : t = pass[n]
  BY <1>12 DEF G, R
<1> DEFINE good == \A i \in DOMAIN t.lines : t.lines[i].rho \in 0..t.lines[i].u
           u == [cells |-> t.cells, lines |-> t.lines, ok |-> t.ok /\ good]
<1>14. t \in Position /\ Len(t.lines) = Len(s.lines) /\ Extends(t.cells, s.cells)
       /\ (\A m : ExactAt(m, s) => ExactAt(m, t))
       /\ (\A m \in Matrices : SoundAt(m, s) => SoundAt(m, t))
  BY DEF Reach
<1>15. t.cells \in CellStates /\ t.lines \in Seq(Line) /\ t.ok \in BOOLEAN
  BY <1>14 DEF Position
<1>16. u.cells = t.cells /\ u.lines = t.lines /\ (t.ok /\ good => u.ok) /\ u \in Position
  <2>1. (t.ok /\ good) \in BOOLEAN
    OBVIOUS
  <2> HIDE DEF good
  <2>2. QED BY <1>15, <2>1 DEF Position
<1>17. ASSUME NEW m \in Matrices, SoundAt(m, t) PROVE t.ok /\ good
  <2>1. t.ok /\ t.lines \in Seq(LinesSeen(m, Overlooked, t.cells)) /\ RightOf(m, t.cells)
    BY <1>17 DEF SoundAt, ExactAt
  <2>2. ASSUME NEW i \in DOMAIN t.lines PROVE t.lines[i].rho \in 0..t.lines[i].u
    <3> DEFINE l == t.lines[i]
               c == t.cells
    <3>1. l \in LinesSeen(m, Overlooked, c) /\ c \in CellStates /\ RightOf(m, c)
      BY <1>15, <2>1, <2>2
    <3> HIDE DEF l, c
    <3>2. l.rho \in 0..l.u
      BY <3>1, RightSeen
    <3>3. QED BY <3>2 DEF l
  <2>3. QED BY <2>1, <2>2
<1>18. propagateIB(s) = u
  BY <1>8, <1>13
<1> HIDE DEF u, good
<1>19. \A m : ExactAt(m, t) => ExactAt(m, u)
  BY <1>16 DEF ExactAt
<1>20. \A m \in Matrices : SoundAt(m, t) => SoundAt(m, u)
  BY <1>16, <1>17 DEF SoundAt, ExactAt
<1>21. u \in Reach(s)
  BY <1>14, <1>16, <1>19, <1>20 DEF Reach
<1>22. QED BY <1>18, <1>21

\* Assigning free cells and propagating.
LEMMA AssignedOn ==
  ASSUME NEW s \in Position, NEW new, Values(new), DOMAIN new \subseteq Unset(s.cells)
  PROVE  LET t == propagateIB(AssignIn(s, new)) IN
         /\ t \in Position /\ Len(t.lines) = Len(s.lines)
         /\ Extends(t.cells, s.cells)
         /\ \A x \in DOMAIN new : t.cells[x] = new[x]
         /\ \A m : ExactAt(m, s) => ExactAt(m, t)
         /\ \A m \in Matrices : SoundAt(m, s) /\ Right(m, new) => SoundAt(m, t)
<1> DEFINE a == AssignIn(s, new)
           t == propagateIB(a)
<1>1. /\ a \in Position /\ a.cells = With(s.cells, new) /\ Len(a.lines) = Len(s.lines)
      /\ Extends(a.cells, s.cells)
      /\ \A m : ExactAt(m, s) => ExactAt(m, a)
      /\ \A m : SoundAt(m, s) /\ Right(m, new) => SoundAt(m, a)
  BY AssignInOf
<1>2. s.cells \in CellStates
  BY DEF Position
<1>3. \A x \in DOMAIN new : x \in Cells /\ a.cells[x] = new[x] /\ a.cells[x] # Unassigned
  <2>1. \A x \in Cells : With(s.cells, new)[x] = IF x \in DOMAIN new THEN new[x] ELSE s.cells[x]
    BY <1>2, WithOf
  <2>2. QED BY <1>1, <2>1 DEF Values, Unassigned
<1> HIDE DEF a
<1>4. t \in Reach(a)
  BY <1>1, PropagateOf
<1> HIDE DEF t
<1>5. /\ t \in Position /\ Len(t.lines) = Len(a.lines) /\ Extends(t.cells, a.cells)
      /\ (\A m : ExactAt(m, a) => ExactAt(m, t))
      /\ (\A m \in Matrices : SoundAt(m, a) => SoundAt(m, t))
  BY <1>4 DEF Reach
<1>6. \A x \in DOMAIN new : t.cells[x] = new[x]
  BY <1>3, <1>5 DEF Extends
<1>7. Extends(t.cells, s.cells)
  <2>1. ASSUME NEW x \in Cells, s.cells[x] # Unassigned PROVE t.cells[x] = s.cells[x]
    <3>1. a.cells[x] = s.cells[x]
      BY <1>1, <2>1 DEF Extends
    <3>2. t.cells[x] = a.cells[x]
      BY <1>5, <2>1, <3>1 DEF Extends
    <3>3. QED BY <3>1, <3>2
  <2>2. QED BY <2>1 DEF Extends
<1>8. QED BY <1>1, <1>5, <1>6, <1>7 DEF t, a

LEMMA TryOf ==
  ASSUME NEW s \in Position, NEW x \in Unset(s.cells), NEW v \in {0, 1}
  PROVE  /\ Try(s, x, v) \in Position /\ Len(Try(s, x, v).lines) = Len(s.lines)
         /\ Extends(Try(s, x, v).cells, s.cells)
         /\ Try(s, x, v).cells[x] = v
         /\ \A m : ExactAt(m, s) => ExactAt(m, Try(s, x, v))
         /\ \A m \in Matrices : SoundAt(m, s) /\ m[x] = v => SoundAt(m, Try(s, x, v))
<1> DEFINE new == [y \in {x} |-> v]
           t == propagateIB(AssignIn(s, new))
<1>1. Try(s, x, v) = t
  BY DEF Try
<1>2. Values(new) /\ DOMAIN new \subseteq Unset(s.cells) /\ x \in DOMAIN new /\ new[x] = v
  BY DEF Values, Unset
<1>3. \A m : m[x] = v => Right(m, new)
  BY DEF Right
<1> HIDE DEF new
<1>4. /\ t \in Position /\ Len(t.lines) = Len(s.lines)
      /\ Extends(t.cells, s.cells)
      /\ \A y \in DOMAIN new : t.cells[y] = new[y]
      /\ \A m : ExactAt(m, s) => ExactAt(m, t)
      /\ \A m \in Matrices : SoundAt(m, s) /\ Right(m, new) => SoundAt(m, t)
  BY <1>2, AssignedOn
<1> HIDE DEF t
<1>5. QED BY <1>1, <1>2, <1>3, <1>4

-------------------------------------------------------------------------------
(* The inductive invariant, in parts.                                      *)

Pcs == {"ready", "cascade", "phase", "phaseEnd", "gauss", "intBound", "cross", "verify", "done",
        "round", "axes", "axis", "roundsOver", "shuffle", "search", "final", "undefined"}

\* Between the saving of the baseline and its return.
Restarting == pc \in {"shuffle", "search", "undefined"}

InputRight ==
  /\ original \in Matrices /\ IsConfig(config)
  /\ Values(donated) /\ \E n \in 0..kS : DOMAIN donated = {x \in Cells : x[2] < n}

FilesRight ==
  /\ data \in Seq({0, 1}) /\ overlap \in 0..(kS - 1) /\ block \in Nat
  /\ data # <<>> => config = OverlapConfig

Results == [determined : Int, feasible : BOOLEAN, correct : BOOLEAN, bhVerified : BOOLEAN]

SystemTyped ==
  /\ gf2 \in Seq(Equation) /\ intLines \in Seq(Line) /\ cellState \in CellStates
  /\ result \in Results

\* What each place in the program knows of the counters and of the way there.
ControlRight ==
  /\ pc \in Pcs /\ method \in {"solve", "cascade", "hybrid"}
  /\ iter \in 0..MaxIter /\ (pc = "gauss" => iter < MaxIter)
  /\ phase \in 0..(Len(Phases) + 1)
  /\ method = "cascade" /\ pc \in {"gauss", "intBound", "cross", "phaseEnd"} => phase <= Len(Phases)
  /\ pc \in {"cascade", "phase", "phaseEnd"} => method = "cascade"
  /\ method = "hybrid" \/ pc = "round" => config.hybrid
  /\ pc \in {"axes", "axis", "roundsOver", "final"} \/ Restarting => method = "hybrid"
  /\ pc = "ready" => /\ method # "hybrid" /\ cellState = Nothing
                     /\ result.determined = 0 /\ iter = 0
  /\ restart \in Nat
  /\ (~Restarting /\ pc \notin {"final", "done"}) \/ ~config.hybrid => restart = 0
  /\ pc = "search" => restart > 0

BoundRight ==
  /\ queue \in Seq(DOMAIN intLines) /\ (pc # "intBound" => queue = <<>> /\ DOMAIN found = {})
  /\ Values(found) /\ \A x \in DOMAIN found : cellState[x] = found[x]

Bases == [cells : CellStates, lines : Seq(Line), gf2 : Seq(Equation), determined : Int]
Decisions == [cell : Cells, value : {0, 1}, cells : CellStates, lines : Seq(Line)]

SearchRight ==
  /\ axis \in 0..4
  /\ pc = "axis" => axis # 0 /\ lines \in Seq(DOMAIN AxisLines[axis])
  /\ base \in Bases /\ order \in Seq(Cells) /\ orderIdx \in Nat \ {0} /\ stack \in Seq(Decisions)
  /\ Restarting => \A crc \in crcLines : crc.eqns \subseteq EquationsOf(original)

\* The cells of decision k, or after the last of all.
Seen(k) == IF k \in DOMAIN stack THEN stack[k].cells ELSE cellState

StackNested ==
  /\ Restarting => Extends(cellState, base.cells)
  /\ pc = "search" =>
       \A k \in DOMAIN stack :
         /\ Extends(stack[k].cells, base.cells)
         /\ stack[k].cells[stack[k].cell] = Unassigned
         /\ Seen(k + 1)[stack[k].cell] = stack[k].value
         /\ Extends(Seen(k + 1), stack[k].cells)

\* What was known beforehand stays.
Keeps(c) == \A x \in DOMAIN donated : c[x] = donated[x]
DonatedKept == (pc # "ready" => Keeps(cellState)) /\ (Restarting => Keeps(base.cells))

EquationsRight ==
  /\ method # "hybrid" \/ ~(Restarting \/ pc \in {"final", "done"}) =>
       (RightOf(original, cellState) => gf2 \in Seq(EquationsOf(original)))
  /\ Restarting /\ RightOf(original, base.cells) => base.gf2 \in Seq(EquationsOf(original))

CountRight ==
  method # "hybrid" /\ result.feasible /\ pc # "ready" =>
    result.determined + Cardinality(DOMAIN donated) + Cardinality(DOMAIN found)
      = Cardinality(Assigned)

VerdictRight ==
  /\ method # "hybrid" /\ pc \notin {"done", "round"} => ~result.bhVerified
  /\ pc = "done" /\ result.bhVerified => cellState = original

SolverSound ==
  /\ InputRight /\ FilesRight /\ SystemTyped /\ ControlRight /\ BoundRight /\ SearchRight
  /\ StackNested /\ DonatedKept /\ EquationsRight /\ CountRight /\ VerdictRight /\ BaselineOrBlock

-------------------------------------------------------------------------------
(* What the actions do to the cells.                                       *)

LEMMA NothingTyped ==
  /\ Nothing \in CellStates /\ Unset(Nothing) = Cells
  /\ \A x \in Cells : Nothing[x] = Unassigned
BY DEF Nothing, CellStates, Unset

LEMMA AssignedOf ==
  /\ Assigned \in SUBSET Cells /\ Unset(cellState) = Cells \ Assigned
  /\ Assigned = Cells \ Unset(cellState)
  /\ IsFiniteSet(Assigned) /\ Cardinality(Assigned) \in Nat
<1>1. /\ Assigned \in SUBSET Cells /\ Unset(cellState) = Cells \ Assigned
      /\ Assigned = Cells \ Unset(cellState)
  BY DEF Assigned, Unset
<1>2. QED BY <1>1, FiniteSubset

\* Free cells get values.
LEMMA LearnOf ==
  ASSUME cellState \in CellStates, intLines \in Seq(Line),
         NEW new, Values(new), DOMAIN new \subseteq Unset(cellState), AssignCells(new)
  PROVE  /\ cellState' \in CellStates /\ intLines' \in Seq(Line)
         /\ Len(intLines') = Len(intLines) /\ DOMAIN intLines' = DOMAIN intLines
         /\ Assigned' = Assigned \cup DOMAIN new /\ Assigned \cap DOMAIN new = {}
         /\ Cardinality(Assigned') = Cardinality(Assigned) + Cardinality(DOMAIN new)
         /\ Extends(cellState', cellState)
         /\ \A x \in DOMAIN new : cellState'[x] = new[x]
         /\ \A m : RightOf(m, cellState') <=> RightOf(m, cellState) /\ Right(m, new)
         /\ \A m : intLines \in Seq(LinesOf(m, cellState)) =>
                     intLines' \in Seq(LinesOf(m, cellState'))
         /\ \A m, S : S \cap Unset(cellState) = {} /\ intLines \in Seq(LinesSeen(m, S, cellState)) =>
                     intLines' \in Seq(LinesSeen(m, S, cellState'))
<1> DEFINE D == DOMAIN new
<1>1. cellState' = With(cellState, new) /\ intLines' = AssignLines(intLines, new)
  BY DEF AssignCells
<1>2. /\ cellState' \in CellStates
      /\ Unset(cellState') = Unset(cellState) \ D
      /\ \A x \in Cells : cellState'[x] = IF x \in D THEN new[x] ELSE cellState[x]
  BY <1>1, WithOf
<1>3. intLines' \in Seq(Line) /\ Len(intLines') = Len(intLines)
  BY <1>1, AssignLinesOf
<1>4. DOMAIN intLines' = DOMAIN intLines
  BY <1>3
<1>5. D \in SUBSET Cells /\ D \subseteq Unset(cellState)
  BY DEF Values
<1>6. Assigned' = Cells \ Unset(cellState') /\ Assigned = Cells \ Unset(cellState)
  BY DEF Assigned, Unset
<1>7. Assigned' = Assigned \cup D /\ Assigned \cap D = {}
  BY <1>2, <1>5, <1>6
<1>8. Cardinality(Assigned') = Cardinality(Assigned) + Cardinality(D)
  <2> DEFINE A == Assigned
             B == Assigned'
  <2> HIDE DEF A, B, D
  <2>1. A \in SUBSET Cells
    BY AssignedOf DEF A
  <2>2. IsFiniteSet(A) /\ IsFiniteSet(D) /\ Cardinality(A) \in Nat /\ Cardinality(D) \in Nat
    BY <1>5, <2>1, FiniteSubset
  <2>3. Cardinality(A \cup D) = Cardinality(A) + Cardinality(D) - Cardinality(A \cap D)
    BY <2>2, FS_Union
  <2>4. A \cap D = {} /\ B = A \cup D
    BY <1>7 DEF A, B
  <2>5. Cardinality(A \cap D) = 0
    BY <2>4, FS_EmptySet
  <2>6. Cardinality(B) = Cardinality(A) + Cardinality(D)
    BY <2>2, <2>3, <2>4, <2>5
  <2>7. QED BY <2>6 DEF A, B
<1>9. \A x \in D : x \in Cells /\ cellState[x] = Unassigned /\ cellState'[x] = new[x]
                   /\ new[x] # Unassigned
  BY <1>2, <1>5 DEF Unset, Values, Unassigned
<1>10. Extends(cellState', cellState)
  BY <1>2, <1>9 DEF Extends
<1>11. ASSUME NEW m PROVE RightOf(m, cellState') <=> RightOf(m, cellState) /\ Right(m, new)
  <2>1. ASSUME RightOf(m, cellState') PROVE RightOf(m, cellState)
    BY <1>2, <1>9, <2>1 DEF RightOf
  <2>2. ASSUME RightOf(m, cellState') PROVE Right(m, new)
    BY <1>9, <2>2 DEF RightOf, Right
  <2>3. ASSUME RightOf(m, cellState), Right(m, new) PROVE RightOf(m, cellState')
    BY <1>2, <2>3 DEF RightOf, Right
  <2>4. QED BY <2>1, <2>2, <2>3
<1>12. ASSUME NEW m, intLines \in Seq(LinesOf(m, cellState))
       PROVE  intLines' \in Seq(LinesOf(m, cellState'))
  BY <1>1, <1>12, AssignLinesExact
<1>13. ASSUME NEW m, NEW S, S \cap Unset(cellState) = {}, intLines \in Seq(LinesSeen(m, S, cellState))
       PROVE  intLines' \in Seq(LinesSeen(m, S, cellState'))
  BY <1>1, <1>13, AssignLinesSeen
<1>14. QED BY <1>2, <1>3, <1>4, <1>7, <1>8, <1>9, <1>10, <1>11, <1>12, <1>13

LEMMA NoneKnown == DOMAIN NoneFound = {} /\ Values(NoneFound) /\ Cardinality(DOMAIN NoneFound) = 0
<1>1. DOMAIN NoneFound = {}
  BY DEF NoneFound
<1>2. QED BY <1>1, FS_EmptySet DEF Values

LEMMA DonatedFree ==
  ASSUME InputRight, ControlRight, pc = "ready"
  PROVE  Values(donated) /\ DOMAIN donated \subseteq Unset(cellState)
<1>1. cellState = Nothing /\ Values(donated)
  BY DEF InputRight, ControlRight
<1>2. QED BY <1>1, NothingTyped DEF Values

\* The line at the head of the queue.
LEMMA HeadLine ==
  ASSUME SystemTyped, BoundRight, queue # <<>>
  PROVE  /\ Head(queue) \in DOMAIN intLines /\ intLines[Head(queue)] \in Line
         /\ Tail(queue) \in Seq(DOMAIN intLines)
<1>1. queue \in Seq(DOMAIN intLines) /\ intLines \in Seq(Line)
  BY DEF SystemTyped, BoundRight
<1> DEFINE D == DOMAIN intLines
<1> HIDE DEF D
<1>2. queue \in Seq(D)
  BY <1>1 DEF D
<1>3. Head(queue) \in D /\ Tail(queue) \in Seq(D)
  BY <1>2
<1>4. QED BY <1>1, <1>3 DEF D

LEMMA BoundFree ==
  ASSUME SystemTyped, NEW l \in Line, NEW v \in {0, 1}
  PROVE  LET cells == IF Forces(l) THEN Among(RowMajor, l.cells \ Assigned) ELSE <<>>
             new == [x \in ToSet(cells) |-> v]
         IN  /\ Values(new) /\ DOMAIN new \subseteq Unset(cellState)
             /\ DOMAIN new = IF Forces(l) THEN l.cells \cap Unset(cellState) ELSE {}
             /\ cells \in Seq(Cells)
<1> DEFINE S == l.cells \ Assigned
           cells == IF Forces(l) THEN Among(RowMajor, S) ELSE <<>>
           new == [x \in ToSet(cells) |-> v]
<1>1. S = l.cells \cap Unset(cellState) /\ S \subseteq Cells
  BY AssignedOf DEF Line
<1> HIDE DEF S
<1>2. RowMajor \in Seq(Cells) /\ ToSet(RowMajor) = Cells
  BY RowMajorRight
<1>3. Among(RowMajor, S) \in Seq(Cells) /\ ToSet(Among(RowMajor, S)) = ToSet(RowMajor) \cap S
  BY <1>2, AmongOf
<1>4. ToSet(<<>>) = {}
  BY DEF ToSet
<1>5. cells \in Seq(Cells) /\ ToSet(cells) = IF Forces(l) THEN S ELSE {}
  <2>1. Cells \cap S = S /\ <<>> \in Seq(Cells)
    BY <1>1
  <2>2. Among(RowMajor, S) \in Seq(Cells) /\ ToSet(Among(RowMajor, S)) = S
    BY <1>2, <1>3, <2>1
  <2>3. QED BY <1>4, <2>1, <2>2
<1>6. DOMAIN new = ToSet(cells)
  OBVIOUS
<1>7. Values(new)
  BY <1>1, <1>5 DEF Values
<1> HIDE DEF new
<1>8. DOMAIN new \subseteq Unset(cellState) /\ DOMAIN new = IF Forces(l) THEN l.cells \cap Unset(cellState) ELSE {}
  BY <1>1, <1>5, <1>6
<1> HIDE DEF cells
<1>9. QED BY <1>5, <1>7, <1>8 DEF cells, new, S

LEMMA DeducibleFree ==
  ASSUME SystemTyped
  PROVE  LET new == [x \in Deducible |-> CHOOSE v \in CanBe(x) : TRUE]
         IN  /\ Values(new) /\ DOMAIN new \subseteq Unset(cellState)
             /\ \A x \in Deducible : new[x] \in CanBe(x) /\ \A v \in CanBe(x) : v = new[x]
<1>1. ASSUME NEW x \in Deducible
      PROVE  LET v == CHOOSE v \in CanBe(x) : TRUE
             IN  v \in CanBe(x) /\ v \in {0, 1} /\ \A u \in CanBe(x) : u = v
  <2> DEFINE S == CanBe(x)
  <2>1. Cardinality(S) = 1
    BY DEF Deducible
  <2>2. S \in SUBSET {0, 1}
    BY DEF CanBe
  <2> HIDE DEF S
  <2>3. IsFiniteSet(S)
    <3>1. IsFiniteSet({0, 1})
      <4>1. IsFiniteSet({0})
        BY FS_Singleton
      <4>2. {0, 1} = {0} \cup {1}
        OBVIOUS
      <4>3. QED BY <4>1, <4>2, FS_AddElement
    <3>2. QED BY <2>2, <3>1, FS_Subset
  <2>4. PICK y : S = {y}
    BY <2>1, <2>3, FS_Singleton
  <2>5. (CHOOSE v \in S : TRUE) = y
    BY <2>4
  <2>6. QED BY <2>2, <2>4, <2>5 DEF S
<1> DEFINE new == [x \in Deducible |-> CHOOSE v \in CanBe(x) : TRUE]
<1>2. Deducible \subseteq Unset(cellState) /\ Deducible \subseteq Cells
  BY AssignedOf DEF Deducible
<1>3. Values(new)
  BY <1>1, <1>2 DEF Values
<1>4. QED BY <1>1, <1>2, <1>3

AxisEntry == [cells : LineSeqs, width : Widths]

LEMMA EntriesOf ==
  ASSUME NEW ls \in Seq(LineSeqs), NEW e, DOMAIN e = DOMAIN ls,
         e = [i \in DOMAIN ls |-> e[i]], \A i \in DOMAIN ls : e[i] \in AxisEntry
  PROVE  e \in Seq(AxisEntry)
<1>1. PICK n \in Nat : n = Len(ls) /\ DOMAIN ls = 1..n
  OBVIOUS
<1> HIDE DEF AxisEntry
<1>2. [i \in 1..n |-> e[i]] \in Seq(AxisEntry)
  BY <1>1
<1>3. QED BY <1>1, <1>2

LEMMA AxisLinesOf ==
  ASSUME NEW a \in 1..4
  PROVE  AxisLines[a] \in Seq(AxisEntry)
<1> DEFINE E == Seq(AxisEntry)
           hashed(ls) == [i \in DOMAIN ls |-> [cells |-> ls[i], width |-> 32]]
           byLength(ls) == [i \in DOMAIN ls |-> [cells |-> ls[i], width |-> DiagWidth(Len(ls[i]))]]
<1>1. RowLines \in Seq(LineSeqs) /\ ColumnLines \in Seq(LineSeqs)
      /\ DiagLines \in Seq(LineSeqs) /\ AntiDiagLines \in Seq(LineSeqs)
  BY StraightLines
<1>2. (\A n : DiagWidth(n) \in Widths) /\ 32 \in Widths
  BY DEF DiagWidth, Widths
<1>3. ASSUME NEW ls \in Seq(LineSeqs) PROVE hashed(ls) \in E /\ byLength(ls) \in E
  <2>1. \A i \in DOMAIN ls : ls[i] \in LineSeqs
    OBVIOUS
  <2>2. \A i \in DOMAIN ls : hashed(ls)[i] \in AxisEntry /\ byLength(ls)[i] \in AxisEntry
    BY <1>2, <2>1 DEF AxisEntry
  <2>3. /\ DOMAIN hashed(ls) = DOMAIN ls /\ hashed(ls) = [i \in DOMAIN ls |-> hashed(ls)[i]]
        /\ DOMAIN byLength(ls) = DOMAIN ls /\ byLength(ls) = [i \in DOMAIN ls |-> byLength(ls)[i]]
    OBVIOUS
  <2> DEFINE e == hashed(ls)
             f == byLength(ls)
  <2> HIDE DEF e, f
  <2>4. e \in E
    BY <2>2, <2>3, EntriesOf DEF e
  <2>5. f \in E
    BY <2>2, <2>3, EntriesOf DEF f
  <2>6. QED BY <2>4, <2>5 DEF e, f
<1>4. AxisLines = <<hashed(RowLines), hashed(ColumnLines), byLength(DiagLines), byLength(AntiDiagLines)>>
  BY DEF AxisLines
<1> HIDE DEF E, hashed, byLength
<1>5. hashed(RowLines) \in E /\ hashed(ColumnLines) \in E
      /\ byLength(DiagLines) \in E /\ byLength(AntiDiagLines) \in E
  BY <1>1, <1>3
<1>6. AxisLines[a] \in E
  BY <1>4, <1>5
<1>7. QED BY <1>6 DEF E

\* What a search of a line finds are values of free cells.
LEMMA FoundFree ==
  ASSUME NEW line \in AxisEntry, NEW new \in Found(line)
  PROVE  Values(new) /\ DOMAIN new \subseteq Unset(cellState)
<1>1. new \in [ToSet(Unknowns(line)) -> {0, 1}]
  BY DEF Found, FirstFilling, Fillings
<1>2. line.cells \in Seq(Cells)
  BY DEF AxisEntry, LineSeqs
<1>3. ToSet(Unknowns(line)) = ToSet(line.cells) \cap (Cells \ Assigned)
  BY <1>2, AmongOf DEF Unknowns
<1>4. Cells \ Assigned = Unset(cellState)
  BY AssignedOf
<1>5. Unset(cellState) \subseteq Cells
  BY DEF Unset
<1>6. QED BY <1>1, <1>3, <1>4, <1>5 DEF Values

\* The equations that prune the restarts.
LEMMA PruningRight ==
  ASSUME original \in Matrices, NEW line \in PruningLines
  PROVE  PruningEquations(line).eqns \subseteq EquationsOf(original)
<1>1. line \in AxisEntry
  <2>1. \A a \in 1..4 : \A e \in ToSet(AxisLines[a]) : e \in AxisEntry
    BY AxisLinesOf, ToSetOf
  <2>2. \E a \in 1..4 : line \in ToSet(AxisLines[a])
    BY DEF PruningLines
  <2>3. QED BY <2>1, <2>2
<1>2. CrcEquations(line.width, original, line.cells) \in Seq(EquationsOf(original))
  <2>1. line.width \in Widths /\ line.cells \in LineSeqs
    BY <1>1 DEF AxisEntry
  <2>2. QED BY <2>1, CrcEquationsOf
<1>3. ToSet(CrcEquations(line.width, original, line.cells)) \subseteq EquationsOf(original)
  BY <1>2, ToSetOf
<1>4. QED BY <1>3 DEF PruningEquations

\* Right cells pass the checks of the restarts.
LEMMA ChecksPass ==
  ASSUME original \in Matrices, \A crc \in crcLines : crc.eqns \subseteq EquationsOf(original),
         NEW c \in CellStates, RightOf(original, c), NEW x \in Cells
  PROVE  CrcConsistent(c, x) /\ verifyRowLH(c, x)
<1>1. ASSUME NEW S \in SUBSET Cells, Complete(c, S) PROVE \A y \in S : c[y] = original[y]
  BY <1>1 DEF Complete, RightOf
<1>2. ASSUME NEW crc \in crcLines, NEW eq \in crc.eqns, Complete(c, eq.cells)
      PROVE  Satisfies(c, eq)
  <2>1. eq \in EquationsOf(original)
    BY <1>2
  <2>2. eq.cells \in SUBSET Cells /\ Satisfies(original, eq)
    BY <2>1 DEF EquationsOf, Equation
  <2>3. {y \in eq.cells : c[y] = 1} = {y \in eq.cells : original[y] = 1}
    BY <1>1, <1>2, <2>2
  <2>4. QED BY <2>2, <2>3 DEF Satisfies, OnesOf
<1>3. CrcConsistent(c, x)
  BY <1>2 DEF CrcConsistent
<1>4. ASSUME Complete(c, ToSet(RowCells(x[1])))
      PROVE  LineCrc(32, c, RowCells(x[1])) = LineCrc(32, original, RowCells(x[1]))
  <2> DEFINE row == RowCells(x[1])
  <2>1. x[1] \in Index
    BY DEF Cells
  <2>2. row \in Seq(Cells)
    BY <2>1, RowColumnLines DEF LineSeqs
  <2> HIDE DEF row
  <2>3. ToSet(row) \in SUBSET Cells
    BY <2>2, ToSetOf
  <2>4. \A j \in DOMAIN row : row[j] \in ToSet(row)
    BY <2>2, ToSetOf
  <2>5. \A j \in DOMAIN row : c[row[j]] = original[row[j]]
    BY <1>1, <1>4, <2>3, <2>4 DEF row
  <2>6. [j \in DOMAIN row |-> c[row[j]]] = [j \in DOMAIN row |-> original[row[j]]]
    BY <2>5
  <2>7. LineCrc(32, c, row) = LineCrc(32, original, row)
    BY <2>6 DEF LineCrc
  <2>8. QED BY <2>7 DEF row
<1>5. QED BY <1>3, <1>4 DEF verifyRowLH

LEMMA HereOf ==
  ASSUME SystemTyped
  PROVE  /\ Here \in Position /\ Here.cells = cellState /\ Here.lines = intLines
         /\ \A m : ExactAt(m, Here) <=> /\ intLines \in Seq(LinesSeen(m, Overlooked, cellState))
                                       /\ Overlooked \cap Unset(cellState) = {}
         /\ \A m : SoundAt(m, Here) <=> ExactAt(m, Here) /\ RightOf(m, cellState)
BY DEF Here, Position, SystemTyped, ExactAt, SoundAt

\* The least and the greatest of some places.
LEMMA Extremes ==
  ASSUME NEW n \in Nat, NEW S \in SUBSET (0..n), S # {}
  PROVE  /\ Min(S) \in S /\ \A x \in S : Min(S) <= x
         /\ Max(S) \in S /\ \A x \in S : x <= Max(S)
<1>1. PICK x \in S : \A y \in S : x <= y
  <2>1. S \subseteq Nat
    OBVIOUS
  <2>2. QED BY <2>1, Least
<1>2. Min(S) \in S /\ \A y \in S : Min(S) <= y
  BY <1>1 DEF Min
<1> DEFINE T == {n - y : y \in S}
<1>3. T \subseteq Nat /\ T # {}
  OBVIOUS
<1>4. PICK t \in T : \A y \in T : t <= y
  BY <1>3, Least
<1>5. PICK z \in S : t = n - z
  BY <1>4
<1>6. \A y \in S : y <= z
  <2>1. \A y \in S : n - z <= n - y
    BY <1>4, <1>5
  <2>2. QED BY <2>1
<1>7. Max(S) \in S /\ \A y \in S : y <= Max(S)
  BY <1>6 DEF Max
<1>8. QED BY <1>2, <1>7

-------------------------------------------------------------------------------
(* The steps of solve and solveCascade.                                    *)

InFixpoint == {"ready", "cascade", "phase", "phaseEnd", "gauss", "intBound", "cross", "verify"}
FromFixpoint == (InFixpoint \ {"ready"}) \cup {"done", "round", "axes"}

LEMMA NextGoes ==
  ASSUME Next, method \in {"solve", "cascade", "hybrid"}
  PROVE  pc \in InFixpoint /\ pc' \in FromFixpoint /\ UNCHANGED input
<1> USE DEF InFixpoint, FromFixpoint
<1>1. CASE PreAssign
  BY <1>1 DEF PreAssign
<1>2. CASE StartCascade
  BY <1>2 DEF StartCascade
<1>3. CASE BeginPhase
  BY <1>3 DEF BeginPhase
<1>4. CASE PhasesOver
  BY <1>4 DEF PhasesOver
<1>5. CASE EndPhase
  BY <1>5 DEF EndPhase
<1>6. CASE GaussPass
  BY <1>6 DEF GaussPass
<1>7. CASE BoundLine
  BY <1>7 DEF BoundLine
<1>8. CASE BoundViolated
  BY <1>8 DEF BoundViolated, Inconsistent
<1>9. CASE BoundPass
  BY <1>9 DEF BoundPass
<1>10. CASE CrossPass
  BY <1>10 DEF CrossPass, Inconsistent, AfterFixpoint
<1>11. CASE Verify
  BY <1>11 DEF Verify, AfterVerify
<1>12. QED BY <1>1, <1>2, <1>3, <1>4, <1>5, <1>6, <1>7, <1>8, <1>9, <1>10, <1>11 DEF Next, Iteration

\* What these steps leave alone.
LEMMA FixpointFrame ==
  ASSUME SolverSound, Next, UNCHANGED <<rounds, search, files, blocks>>
  PROVE  /\ InputRight' /\ FilesRight' /\ SearchRight' /\ StackNested' /\ BaselineOrBlock'
         /\ ~Restarting /\ ~Restarting' /\ pc' # "ready"
         /\ restart' = restart /\ config' = config /\ original' = original /\ donated' = donated
         /\ Phases' = Phases
<1>1. InputRight /\ FilesRight /\ SearchRight /\ ControlRight
  BY DEF SolverSound
<1>2. pc \in InFixpoint /\ pc' \in FromFixpoint /\ UNCHANGED input
  BY <1>1, NextGoes DEF ControlRight
<1>3. ~Restarting /\ ~Restarting' /\ pc' \notin {"search", "final", "axis", "ready"}
  BY <1>2 DEF Restarting, InFixpoint, FromFixpoint
<1>4. InputRight'
  BY <1>1, <1>2 DEF InputRight, Values, input
<1>5. FilesRight'
  BY <1>1, <1>2 DEF FilesRight, input, files, blocks
<1>6. SearchRight'
  BY <1>1, <1>3 DEF SearchRight, rounds, search
<1>7. StackNested' /\ BaselineOrBlock'
  BY <1>3 DEF StackNested, BaselineOrBlock
<1>8. restart' = restart /\ config' = config /\ original' = original /\ donated' = donated
  BY <1>2 DEF search, input
<1>9. Phases' = Phases
  BY <1>8 DEF Phases, Phase
<1>10. QED BY <1>3, <1>4, <1>5, <1>6, <1>7, <1>8, <1>9

\* Learning keeps what the parts say of the cells.
LEMMA LearnKeeps ==
  ASSUME SolverSound, pc \in InFixpoint \cup {"axis"}, UNCHANGED input, pc' # "ready", ~Restarting',
         NEW new, Values(new), DOMAIN new \subseteq Unset(cellState), AssignCells(new),
         gf2' \in {gf2, Substitute(gf2, new)},
         Keeps(cellState) \/ new = donated
  PROVE  /\ gf2' \in Seq(Equation) /\ DonatedKept'
         /\ RightOf(original', cellState') => gf2' \in Seq(EquationsOf(original'))
<1>1. /\ SystemTyped /\ EquationsRight /\ InputRight
  BY DEF SolverSound
<1>2. cellState \in CellStates /\ intLines \in Seq(Line) /\ gf2 \in Seq(Equation)
  BY <1>1 DEF SystemTyped
<1>3. /\ Extends(cellState', cellState)
      /\ \A x \in DOMAIN new : cellState'[x] = new[x]
      /\ \A m : RightOf(m, cellState') <=> RightOf(m, cellState) /\ Right(m, new)
  BY <1>2, LearnOf
<1>4. gf2' \in Seq(Equation)
  BY <1>2, SubstituteOf
<1>5. original' = original /\ donated' = donated
  BY DEF input
<1>6. Keeps(cellState')
  <2>1. CASE new = donated
    BY <1>3, <1>5, <2>1 DEF Keeps
  <2>2. CASE Keeps(cellState)
    <3>1. ASSUME NEW x \in DOMAIN donated PROVE cellState'[x] = donated[x]
      <4>1. x \in Cells /\ donated[x] \in {0, 1} /\ cellState[x] = donated[x]
        BY <1>1, <2>2 DEF InputRight, Values, Keeps
      <4>2. cellState[x] # Unassigned
        BY <4>1 DEF Unassigned
      <4>3. QED BY <1>3, <4>1, <4>2 DEF Extends
    <3>2. QED BY <3>1 DEF Keeps
  <2>3. QED BY <2>1, <2>2
<1>7. DonatedKept'
  BY <1>5, <1>6 DEF DonatedKept, Keeps
<1>8. ASSUME RightOf(original', cellState') PROVE gf2' \in Seq(EquationsOf(original'))
  <2>1. RightOf(original, cellState) /\ Right(original, new)
    BY <1>3, <1>5, <1>8
  <2>2. gf2 \in Seq(EquationsOf(original))
    BY <1>1, <2>1 DEF EquationsRight, Restarting, InFixpoint
  <2>3. original \in Matrices
    BY <1>1 DEF InputRight
  <2>4. Substitute(gf2, new) \in Seq(EquationsOf(original))
    BY <2>1, <2>2, <2>3, SubstituteRight
  <2>5. QED BY <1>5, <2>2, <2>4
<1>9. QED BY <1>4, <1>7, <1>8

LEMMA PreAssignSound ==
  ASSUME SolverSound, PreAssign, UNCHANGED <<rounds, search, files, blocks>> PROVE SolverSound'
<1>1. /\ InputRight' /\ FilesRight' /\ SearchRight' /\ StackNested' /\ BaselineOrBlock'
      /\ ~Restarting /\ ~Restarting' /\ pc' # "ready" /\ restart' = restart
      /\ config' = config /\ original' = original /\ donated' = donated /\ Phases' = Phases
  BY FixpointFrame DEF Next
<1>2. /\ InputRight /\ SystemTyped /\ ControlRight /\ BoundRight /\ EquationsRight /\ CountRight
      /\ VerdictRight
  BY DEF SolverSound
<1>3. pc = "ready" /\ AssignCells(donated) /\ gf2' = Substitute(gf2, donated)
      /\ pc' = (IF method = "cascade" THEN "cascade" ELSE "gauss")
      /\ UNCHANGED <<input, result, method, phase, iter, before, queue, found>>
  BY DEF PreAssign, bound
<1>4. Values(donated) /\ DOMAIN donated \subseteq Unset(cellState)
  BY <1>2, <1>3, DonatedFree
<1>5. cellState \in CellStates /\ intLines \in Seq(Line)
  BY <1>2 DEF SystemTyped
<1>6. /\ cellState' \in CellStates /\ intLines' \in Seq(Line) /\ DOMAIN intLines' = DOMAIN intLines
      /\ Cardinality(Assigned') = Cardinality(Assigned) + Cardinality(DOMAIN donated)
  BY <1>3, <1>4, <1>5, LearnOf
<1>7. /\ gf2' \in Seq(Equation) /\ DonatedKept'
      /\ RightOf(original', cellState') => gf2' \in Seq(EquationsOf(original'))
  BY <1>1, <1>3, <1>4, LearnKeeps DEF InFixpoint
<1>8. SystemTyped'
  BY <1>2, <1>3, <1>6, <1>7 DEF SystemTyped
<1>9. ControlRight'
  <2>1. iter < MaxIter
    BY <1>2, <1>3, IterAssumption DEF ControlRight
  <2>2. QED BY <1>1, <1>2, <1>3, <2>1 DEF ControlRight, Pcs, Restarting
<1>10. queue' = <<>> /\ DOMAIN found' = {}
  BY <1>2, <1>3 DEF BoundRight
<1>11. BoundRight'
  BY <1>10 DEF BoundRight, Values
<1>12. EquationsRight'
  BY <1>1, <1>7 DEF EquationsRight
<1>13. CountRight'
  <2>1. Assigned = {}
    BY <1>2, <1>3, NothingTyped DEF ControlRight, Assigned
  <2>2. Cardinality(Assigned) = 0 /\ Cardinality(DOMAIN found') = 0
    BY <1>10, <2>1, FS_EmptySet
  <2>3. Cardinality(DOMAIN donated) \in Nat
    BY <1>4, FiniteSubset DEF Values
  <2>4. result'.determined = 0
    BY <1>2, <1>3 DEF ControlRight
  <2>5. QED BY <1>1, <1>6, <2>2, <2>3, <2>4 DEF CountRight
<1>14. VerdictRight'
  BY <1>2, <1>3 DEF VerdictRight
<1>15. QED BY <1>1, <1>7, <1>8, <1>9, <1>11, <1>12, <1>13, <1>14 DEF SolverSound

LEMMA EquationsTyped ==
  ASSUME NEW m, NEW rows \in Seq(EquationsOf(m)) PROVE rows \in Seq(Equation)
<1> DEFINE T == EquationsOf(m)
<1>1. T \subseteq Equation
  BY DEF EquationsOf
<1> HIDE DEF T
<1>2. rows \in Seq(T)
  BY DEF T
<1>3. PICK n \in Nat : n = Len(rows) /\ DOMAIN rows = 1..n /\ rows \in [1..n -> T]
  BY <1>2
<1>4. QED BY <1>1, <1>3

\* Equations of the matrix may be added at any time.
LEMMA AddedRight ==
  ASSUME SolverSound, pc \in InFixpoint, original' = original, cellState' = cellState,
         NEW added \in Seq(EquationsOf(original)), gf2' = gf2 \o added
  PROVE  /\ gf2' \in Seq(Equation)
         /\ RightOf(original', cellState') => gf2' \in Seq(EquationsOf(original'))
<1>1. added \in Seq(Equation)
  BY EquationsTyped
<1>2. gf2 \in Seq(Equation) /\ EquationsRight
  BY DEF SolverSound, SystemTyped
<1>3. gf2' \in Seq(Equation)
  BY <1>1, <1>2
<1>4. ASSUME RightOf(original', cellState') PROVE gf2' \in Seq(EquationsOf(original'))
  <2>1. gf2 \in Seq(EquationsOf(original))
    BY <1>2, <1>4 DEF EquationsRight, Restarting, InFixpoint
  <2>2. QED BY <2>1
<1>5. QED BY <1>3, <1>4

\* Equations made while cells are known, with these substituted.
LEMMA AddedKnown ==
  ASSUME SolverSound, pc \in InFixpoint, original' = original, cellState' = cellState,
         NEW as \in Seq(EquationsOf(original)), NEW bs \in Seq(EquationsOf(original)),
         gf2' = gf2 \o (Substitute(as, Known) \o Substitute(bs, Known))
  PROVE  /\ gf2' \in Seq(Equation)
         /\ RightOf(original', cellState') => gf2' \in Seq(EquationsOf(original'))
<1>1. as \in Seq(Equation) /\ bs \in Seq(Equation)
  BY EquationsTyped
<1> DEFINE a == Substitute(as, Known)
           b == Substitute(bs, Known)
<1>2. a \in Seq(Equation) /\ b \in Seq(Equation)
  BY <1>1, SubstituteOf
<1>3. gf2 \in Seq(Equation) /\ EquationsRight /\ original \in Matrices
  BY DEF SolverSound, SystemTyped, InputRight
<1>4. ASSUME RightOf(original, cellState) PROVE a \in Seq(EquationsOf(original)) /\ b \in Seq(EquationsOf(original))
  <2>1. Right(original, Known)
    BY <1>4 DEF Right, RightOf, Known, Restrict, Assigned
  <2>2. QED BY <1>3, <2>1, SubstituteRight
<1> HIDE DEF a, b
<1>5. gf2' = gf2 \o (a \o b)
  BY DEF a, b
<1>6. gf2' \in Seq(Equation)
  BY <1>2, <1>3, <1>5
<1>7. ASSUME RightOf(original', cellState') PROVE gf2' \in Seq(EquationsOf(original'))
  <2>1. gf2 \in Seq(EquationsOf(original))
    BY <1>3, <1>7 DEF EquationsRight, Restarting, InFixpoint
  <2>2. a \in Seq(EquationsOf(original)) /\ b \in Seq(EquationsOf(original))
    BY <1>4, <1>7
  <2>3. QED BY <1>5, <2>1, <2>2
<1>8. QED BY <1>6, <1>7

\* Joining four sequences: the last three may be joined first.
OneByOne(a, b, c, d)  == a \o b \o c \o d
OthersFirst(a, b, c, d) == a \o (b \o c \o d)

LEMMA JoinOfFour ==
  \A a, b, c, d \in Seq(Equation) : OneByOne(a, b, c, d) = OthersFirst(a, b, c, d)
<1> DEFINE S == Seq(Equation)
           J(s, t) == s \o t
<1>1. \A s, t, u \in S : J(s, t) \in S /\ J(J(s, t), u) = J(s, J(t, u))
  <2>1. ASSUME NEW s \in Seq(Equation), NEW t \in Seq(Equation), NEW u \in Seq(Equation)
        PROVE  s \o t \in Seq(Equation) /\ (s \o t) \o u = s \o (t \o u)
    BY <2>1, ConcatAssociative
  <2>2. QED BY ONLY <2>1, Zenon
<1>2. \A a, b, c, d \in S : J(J(J(a, b), c), d) = J(a, J(J(b, c), d))
  <2> HIDE DEF S, J
  <2>1. QED BY ONLY <1>1
<1>3. QED BY ONLY <1>2, Zenon DEF OneByOne, OthersFirst, S, J

LEMMA StartCascadeSound ==
  ASSUME SolverSound, StartCascade, UNCHANGED <<rounds, search, files, blocks>> PROVE SolverSound'
<1>1. /\ InputRight' /\ FilesRight' /\ SearchRight' /\ StackNested' /\ BaselineOrBlock'
      /\ ~Restarting /\ ~Restarting' /\ pc' # "ready" /\ restart' = restart
      /\ config' = config /\ original' = original /\ donated' = donated /\ Phases' = Phases
  BY FixpointFrame DEF Next
<1>2. /\ InputRight /\ SystemTyped /\ ControlRight /\ BoundRight /\ EquationsRight /\ CountRight
      /\ VerdictRight /\ DonatedKept
  BY DEF SolverSound
<1> DEFINE vh == Given(config.useVHInCascade, IF config.vhBits = 16 THEN addVH16(original) ELSE addVH(original))
           yltp == addYLTP(original, config)
           rltp == addRLTP(original, config)
           yl == YltpIntLines(original, config)
           rl == RltpIntLines(original, config)
<1>3. pc = "cascade" /\ gf2' = gf2 \o vh \o yltp \o rltp /\ intLines' = intLines \o yl \o rl
      /\ phase' = 1 /\ pc' = "phase"
      /\ UNCHANGED <<cellState, result, method, iter, before, queue, found>>
  BY DEF StartCascade, bound
<1>4. original \in Matrices /\ IsConfig(config)
  BY <1>2 DEF InputRight
<1> DEFINE E == Seq(EquationsOf(original))
<1>5. vh \in E
  <2>1. addVH(original) \in E /\ addVH16(original) \in E
    <3>1. 8 \in Widths
      BY DEF Widths
    <3>2. QED BY <1>4, <3>1, HashesOf
  <2>2. QED BY <2>1, GivenOf
<1>6. yltp \in E /\ yl \in Seq(LinesOf(original, Nothing))
  BY <1>4, PartitionOf
<1>7. rltp \in E /\ rl \in Seq(LinesOf(original, Nothing))
  BY <1>4, SpiralOf
<1>8. yl \in Seq(Line) /\ rl \in Seq(Line)
  BY <1>6, <1>7, LinesTyped
<1>9. gf2 \in Seq(Equation) /\ intLines \in Seq(Line)
  BY <1>2 DEF SystemTyped
<1> HIDE DEF vh, yltp, rltp, yl, rl
<1>10. vh \in Seq(Equation) /\ yltp \in Seq(Equation) /\ rltp \in Seq(Equation)
  BY <1>5, <1>6, <1>7, EquationsTyped
<1>11. gf2' = gf2 \o (vh \o yltp \o rltp)
  <2>1. gf2' = gf2 \o vh \o yltp \o rltp
    BY <1>3
  <2>2. OneByOne(gf2, vh, yltp, rltp) = OthersFirst(gf2, vh, yltp, rltp)
    BY ONLY <1>9, <1>10, JoinOfFour, Zenon
  <2>3. QED BY ONLY <2>1, <2>2, Zenon DEF OneByOne, OthersFirst
<1>12. vh \o yltp \o rltp \in E
  BY <1>5, <1>6, <1>7
<1>13. /\ gf2' \in Seq(Equation)
       /\ RightOf(original', cellState') => gf2' \in Seq(EquationsOf(original'))
  BY <1>1, <1>3, <1>11, <1>12, AddedRight DEF InFixpoint
<1>14. intLines' \in Seq(Line)
  BY <1>3, <1>8, <1>9
<1>15. SystemTyped'
  BY <1>2, <1>3, <1>13, <1>14 DEF SystemTyped
<1>16. ControlRight'
  <2>1. Len(Phases) \in Nat
    BY DEF Phases
  <2>2. method = "cascade"
    BY <1>2, <1>3 DEF ControlRight
  <2>3. QED BY <1>1, <1>2, <1>3, <2>1, <2>2 DEF ControlRight, Pcs, Restarting
<1>17. BoundRight'
  <2>1. queue' = <<>> /\ DOMAIN found' = {}
    BY <1>2, <1>3 DEF BoundRight
  <2>2. QED BY <2>1 DEF BoundRight, Values
<1>18. DonatedKept'
  BY <1>1, <1>2, <1>3 DEF DonatedKept, Keeps
<1>19. EquationsRight'
  BY <1>1, <1>13 DEF EquationsRight
<1>20. CountRight'
  BY <1>1, <1>2, <1>3 DEF CountRight, Assigned
<1>21. VerdictRight'
  BY <1>2, <1>3 DEF VerdictRight
<1>22. QED BY <1>1, <1>15, <1>16, <1>17, <1>18, <1>19, <1>20, <1>21 DEF SolverSound

LEMMA BeginPhaseSound ==
  ASSUME SolverSound, BeginPhase, UNCHANGED <<rounds, search, files, blocks>> PROVE SolverSound'
<1>1. /\ InputRight' /\ FilesRight' /\ SearchRight' /\ StackNested' /\ BaselineOrBlock'
      /\ ~Restarting /\ ~Restarting' /\ pc' # "ready" /\ restart' = restart
      /\ config' = config /\ original' = original /\ donated' = donated /\ Phases' = Phases
  BY FixpointFrame DEF Next
<1>2. /\ InputRight /\ SystemTyped /\ ControlRight /\ BoundRight /\ EquationsRight /\ CountRight
      /\ VerdictRight /\ DonatedKept
  BY DEF SolverSound
<1>3. pc = "phase" /\ pc' = "gauss" /\ iter' = 0 /\ phase <= Len(Phases)
      /\ UNCHANGED <<intLines, cellState, result, method, phase, queue, found>>
  BY DEF BeginPhase, bound
<1> DEFINE dh(w, a, b) == AllCrcEquations(w, original, InRange(DiagLines, a, b))
           xh(w, a, b) == AllCrcEquations(w, original, InRange(AntiDiagLines, a, b))
<1>4. \E w \in Widths : \E a, b : gf2' = gf2 \o (Substitute(dh(w, a, b), Known) \o Substitute(xh(w, a, b), Known))
  <2> DEFINE a == Phases[phase].minLen
             b == Min({Phases[phase].maxLen, CascadeLimit})
  <2>1. 8 \in Widths /\ 16 \in Widths /\ 32 \in Widths
    BY DEF Widths
  <2>2. gf2' = gf2 \o
           CASE Phases[phase].hashBits = 8 -> Substitute(dh(8, a, b), Known) \o Substitute(xh(8, a, b), Known)
             [] Phases[phase].hashBits = 16 -> Substitute(dh(16, a, b), Known) \o Substitute(xh(16, a, b), Known)
             [] OTHER -> Substitute(dh(32, a, b), Known) \o Substitute(xh(32, a, b), Known)
    BY DEF BeginPhase, addDHRange, addXHRange, addDH16Range, addXH16Range, addDH8Range, addXH8Range
  <2> HIDE DEF a, b, dh, xh
  <2>3. QED BY <2>1, <2>2
<1>5. PICK w \in Widths : \E a, b : gf2' = gf2 \o (Substitute(dh(w, a, b), Known) \o Substitute(xh(w, a, b), Known))
  BY <1>4
<1>16. PICK a, b : gf2' = gf2 \o (Substitute(dh(w, a, b), Known) \o Substitute(xh(w, a, b), Known))
  BY <1>5
<1>6. dh(w, a, b) \in Seq(EquationsOf(original)) /\ xh(w, a, b) \in Seq(EquationsOf(original))
  BY <1>2, HashesOf DEF InputRight
<1> HIDE DEF dh, xh
<1>7. /\ gf2' \in Seq(Equation)
      /\ RightOf(original', cellState') => gf2' \in Seq(EquationsOf(original'))
  BY <1>1, <1>3, <1>16, <1>6, AddedKnown DEF InFixpoint
<1>8. SystemTyped'
  BY <1>2, <1>3, <1>7 DEF SystemTyped
<1>9. ControlRight'
  BY <1>1, <1>2, <1>3, IterAssumption DEF ControlRight, Pcs, Restarting
<1>10. BoundRight'
  <2>1. queue' = <<>> /\ DOMAIN found' = {}
    BY <1>2, <1>3 DEF BoundRight
  <2>2. QED BY <2>1 DEF BoundRight, Values
<1>11. DonatedKept'
  BY <1>1, <1>2, <1>3 DEF DonatedKept, Keeps
<1>12. EquationsRight'
  BY <1>1, <1>7 DEF EquationsRight
<1>13. CountRight'
  BY <1>1, <1>2, <1>3 DEF CountRight, Assigned
<1>14. VerdictRight'
  BY <1>2, <1>3 DEF VerdictRight
<1>15. QED BY <1>1, <1>8, <1>9, <1>10, <1>11, <1>12, <1>13, <1>14 DEF SolverSound

LEMMA PositionsOf ==
  ASSUME NEW T, NEW s \in Seq(T)
  PROVE  Positions(s) \in Seq(DOMAIN s) /\ ToSet(Positions(s)) = DOMAIN s
<1>1. PICK n \in Nat : n = Len(s) /\ DOMAIN s = 1..n
  OBVIOUS
<1>2. Positions(s) = [i \in 1..n |-> i]
  BY <1>1 DEF Positions
<1>3. [i \in 1..n |-> i] \in Seq(1..n) /\ Len([i \in 1..n |-> i]) = n
  OBVIOUS
<1>4. ToSet([i \in 1..n |-> i]) = 1..n
  BY DEF ToSet
<1>5. QED BY <1>1, <1>2, <1>3, <1>4

LEMMA RequeueOf ==
  ASSUME intLines \in Seq(Line), NEW rest \in Seq(DOMAIN intLines), NEW cells \in Seq(Cells)
  PROVE  Requeue(rest, cells) \in Seq(DOMAIN intLines)
<1> DEFINE D == DOMAIN intLines
           ls == FlattenSeq([j \in DOMAIN cells |-> LinesOn(cells[j])])
           fresh(i) == ls[i] \notin ToSet(rest) /\ \A j \in 1..(i - 1) : ls[j] # ls[i]
           kept == Among(Positions(ls), {i \in DOMAIN ls : fresh(i)})
           more == [i \in DOMAIN kept |-> ls[kept[i]]]
<1>1. \A x : LinesOn(x) \in Seq(D)
  <2>1. Positions(intLines) \in Seq(D)
    BY PositionsOf
  <2> HIDE DEF D
  <2>2. QED BY <2>1, AmongOf DEF LinesOn
<1> HIDE DEF D
<1>2. ls \in Seq(D)
  <2>1. PICK n \in Nat : n = Len(cells) /\ DOMAIN cells = 1..n
    OBVIOUS
  <2>2. [j \in 1..n |-> LinesOn(cells[j])] \in Seq(Seq(D))
    BY <1>1, <2>1
  <2>3. QED BY <2>1, <2>2, FlattenOf
<1> HIDE DEF ls
<1>3. kept \in Seq(DOMAIN ls)
  <2>1. Positions(ls) \in Seq(DOMAIN ls)
    BY <1>2, PositionsOf
  <2>2. QED BY <2>1, AmongOf
<1> HIDE DEF kept
<1>4. more \in Seq(D)
  <2>1. PICK n \in Nat : n = Len(kept) /\ DOMAIN kept = 1..n
    BY <1>3
  <2>2. \A i \in 1..n : kept[i] \in DOMAIN ls
    BY <1>3, <2>1
  <2>3. \A i \in 1..n : ls[kept[i]] \in D
    BY <1>2, <2>2
  <2>4. [i \in 1..n |-> ls[kept[i]]] \in Seq(D)
    BY <2>3
  <2>5. QED BY <2>1, <2>4
<1>5. Requeue(rest, cells) = rest \o more
  BY DEF Requeue, more, kept, ls
<1> HIDE DEF more
<1>6. rest \in Seq(D)
  BY DEF D
<1>7. Requeue(rest, cells) \in Seq(D)
  BY <1>4, <1>5, <1>6
<1>8. QED BY <1>7 DEF D

\* Steps that leave the system and the bounds alone.
LEMMA CalmSound ==
  ASSUME SolverSound, Next, UNCHANGED <<rounds, search, files, blocks>>,
         pc \notin {"ready", "intBound"}, UNCHANGED <<system, queue, found, method>>,
         result' \in Results, result'.determined = result.determined, result'.feasible = result.feasible,
         pc' # "intBound", ControlRight', VerdictRight'
  PROVE  SolverSound'
<1>1. /\ InputRight' /\ FilesRight' /\ SearchRight' /\ StackNested' /\ BaselineOrBlock'
      /\ ~Restarting /\ ~Restarting' /\ pc' # "ready"
      /\ config' = config /\ original' = original /\ donated' = donated
  BY FixpointFrame
<1>2. SystemTyped /\ ControlRight /\ BoundRight /\ EquationsRight /\ CountRight /\ DonatedKept
  BY DEF SolverSound
<1>3. pc \in InFixpoint
  BY <1>2, NextGoes DEF ControlRight
<1>4. gf2' = gf2 /\ intLines' = intLines /\ cellState' = cellState
  BY DEF system
<1>5. SystemTyped'
  BY <1>2, <1>4 DEF SystemTyped
<1>6. BoundRight'
  <2>1. queue' = <<>> /\ DOMAIN found' = {}
    BY <1>2 DEF BoundRight
  <2>2. QED BY <2>1 DEF BoundRight, Values
<1>7. DonatedKept'
  BY <1>1, <1>2, <1>4 DEF DonatedKept, Keeps
<1>8. EquationsRight'
  <2>1. RightOf(original, cellState) => gf2 \in Seq(EquationsOf(original))
    BY <1>2, <1>3 DEF EquationsRight, Restarting, InFixpoint
  <2>2. QED BY <1>1, <1>4, <2>1 DEF EquationsRight
<1>9. CountRight'
  BY <1>1, <1>2, <1>4 DEF CountRight, Assigned
<1>10. QED BY <1>1, <1>5, <1>6, <1>7, <1>8, <1>9 DEF SolverSound

LEMMA PhasesOverSound ==
  ASSUME SolverSound, PhasesOver, UNCHANGED <<rounds, search, files, blocks>> PROVE SolverSound'
<1>1. Next
  BY DEF Next
<1>2. /\ pc = "phase" /\ pc' = "verify"
      /\ UNCHANGED <<config, system, result, method, phase, iter, queue, found, restart>>
  BY DEF PhasesOver, input, bound, search
<1>3. SystemTyped /\ ControlRight /\ VerdictRight
  BY DEF SolverSound
<1>4. ControlRight'
  <2>1. Phases' = Phases
    BY <1>1, FixpointFrame
  <2>2. QED BY <1>2, <1>3, <2>1 DEF ControlRight, Pcs, Restarting
<1>5. VerdictRight'
  BY <1>2, <1>3 DEF VerdictRight
<1>6. QED BY <1>1, <1>2, <1>3, <1>4, <1>5, CalmSound DEF SystemTyped

LEMMA EndPhaseSound ==
  ASSUME SolverSound, EndPhase, UNCHANGED <<rounds, search, files, blocks>> PROVE SolverSound'
<1>1. Next
  BY DEF Next
<1>2. /\ pc = "phaseEnd"
      /\ (pc' = "verify" /\ phase' = phase) \/ (pc' = "phase" /\ phase' = phase + 1)
      /\ UNCHANGED <<config, system, result, method, iter, queue, found, restart>>
  BY DEF EndPhase, input, bound, search
<1>3. SystemTyped /\ ControlRight /\ VerdictRight
  BY DEF SolverSound
<1>4. ControlRight'
  <2>1. Phases' = Phases
    BY <1>1, FixpointFrame
  <2>2. method = "cascade" /\ phase \in 0..Len(Phases) /\ Len(Phases) \in Nat
    <3>1. Len(Phases) \in Nat
      BY DEF Phases
    <3>2. QED BY <1>2, <1>3, <3>1 DEF ControlRight
  <2>3. phase' \in 0..(Len(Phases) + 1)
    BY <1>2, <2>2
  <2>4. QED BY <1>2, <1>3, <2>1, <2>2, <2>3 DEF ControlRight, Pcs, Restarting
<1>5. VerdictRight'
  BY <1>2, <1>3 DEF VerdictRight
<1>6. QED BY <1>1, <1>2, <1>3, <1>4, <1>5, CalmSound DEF SystemTyped

LEMMA VerifySound ==
  ASSUME SolverSound, Verify, UNCHANGED <<rounds, search, files, blocks>> PROVE SolverSound'
<1>1. Next
  BY DEF Next
<1>2. /\ pc = "verify" /\ pc' = AfterVerify
      /\ UNCHANGED <<config, system, method, phase, iter, queue, found, restart>>
  BY DEF Verify, input, bound, search
<1>3. SystemTyped /\ ControlRight /\ VerdictRight
  BY DEF SolverSound
<1>4. /\ result' \in Results /\ result'.determined = result.determined
      /\ result'.feasible = result.feasible /\ result'.bhVerified = (cellState = original)
  <2> DEFINE right == \A x \in Assigned : cellState[x] = original[x]
             same == cellState = original
  <2>1. result' = [result EXCEPT !.correct = right, !.bhVerified = same]
    BY DEF Verify
  <2>2. right \in BOOLEAN /\ same \in BOOLEAN /\ result \in Results
    BY <1>3 DEF SystemTyped
  <2> HIDE DEF right, same
  <2>3. /\ result' \in Results /\ result'.determined = result.determined
        /\ result'.feasible = result.feasible /\ result'.bhVerified = same
    BY <2>1, <2>2 DEF Results
  <2>4. QED BY <2>3 DEF same
<1>5. pc' \in {"round", "done"} /\ (pc' = "round" => config.hybrid)
  BY <1>2 DEF AfterVerify
<1>6. ControlRight'
  <2>1. Phases' = Phases
    BY <1>1, FixpointFrame
  <2>2. QED BY <1>2, <1>3, <1>5, <2>1 DEF ControlRight, Pcs, Restarting
<1>7. VerdictRight'
  <2>1. original' = original /\ cellState' = cellState
    BY DEF Verify, input, system
  <2>2. QED BY <1>4, <1>5, <2>1 DEF VerdictRight
<1>8. QED BY <1>1, <1>2, <1>4, <1>5, <1>6, <1>7, CalmSound

\* Counting some cells changes nothing else of a result.
LEMMA ResultCounted ==
  \A r \in Results, k \in Nat : \A s :
    s = [r EXCEPT !.determined = @ + k] =>
      /\ s \in Results /\ s.determined = r.determined + k
      /\ s.feasible = r.feasible /\ s.bhVerified = r.bhVerified
<1>1. TAKE r \in Results, k \in Nat
<1>2. TAKE s
<1>3. HAVE s = [r EXCEPT !.determined = @ + k]
<1>4. r.determined \in Int /\ r.determined + k \in Int
  BY DEF Results
<1>5. QED BY <1>3, <1>4 DEF Results

\* A deduction whose cells are counted and substituted at once.
LEMMA CountedSound ==
  ASSUME SolverSound, Next, UNCHANGED <<rounds, search, files, blocks>>,
         pc \in {"gauss", "cross"}, method' = method,
         NEW new, Values(new), DOMAIN new \subseteq Unset(cellState), AssignCells(new),
         gf2' = Substitute(gf2, new),
         result' = [result EXCEPT !.determined = @ + Count(new)],
         pc' \notin {"done", "ready"}, queue' \in Seq(DOMAIN intLines), pc' # "intBound" => queue' = <<>>,
         DOMAIN found' = {}, ControlRight'
  PROVE  SolverSound'
<1>1. /\ InputRight' /\ FilesRight' /\ SearchRight' /\ StackNested' /\ BaselineOrBlock'
      /\ ~Restarting /\ ~Restarting' /\ UNCHANGED input
      /\ config' = config /\ original' = original /\ donated' = donated
  <2>1. UNCHANGED input
    BY NextGoes DEF SolverSound, ControlRight
  <2>2. QED BY <2>1, FixpointFrame
<1>2. /\ InputRight /\ SystemTyped /\ ControlRight /\ BoundRight /\ EquationsRight /\ CountRight
      /\ VerdictRight /\ DonatedKept
  BY DEF SolverSound
<1>3. cellState \in CellStates /\ intLines \in Seq(Line) /\ result \in Results
  BY <1>2 DEF SystemTyped
<1>4. /\ cellState' \in CellStates /\ intLines' \in Seq(Line) /\ DOMAIN intLines' = DOMAIN intLines
      /\ Cardinality(Assigned') = Cardinality(Assigned) + Cardinality(DOMAIN new)
  BY <1>3, LearnOf
<1>5. /\ gf2' \in Seq(Equation) /\ DonatedKept'
      /\ RightOf(original', cellState') => gf2' \in Seq(EquationsOf(original'))
  <2>1. Keeps(cellState)
    BY <1>2 DEF DonatedKept
  <2>2. QED BY <1>1, <2>1, LearnKeeps DEF InFixpoint
<1>6. Cardinality(DOMAIN new) \in Nat /\ Cardinality(DOMAIN donated) \in Nat /\ Cardinality(Assigned) \in Nat
  <2>1. DOMAIN new \in SUBSET Cells /\ DOMAIN donated \in SUBSET Cells
    BY <1>2 DEF InputRight, Values
  <2>2. QED BY <2>1, FiniteSubset, AssignedOf
<1>7. /\ result' \in Results /\ result'.determined = result.determined + Cardinality(DOMAIN new)
      /\ result'.feasible = result.feasible /\ result'.bhVerified = result.bhVerified
  <2> DEFINE k == Cardinality(DOMAIN new)
  <2>1. result' = [result EXCEPT !.determined = @ + k]
    BY DEF Count
  <2> HIDE DEF k
  <2>2. k \in Nat
    BY <1>6 DEF k
  <2>3. /\ result' \in Results /\ result'.determined = result.determined + k
        /\ result'.feasible = result.feasible /\ result'.bhVerified = result.bhVerified
    BY ONLY <1>3, <2>1, <2>2, ResultCounted, Zenon
  <2>4. QED BY <2>3 DEF k
<1>8. SystemTyped'
  BY <1>4, <1>5, <1>7 DEF SystemTyped
<1>9. BoundRight'
  BY <1>4 DEF BoundRight, Values
<1>10. EquationsRight'
  BY <1>1, <1>5 DEF EquationsRight
<1>11. CountRight'
  <2>1. Cardinality(DOMAIN found) = 0 /\ Cardinality(DOMAIN found') = 0
    BY <1>2, FS_EmptySet DEF BoundRight
  <2>2. result.determined \in Int
    BY <1>3 DEF Results
  <2>3. QED BY <1>1, <1>2, <1>4, <1>6, <1>7, <2>1, <2>2 DEF CountRight
<1>12. VerdictRight'
  BY <1>2, <1>7 DEF VerdictRight
<1>13. QED BY <1>1, <1>5, <1>8, <1>9, <1>10, <1>11, <1>12 DEF SolverSound

LEMMA GaussPassSound ==
  ASSUME SolverSound, GaussPass, UNCHANGED <<rounds, search, files, blocks>> PROVE SolverSound'
<1>1. Next
  BY DEF Next, Iteration
<1>2. SystemTyped /\ ControlRight
  BY DEF SolverSound
<1> DEFINE new == gaussElim(gf2)
<1>3. /\ pc = "gauss" /\ pc' = "intBound" /\ iter' = iter + 1 /\ method' = method /\ phase' = phase
      /\ config' = config /\ restart' = restart
      /\ queue' = Positions(intLines) /\ found' = NoneFound
      /\ AssignCells(new) /\ gf2' = Substitute(gf2, new)
      /\ result' = [result EXCEPT !.determined = @ + Count(new)]
  BY DEF GaussPass, input, search
<1>4. Values(new) /\ DOMAIN new \subseteq Unset(cellState)
  BY <1>2, GaussTyped DEF SystemTyped
<1> HIDE DEF new
<1>5. queue' \in Seq(DOMAIN intLines) /\ DOMAIN found' = {}
  BY <1>2, <1>3, PositionsOf, NoneKnown DEF SystemTyped
<1>6. ControlRight'
  <2>1. Phases' = Phases
    BY <1>1, FixpointFrame
  <2>2. iter' \in 0..MaxIter
    BY <1>2, <1>3, IterAssumption DEF ControlRight
  <2>3. QED BY <1>2, <1>3, <2>1, <2>2 DEF ControlRight, Pcs, Restarting
<1>7. QED BY <1>1, <1>3, <1>4, <1>5, <1>6, CountedSound

LEMMA AfterFixpointGoes ==
  ASSUME method \in {"solve", "cascade", "hybrid"}
  PROVE  /\ AfterFixpoint \in {"verify", "phaseEnd", "axes"}
         /\ AfterFixpoint = "phaseEnd" => method = "cascade"
         /\ AfterFixpoint = "axes" => method = "hybrid"
BY DEF AfterFixpoint

\* An inconsistency found.
LEMMA InconsistentSound ==
  ASSUME SolverSound, Next, UNCHANGED <<rounds, search, files, blocks>>,
         pc \in {"intBound", "cross"}, Inconsistent, UNCHANGED <<system, method, phase, iter>>,
         queue' = <<>>, DOMAIN found' = {}
  PROVE  SolverSound'
<1>1. /\ InputRight' /\ FilesRight' /\ SearchRight' /\ StackNested' /\ BaselineOrBlock'
      /\ ~Restarting /\ ~Restarting' /\ pc' # "ready" /\ restart' = restart
      /\ config' = config /\ original' = original /\ donated' = donated /\ Phases' = Phases
  BY FixpointFrame
<1>2. /\ SystemTyped /\ ControlRight /\ EquationsRight /\ VerdictRight /\ DonatedKept
  BY DEF SolverSound
<1>3. /\ result' \in Results /\ result'.determined = result.determined
      /\ result'.feasible = FALSE /\ result'.bhVerified = result.bhVerified
  BY <1>2 DEF Inconsistent, SystemTyped, Results
<1>4. /\ pc' \in {"verify", "done", "axes"} /\ (pc' = "axes" => method = "hybrid")
      /\ (pc' = "done" => method = "cascade")
  BY <1>2 DEF Inconsistent, ControlRight
<1>5. gf2' = gf2 /\ intLines' = intLines /\ cellState' = cellState
  BY DEF system
<1>6. SystemTyped'
  BY <1>2, <1>3, <1>5 DEF SystemTyped
<1>7. ControlRight'
  BY <1>1, <1>2, <1>4 DEF ControlRight, Pcs, Restarting
<1>8. BoundRight'
  BY DEF BoundRight, Values
<1>9. DonatedKept'
  BY <1>1, <1>2, <1>5 DEF DonatedKept, Keeps
<1>10. EquationsRight'
  <2>1. RightOf(original, cellState) => gf2 \in Seq(EquationsOf(original))
    BY <1>2 DEF EquationsRight, Restarting
  <2>2. QED BY <1>1, <1>5, <2>1 DEF EquationsRight
<1>11. CountRight'
  BY <1>3 DEF CountRight
<1>12. VerdictRight'
  <2>1. method # "hybrid" => ~result.bhVerified
    BY <1>2 DEF VerdictRight
  <2>2. QED BY <1>3, <1>4, <2>1 DEF VerdictRight
<1>13. QED BY <1>1, <1>6, <1>7, <1>8, <1>9, <1>10, <1>11, <1>12 DEF SolverSound

LEMMA BoundViolatedSound ==
  ASSUME SolverSound, BoundViolated, UNCHANGED <<rounds, search, files, blocks>> PROVE SolverSound'
<1>1. Next
  BY DEF Next, Iteration
<1>2. /\ pc = "intBound" /\ Inconsistent /\ UNCHANGED <<system, method, phase, iter>>
      /\ queue' = <<>> /\ found' = NoneFound
  BY DEF BoundViolated
<1>3. QED BY <1>1, <1>2, NoneKnown, InconsistentSound

LEMMA CrossPassSound ==
  ASSUME SolverSound, CrossPass, UNCHANGED <<rounds, search, files, blocks>> PROVE SolverSound'
<1>1. Next
  BY DEF Next, Iteration
<1>2. SystemTyped /\ ControlRight /\ BoundRight
  BY DEF SolverSound
<1>3. /\ pc = "cross" /\ UNCHANGED <<config, method, phase, iter, queue, found, restart>>
  BY DEF CrossPass, input, bound, search
<1>4. queue' = <<>> /\ DOMAIN found' = {}
  BY <1>2, <1>3 DEF BoundRight
<1>5. CASE \E x \in Cells \ Assigned : CanBe(x) = {}
  <2>1. Inconsistent /\ UNCHANGED system
    BY <1>5 DEF CrossPass
  <2>2. QED BY <1>1, <1>3, <1>4, <2>1, InconsistentSound
<1>6. CASE ~\E x \in Cells \ Assigned : CanBe(x) = {}
  <2> DEFINE new == [x \in Deducible |-> CHOOSE v \in CanBe(x) : TRUE]
  <2>1. /\ AssignDeducible(new)
        /\ pc' = IF result'.determined \in {before.iteration, kN} \/ iter = MaxIter
                 THEN AfterFixpoint ELSE "gauss"
    BY <1>6 DEF CrossPass
  <2>2. Values(new) /\ DOMAIN new \subseteq Unset(cellState)
    BY <1>2, DeducibleFree
  <2> HIDE DEF new
  <2>3. /\ pc' \in {"gauss", "verify", "phaseEnd", "axes"} /\ (pc' = "gauss" => iter < MaxIter)
        /\ (pc' = "phaseEnd" => method = "cascade") /\ (pc' = "axes" => method = "hybrid")
    <3>1. iter \in 0..MaxIter /\ method \in {"solve", "cascade", "hybrid"}
      BY <1>2 DEF ControlRight
    <3>2. QED BY <2>1, <3>1, AfterFixpointGoes, IterAssumption
  <2>4. ControlRight'
    <3>1. Phases' = Phases
      BY <1>1, FixpointFrame
    <3>2. QED BY <1>2, <1>3, <2>3, <3>1 DEF ControlRight, Pcs, Restarting
  <2>5. queue' \in Seq(DOMAIN intLines)
    BY <1>4
  <2>6. /\ AssignCells(new) /\ gf2' = Substitute(gf2, new)
        /\ result' = [result EXCEPT !.determined = @ + Count(new)]
    BY <2>1 DEF AssignDeducible
  <2>7. QED BY <1>1, <1>3, <1>4, <2>2, <2>3, <2>4, <2>5, <2>6, CountedSound
<1>7. QED BY <1>5, <1>6

LEMMA BoundLineOf ==
  ASSUME SystemTyped, BoundRight, BoundLine
  PROVE  LET l == intLines[Head(queue)] IN
         /\ l \in Line /\ ~Violated(l) /\ Tail(queue) \in Seq(DOMAIN intLines)
         /\ \E cells \in Seq(Cells) : \E new :
              /\ Values(new) /\ DOMAIN new \subseteq Unset(cellState)
              /\ DOMAIN new = (IF Forces(l) THEN l.cells \cap Unset(cellState) ELSE {})
              /\ \A x \in DOMAIN new : new[x] = IF l.rho = 0 THEN 0 ELSE 1
              /\ AssignCells(new)
              /\ queue' = Requeue(Tail(queue), cells)
              /\ found' = Joined(found, new)
<1> DEFINE l == intLines[Head(queue)]
           v == IF l.rho = 0 THEN 0 ELSE 1
           cells == IF Forces(l) THEN Among(RowMajor, l.cells \ Assigned) ELSE <<>>
           new == [x \in ToSet(cells) |-> v]
<1>1. l \in Line /\ Tail(queue) \in Seq(DOMAIN intLines)
  BY HeadLine DEF BoundLine
<1>2. /\ ~Violated(l) /\ AssignCells(new) /\ queue' = Requeue(Tail(queue), cells)
      /\ found' = Joined(found, new)
  BY DEF BoundLine
<1>3. v \in {0, 1}
  OBVIOUS
<1>4. \A x \in DOMAIN new : new[x] = v
  OBVIOUS
<1> HIDE DEF l, v
<1>5. /\ Values(new) /\ DOMAIN new \subseteq Unset(cellState)
      /\ DOMAIN new = (IF Forces(l) THEN l.cells \cap Unset(cellState) ELSE {})
      /\ cells \in Seq(Cells)
  BY <1>1, <1>3, BoundFree
<1> HIDE DEF new, cells
<1>6. QED BY <1>1, <1>2, <1>4, <1>5 DEF l, v

LEMMA BoundLineSound ==
  ASSUME SolverSound, BoundLine, UNCHANGED <<rounds, search, files, blocks>> PROVE SolverSound'
<1>0. Next
  BY DEF Next, Iteration
<1>1. /\ InputRight' /\ FilesRight' /\ SearchRight' /\ StackNested' /\ BaselineOrBlock'
      /\ ~Restarting /\ ~Restarting' /\ pc' # "ready" /\ restart' = restart
      /\ config' = config /\ original' = original /\ donated' = donated /\ Phases' = Phases
  BY <1>0, FixpointFrame
<1>2. /\ InputRight /\ SystemTyped /\ ControlRight /\ BoundRight /\ EquationsRight /\ CountRight
      /\ VerdictRight /\ DonatedKept
  BY DEF SolverSound
<1>3. /\ pc = "intBound"
      /\ UNCHANGED <<input, gf2, result, pc, method, phase, iter>>
  BY DEF BoundLine
<1>20. PICK cells \in Seq(Cells) : \E new :
        /\ Values(new) /\ DOMAIN new \subseteq Unset(cellState) /\ AssignCells(new)
        /\ queue' = Requeue(Tail(queue), cells) /\ found' = Joined(found, new)
  BY <1>2, BoundLineOf
<1>4. PICK new :
        /\ Values(new) /\ DOMAIN new \subseteq Unset(cellState) /\ AssignCells(new)
        /\ queue' = Requeue(Tail(queue), cells) /\ found' = Joined(found, new)
  BY <1>20
<1>5. cellState \in CellStates /\ intLines \in Seq(Line)
  BY <1>2 DEF SystemTyped
<1>6. /\ cellState' \in CellStates /\ intLines' \in Seq(Line) /\ DOMAIN intLines' = DOMAIN intLines
      /\ Cardinality(Assigned') = Cardinality(Assigned) + Cardinality(DOMAIN new)
      /\ Extends(cellState', cellState) /\ \A x \in DOMAIN new : cellState'[x] = new[x]
  BY <1>4, <1>5, LearnOf
<1>7. /\ gf2' \in Seq(Equation) /\ DonatedKept'
      /\ RightOf(original', cellState') => gf2' \in Seq(EquationsOf(original'))
  <2>1. Keeps(cellState)
    BY <1>2, <1>3 DEF DonatedKept
  <2>2. QED BY <1>1, <1>3, <1>4, <2>1, LearnKeeps DEF InFixpoint
<1>8. SystemTyped'
  BY <1>2, <1>3, <1>6, <1>7 DEF SystemTyped
<1>9. ControlRight'
  BY <1>1, <1>2, <1>3 DEF ControlRight, Pcs, Restarting
<1>10. \A x \in DOMAIN found : x \in Cells /\ found[x] \in {0, 1} /\ cellState[x] = found[x]
                               /\ cellState[x] # Unassigned
  BY <1>2 DEF BoundRight, Values, Unassigned
<1>11. DOMAIN found \cap DOMAIN new = {}
  BY <1>4, <1>10 DEF Unset
<1>12. /\ DOMAIN found' = DOMAIN found \cup DOMAIN new
       /\ \A x \in DOMAIN found : found'[x] = found[x]
       /\ \A x \in DOMAIN new : found'[x] = new[x]
  BY <1>4, <1>11 DEF Joined
<1>13. Values(found') /\ \A x \in DOMAIN found' : cellState'[x] = found'[x]
  <2>1. \A x \in DOMAIN found : cellState'[x] = found[x]
    BY <1>6, <1>10 DEF Extends
  <2>2. Values(found')
    BY <1>4, <1>10, <1>12 DEF Values
  <2>3. QED BY <1>6, <1>12, <2>1, <2>2
<1>14. queue' \in Seq(DOMAIN intLines')
  <2>1. Tail(queue) \in Seq(DOMAIN intLines)
    BY <1>2, HeadLine DEF BoundLine
  <2>2. QED BY <1>4, <1>5, <1>6, <2>1, RequeueOf
<1>15. BoundRight'
  BY <1>3, <1>13, <1>14 DEF BoundRight
<1>16. EquationsRight'
  BY <1>1, <1>7 DEF EquationsRight
<1>17. CountRight'
  <2> DEFINE F == DOMAIN found
             N == DOMAIN new
             G == DOMAIN found'
  <2>1. F \in SUBSET Cells /\ N \in SUBSET Cells /\ G = F \cup N /\ F \cap N = {}
    BY <1>4, <1>10, <1>11, <1>12 DEF Values
  <2> HIDE DEF F, N, G
  <2>2. /\ IsFiniteSet(F) /\ IsFiniteSet(N) /\ Cardinality(F) \in Nat /\ Cardinality(N) \in Nat
        /\ Cardinality(DOMAIN donated) \in Nat /\ Cardinality(Assigned) \in Nat
    <3>1. DOMAIN donated \in SUBSET Cells
      BY <1>2 DEF InputRight, Values
    <3>2. QED BY <2>1, <3>1, FiniteSubset, AssignedOf
  <2>3. Cardinality(F \cup N) = Cardinality(F) + Cardinality(N) - Cardinality(F \cap N)
    BY <2>2, FS_Union
  <2>4. Cardinality(F \cap N) = 0
    BY <2>1, FS_EmptySet
  <2>5. Cardinality(G) = Cardinality(F) + Cardinality(N)
    BY <2>1, <2>2, <2>3, <2>4
  <2>6. result.determined \in Int
    BY <1>2 DEF SystemTyped, Results
  <2>7. Cardinality(Assigned') = Cardinality(Assigned) + Cardinality(N)
    BY <1>6 DEF N
  <2>8. method # "hybrid" /\ result.feasible /\ pc # "ready" =>
          result.determined + Cardinality(DOMAIN donated) + Cardinality(F) = Cardinality(Assigned)
    BY <1>2 DEF CountRight, F
  <2>9. method # "hybrid" /\ result.feasible /\ pc # "ready" =>
          result.determined + Cardinality(DOMAIN donated) + Cardinality(G) = Cardinality(Assigned')
    BY <2>2, <2>5, <2>6, <2>7, <2>8
  <2>10. QED BY <1>1, <1>3, <2>9 DEF CountRight, G
<1>18. VerdictRight'
  BY <1>2, <1>3 DEF VerdictRight
<1>19. QED BY <1>1, <1>7, <1>8, <1>9, <1>15, <1>16, <1>17, <1>18 DEF SolverSound

LEMMA BoundPassSound ==
  ASSUME SolverSound, BoundPass, UNCHANGED <<rounds, search, files, blocks>> PROVE SolverSound'
<1>0. Next
  BY DEF Next, Iteration
<1>1. /\ InputRight' /\ FilesRight' /\ SearchRight' /\ StackNested' /\ BaselineOrBlock'
      /\ ~Restarting /\ ~Restarting' /\ pc' # "ready" /\ restart' = restart
      /\ config' = config /\ original' = original /\ donated' = donated /\ Phases' = Phases
  BY <1>0, FixpointFrame
<1>2. /\ InputRight /\ SystemTyped /\ ControlRight /\ BoundRight /\ EquationsRight /\ CountRight
      /\ VerdictRight /\ DonatedKept
  BY DEF SolverSound
<1>3. /\ pc = "intBound" /\ queue = <<>> /\ pc' = "cross"
      /\ gf2' = Substitute(gf2, found) /\ found' = NoneFound
      /\ result' = [result EXCEPT !.determined = @ + Count(found)]
      /\ UNCHANGED <<intLines, cellState, method, phase, iter, queue>>
  BY DEF BoundPass
<1>4. gf2 \in Seq(Equation) /\ result \in Results /\ original \in Matrices
  BY <1>2 DEF SystemTyped, InputRight
<1>5. DOMAIN found' = {} /\ Cardinality(DOMAIN found') = 0
  BY <1>3, NoneKnown
<1>6. Cardinality(DOMAIN found) \in Nat /\ Cardinality(DOMAIN donated) \in Nat
  <2>1. DOMAIN found \in SUBSET Cells /\ DOMAIN donated \in SUBSET Cells
    BY <1>2 DEF InputRight, BoundRight, Values
  <2>2. QED BY <2>1, FiniteSubset
<1>7. /\ result' \in Results /\ result'.determined = result.determined + Cardinality(DOMAIN found)
      /\ result'.feasible = result.feasible /\ result'.bhVerified = result.bhVerified
  <2> DEFINE k == Cardinality(DOMAIN found)
  <2>1. result' = [result EXCEPT !.determined = @ + k]
    BY <1>3 DEF Count
  <2> HIDE DEF k
  <2>2. k \in Nat
    BY <1>6 DEF k
  <2>3. /\ result' \in Results /\ result'.determined = result.determined + k
        /\ result'.feasible = result.feasible /\ result'.bhVerified = result.bhVerified
    BY <1>4, <2>1, <2>2 DEF Results
  <2>4. QED BY <2>3 DEF k
<1>8. gf2' \in Seq(Equation)
  BY <1>3, <1>4, SubstituteOf
<1>9. SystemTyped'
  BY <1>2, <1>3, <1>7, <1>8 DEF SystemTyped
<1>10. ControlRight'
  BY <1>1, <1>2, <1>3 DEF ControlRight, Pcs, Restarting
<1>11. BoundRight'
  BY <1>3, <1>5 DEF BoundRight, Values
<1>12. DonatedKept'
  BY <1>1, <1>2, <1>3 DEF DonatedKept, Keeps
<1>13. EquationsRight'
  <2>1. ASSUME RightOf(original, cellState) PROVE gf2' \in Seq(EquationsOf(original))
    <3>1. gf2 \in Seq(EquationsOf(original))
      BY <1>1, <1>2, <1>3, <2>1 DEF EquationsRight
    <3>2. Right(original, found)
      <4>1. \A x \in DOMAIN found : x \in Cells /\ cellState[x] = found[x] /\ cellState[x] # Unassigned
        BY <1>2 DEF BoundRight, Values, Unassigned
      <4>2. QED BY <2>1, <4>1 DEF Right, RightOf
    <3>3. QED BY <1>3, <1>4, <3>1, <3>2, SubstituteRight
  <2>2. QED BY <1>1, <1>3, <2>1 DEF EquationsRight
<1>14. CountRight'
  <2>1. result.determined \in Int
    BY <1>4 DEF Results
  <2>2. Assigned' = Assigned
    BY <1>3 DEF Assigned
  <2>3. Cardinality(Assigned) \in Nat
    BY AssignedOf
  <2>4. method # "hybrid" /\ result.feasible =>
          result.determined + Cardinality(DOMAIN donated) + Cardinality(DOMAIN found) = Cardinality(Assigned)
    BY <1>2, <1>3 DEF CountRight
  <2>5. method' # "hybrid" /\ result'.feasible =>
          result'.determined + Cardinality(DOMAIN donated') + Cardinality(DOMAIN found') = Cardinality(Assigned')
    BY <1>1, <1>3, <1>5, <1>6, <1>7, <2>1, <2>2, <2>3, <2>4
  <2>6. QED BY <2>5 DEF CountRight
<1>15. VerdictRight'
  BY <1>2, <1>3, <1>7 DEF VerdictRight
<1>16. QED BY <1>1, <1>9, <1>10, <1>11, <1>12, <1>13, <1>14, <1>15 DEF SolverSound

LEMMA NextSound ==
  ASSUME SolverSound, Next, UNCHANGED <<rounds, search, files, blocks>> PROVE SolverSound'
BY PreAssignSound, StartCascadeSound, BeginPhaseSound, PhasesOverSound, EndPhaseSound,
   GaussPassSound, BoundLineSound, BoundViolatedSound, BoundPassSound, CrossPassSound, VerifySound
   DEF Next, Iteration

-------------------------------------------------------------------------------
(* The rounds of solveHybrid.                                              *)

LEMMA RoundFrame ==
  ASSUME SolverSound, pc \in {"round", "axes", "axis"},
         UNCHANGED <<input, files, blocks, search, queue, found, phase>>,
         method' = "hybrid", pc' \in {"gauss", "axis", "axes", "round", "roundsOver"},
         iter' \in 0..MaxIter, pc' = "gauss" => iter' < MaxIter
  PROVE  /\ InputRight' /\ FilesRight' /\ StackNested' /\ BaselineOrBlock' /\ CountRight'
         /\ VerdictRight' /\ ControlRight'
         /\ original' = original /\ donated' = donated /\ ~Restarting /\ ~Restarting'
<1>1. /\ InputRight /\ FilesRight /\ ControlRight
  BY DEF SolverSound
<1>2. original' = original /\ donated' = donated /\ config' = config /\ restart' = restart
  BY DEF input, search
<1>3. ~Restarting /\ ~Restarting' /\ Phases' = Phases
  BY <1>2 DEF Restarting, Phases, Phase
<1>4. InputRight'
  BY <1>1, <1>2 DEF InputRight, Values
<1>5. FilesRight'
  BY <1>1, <1>2 DEF FilesRight, files, blocks
<1>6. StackNested' /\ BaselineOrBlock' /\ CountRight' /\ VerdictRight'
  BY <1>3 DEF StackNested, BaselineOrBlock, CountRight, VerdictRight
<1>7. config.hybrid
  BY <1>1 DEF ControlRight
<1>8. ControlRight'
  BY <1>1, <1>2, <1>3, <1>7 DEF ControlRight, Pcs, Restarting
<1>9. QED BY <1>2, <1>3, <1>4, <1>5, <1>6, <1>8

\* Steps of a round that leave the system alone.
LEMMA RoundCalm ==
  ASSUME SolverSound, pc \in {"round", "axes", "axis"},
         UNCHANGED <<input, files, blocks, search, queue, found, phase, system, result>>,
         method' = "hybrid", pc' \in {"gauss", "axis", "axes", "round", "roundsOver"},
         iter' \in 0..MaxIter, pc' = "gauss" => iter' < MaxIter,
         axis' \in 0..4, pc' = "axis" => axis' # 0 /\ lines' \in Seq(DOMAIN AxisLines[axis'])
  PROVE  SolverSound'
<1>1. /\ InputRight' /\ FilesRight' /\ StackNested' /\ BaselineOrBlock' /\ CountRight'
      /\ VerdictRight' /\ ControlRight'
      /\ original' = original /\ donated' = donated /\ ~Restarting /\ ~Restarting'
  BY RoundFrame
<1>2. /\ SystemTyped /\ BoundRight /\ SearchRight /\ DonatedKept /\ EquationsRight
  BY DEF SolverSound
<1>3. gf2' = gf2 /\ intLines' = intLines /\ cellState' = cellState /\ result' = result
  BY DEF system
<1>4. SystemTyped'
  BY <1>2, <1>3 DEF SystemTyped
<1>5. BoundRight'
  <2>1. queue' = <<>> /\ DOMAIN found' = {}
    BY <1>2 DEF BoundRight
  <2>2. QED BY <2>1 DEF BoundRight, Values
<1>6. SearchRight'
  <2>1. base' = base /\ order' = order /\ orderIdx' = orderIdx /\ stack' = stack
    BY DEF search
  <2>2. QED BY <1>1, <1>2, <2>1 DEF SearchRight
<1>7. DonatedKept'
  BY <1>1, <1>2, <1>3 DEF DonatedKept, Keeps
<1>8. EquationsRight'
  <2>1. RightOf(original, cellState) => gf2 \in Seq(EquationsOf(original))
    BY <1>1, <1>2 DEF EquationsRight
  <2>2. QED BY <1>1, <1>3, <2>1 DEF EquationsRight
<1>9. QED BY <1>1, <1>4, <1>5, <1>6, <1>7, <1>8 DEF SolverSound

LEMMA BeginRoundSound ==
  ASSUME SolverSound, BeginRound, UNCHANGED <<files, blocks>> PROVE SolverSound'
<1>1. /\ pc = "round" /\ method' = "hybrid" /\ iter' = 0 /\ pc' = "gauss"
      /\ UNCHANGED <<input, search, queue, found, phase, system, result, axis, lines>>
  BY DEF BeginRound, bound
<1>2. axis \in 0..4
  BY DEF SolverSound, SearchRight
<1>3. QED BY <1>1, <1>2, RoundCalm, IterAssumption

LEMMA BeginAxisSound ==
  ASSUME SolverSound, BeginAxis, UNCHANGED <<files, blocks>> PROVE SolverSound'
<1>0. axis \in 0..4 /\ method = "hybrid" /\ iter \in 0..MaxIter
  BY DEF SolverSound, SearchRight, ControlRight, BeginAxis
<1> DEFINE all == AxisLines[axis + 1]
           unknown == [i \in DOMAIN all |-> Len(Unknowns(all[i]))]
           open == Among(Positions(all), {i \in DOMAIN all : unknown[i] > 0})
<1>1. /\ pc = "axes" /\ pc' = "axis" /\ axis < 4 /\ axis' = axis + 1
      /\ lines' = SortedBy(open, unknown)
      /\ UNCHANGED <<input, search, queue, found, phase, system, result, method, iter>>
  BY DEF BeginAxis, bound
<1>2. axis' \in 1..4
  BY <1>0, <1>1
<1>3. all \in Seq(AxisEntry)
  BY <1>1, <1>2, AxisLinesOf
<1>4. AxisLines[axis'] = all
  BY <1>1
<1> HIDE DEF all
<1>5. open \in Seq(DOMAIN all)
  <2>1. Positions(all) \in Seq(DOMAIN all)
    BY <1>3, PositionsOf
  <2>2. QED BY <2>1, AmongOf
<1> HIDE DEF open, unknown
<1>6. lines' \in Seq(DOMAIN all)
  BY <1>1, <1>5, SortedOf
<1>7. axis' # 0 /\ lines' \in Seq(DOMAIN AxisLines[axis'])
  BY <1>2, <1>4, <1>6
<1>8. QED BY <1>0, <1>1, <1>2, <1>7, RoundCalm

LEMMA EndAxisSound ==
  ASSUME SolverSound, EndAxis, UNCHANGED <<files, blocks>> PROVE SolverSound'
<1>1. axis \in 0..4 /\ method = "hybrid" /\ iter \in 0..MaxIter
  BY DEF SolverSound, SearchRight, ControlRight, EndAxis
<1>2. /\ pc = "axis" /\ pc' \in {"axes", "round", "roundsOver"} /\ axis' \in {0, axis}
      /\ UNCHANGED <<input, search, queue, found, phase, system, result, method, iter>>
  BY DEF EndAxis, bound, NextRound
<1>3. QED BY <1>1, <1>2, RoundCalm

LEMMA EndRoundSound ==
  ASSUME SolverSound, EndRound, UNCHANGED <<files, blocks>> PROVE SolverSound'
<1>1. axis \in 0..4 /\ method = "hybrid" /\ iter \in 0..MaxIter
  BY DEF SolverSound, SearchRight, ControlRight, EndRound
<1>2. /\ pc = "axes" /\ pc' \in {"round", "roundsOver"} /\ axis' = 0
      /\ UNCHANGED <<input, search, queue, found, phase, system, result, method, iter>>
  BY DEF EndRound, bound, NextRound
<1>3. QED BY <1>1, <1>2, RoundCalm

\* The line an axis searches next.
LEMMA HeadOfAxis ==
  ASSUME SearchRight, pc = "axis", lines # <<>>
  PROVE  AxisLines[axis][Head(lines)] \in AxisEntry /\ Tail(lines) \in Seq(DOMAIN AxisLines[axis])
<1> DEFINE all == AxisLines[axis]
<1>1. axis \in 1..4 /\ lines \in Seq(DOMAIN all)
  BY DEF SearchRight
<1>2. all \in Seq(AxisEntry)
  BY <1>1, AxisLinesOf
<1> HIDE DEF all
<1>3. Head(lines) \in DOMAIN all /\ Tail(lines) \in Seq(DOMAIN all)
  BY <1>1
<1>4. all[Head(lines)] \in AxisEntry
  BY <1>2, <1>3
<1>5. QED BY <1>3, <1>4 DEF all

LEMMA AxisLineSound ==
  ASSUME SolverSound, AxisLine, UNCHANGED <<files, blocks>> PROVE SolverSound'
<1> DEFINE line == AxisLines[axis][Head(lines)]
<1>0. /\ SystemTyped /\ BoundRight /\ SearchRight /\ DonatedKept /\ EquationsRight /\ ControlRight
  BY DEF SolverSound
<1>1. axis \in 0..4 /\ method = "hybrid" /\ iter \in 0..MaxIter
  BY <1>0 DEF SearchRight, ControlRight, AxisLine
<1>2. /\ pc = "axis" /\ pc' = "axis" /\ lines # <<>> /\ lines' = Tail(lines)
      /\ UNCHANGED <<input, search, queue, found, phase, method, iter, gf2, axis>>
  BY DEF AxisLine, bound
<1>3. line \in AxisEntry /\ lines' \in Seq(DOMAIN AxisLines[axis])
  BY <1>0, <1>2, HeadOfAxis
<1> HIDE DEF line
<1>4. CASE UNCHANGED <<cellState, intLines, result>>
  <2>1. lines' \in Seq(DOMAIN AxisLines[axis']) /\ axis' # 0
    BY <1>0, <1>2, <1>3 DEF SearchRight
  <2>2. UNCHANGED system
    BY <1>2, <1>4 DEF system
  <2>3. QED BY <1>1, <1>2, <1>4, <2>1, <2>2, RoundCalm
<1>5. CASE \E new \in Found(line) :
             /\ AssignCells(new) /\ result' = [result EXCEPT !.determined = @ + Count(new)]
  <2>1. PICK new \in Found(line) :
             /\ AssignCells(new) /\ result' = [result EXCEPT !.determined = @ + Count(new)]
    BY <1>5
  <2>2. Values(new) /\ DOMAIN new \subseteq Unset(cellState)
    BY <1>3, FoundFree
  <2>3. /\ InputRight' /\ FilesRight' /\ StackNested' /\ BaselineOrBlock' /\ CountRight'
        /\ VerdictRight' /\ ControlRight'
        /\ original' = original /\ donated' = donated /\ ~Restarting /\ ~Restarting'
    BY <1>1, <1>2, RoundFrame
  <2>4. cellState \in CellStates /\ intLines \in Seq(Line) /\ result \in Results
    BY <1>0 DEF SystemTyped
  <2>5. /\ cellState' \in CellStates /\ intLines' \in Seq(Line)
    BY <2>1, <2>2, <2>4, LearnOf
  <2>6. /\ gf2' \in Seq(Equation) /\ DonatedKept'
        /\ RightOf(original', cellState') => gf2' \in Seq(EquationsOf(original'))
    <3>1. Keeps(cellState)
      BY <1>0, <1>2 DEF DonatedKept
    <3>2. QED BY <1>2, <2>1, <2>2, <2>3, <3>1, LearnKeeps
  <2>7. result' \in Results
    <3>1. DOMAIN new \in SUBSET Cells
      BY <2>2 DEF Values
    <3>2. PICK k \in Nat : k = Count(new)
      BY <3>1, FiniteSubset DEF Count
    <3>3. result' = [result EXCEPT !.determined = @ + k]
      BY <2>1, <3>2
    <3>4. QED BY <2>4, <3>3 DEF Results
  <2>8. SystemTyped'
    BY <2>5, <2>6, <2>7 DEF SystemTyped
  <2>9. BoundRight'
    <3>1. queue' = <<>> /\ DOMAIN found' = {}
      BY <1>0, <1>2 DEF BoundRight
    <3>2. QED BY <3>1 DEF BoundRight, Values
  <2>10. SearchRight'
    <3>1. base' = base /\ order' = order /\ orderIdx' = orderIdx /\ stack' = stack
      BY <1>2 DEF search
    <3>2. QED BY <1>0, <1>2, <1>3, <2>3, <3>1 DEF SearchRight
  <2>11. EquationsRight'
    BY <2>3, <2>6 DEF EquationsRight
  <2>12. QED BY <2>3, <2>6, <2>8, <2>9, <2>10, <2>11 DEF SolverSound
<1>6. QED BY <1>4, <1>5 DEF AxisLine, line

-------------------------------------------------------------------------------
(* The restarts of solveHybrid.                                            *)

LEMMA KeepsOn ==
  ASSUME InputRight, NEW c, NEW d, Extends(c, d), Keeps(d) PROVE Keeps(c)
<1>1. ASSUME NEW x \in DOMAIN donated PROVE c[x] = donated[x]
  <2>1. x \in Cells /\ donated[x] \in {0, 1} /\ d[x] = donated[x]
    BY DEF InputRight, Values, Keeps
  <2>2. QED BY <2>1 DEF Extends, Unassigned
<1>2. QED BY <1>1 DEF Keeps

\* The nesting of the snapshots below the cells of now.
Nested ==
  \A k \in DOMAIN stack :
    /\ Extends(stack[k].cells, base.cells)
    /\ stack[k].cells[stack[k].cell] = Unassigned
    /\ Seen(k + 1)[stack[k].cell] = stack[k].value
    /\ Extends(Seen(k + 1), stack[k].cells)

\* What a step of the restarts has to respect.
LEMMA RestartFrame ==
  ASSUME SolverSound, Restarting,
         UNCHANGED <<input, files, blocks, queue, found, phase, iter, method, base, crcLines, axis>>,
         pc' \in {"shuffle", "search", "undefined", "final"}, restart' \in Nat,
         pc' = "search" => restart' > 0,
         gf2' \in Seq(Equation), intLines' \in Seq(Line), cellState' \in CellStates, result' \in Results,
         order' \in Seq(Cells), orderIdx' \in Nat \ {0}, stack' \in Seq(Decisions),
         Extends(cellState', base.cells), pc' = "search" => Nested', BaselineOrBlock'
  PROVE  SolverSound'
<1>1. /\ InputRight /\ FilesRight /\ ControlRight /\ BoundRight /\ SearchRight
      /\ DonatedKept /\ EquationsRight
  BY DEF SolverSound
<1>2. /\ original' = original /\ donated' = donated /\ config' = config
  BY DEF input
<1>3. method = "hybrid" /\ pc \notin {"ready", "intBound"} /\ config.hybrid
  BY <1>1 DEF ControlRight, Restarting
<1>4. InputRight'
  BY <1>1, <1>2 DEF InputRight, Values
<1>5. FilesRight'
  BY <1>1, <1>2 DEF FilesRight, files, blocks
<1>6. Phases' = Phases
  BY <1>2 DEF Phases, Phase
<1>7. ControlRight'
  BY <1>1, <1>2, <1>3, <1>6 DEF ControlRight, Pcs, Restarting
<1>8. BoundRight'
  <2>1. queue' = <<>> /\ DOMAIN found' = {}
    BY <1>1, <1>3 DEF BoundRight
  <2>2. QED BY <2>1 DEF BoundRight, Values
<1>9. SystemTyped'
  BY DEF SystemTyped
<1>10. SearchRight'
  BY <1>1, <1>2 DEF SearchRight
<1>11. StackNested'
  BY DEF StackNested, Nested
<1>12. DonatedKept'
  <2>1. Keeps(base.cells)
    BY <1>1 DEF DonatedKept
  <2>2. Keeps(cellState')
    BY <1>1, <2>1, KeepsOn
  <2>3. QED BY <1>2, <2>1, <2>2 DEF DonatedKept, Keeps
<1>13. EquationsRight'
  <2>1. RightOf(original, base.cells) => base.gf2 \in Seq(EquationsOf(original))
    BY <1>1 DEF EquationsRight
  <2>2. Restarting' \/ pc' \in {"final", "done"}
    BY DEF Restarting
  <2>3. QED BY <1>2, <1>3, <2>1, <2>2 DEF EquationsRight
<1>14. CountRight' /\ VerdictRight'
  BY <1>3 DEF CountRight, VerdictRight
<1>15. QED BY <1>4, <1>5, <1>7, <1>8, <1>9, <1>10, <1>11, <1>12, <1>13, <1>14 DEF SolverSound

\* Facts about the state a restart works in.
LEMMA RestartFacts ==
  ASSUME SolverSound, Restarting
  PROVE  /\ gf2 \in Seq(Equation) /\ intLines \in Seq(Line) /\ cellState \in CellStates
         /\ result \in Results /\ order \in Seq(Cells) /\ orderIdx \in Nat \ {0} /\ stack \in Seq(Decisions)
         /\ base \in Bases /\ Extends(cellState, base.cells) /\ restart \in Nat
         /\ pc = "search" => Nested /\ restart > 0
BY DEF SolverSound, SystemTyped, SearchRight, StackNested, Nested, ControlRight

LEMMA ShuffleNothingSound ==
  ASSUME SolverSound, ShuffleNothing, UNCHANGED <<files, blocks>> PROVE SolverSound'
<1>1. /\ pc = "shuffle" /\ pc' = "undefined"
      /\ UNCHANGED <<input, gf2, intLines, cellState, result, method, phase, iter, queue, found, axis,
                     base, crcLines, restart, order, orderIdx, stack>>
  BY DEF ShuffleNothing, system, bound, rounds, search
<1>2. Restarting
  BY <1>1 DEF Restarting
<1>3. BaselineOrBlock'
  BY <1>1 DEF BaselineOrBlock
<1>4. QED BY <1>1, <1>2, <1>3, RestartFacts, RestartFrame

LEMMA OutOfDecisionsSound ==
  ASSUME SolverSound, OutOfDecisions, UNCHANGED <<files, blocks>> PROVE SolverSound'
<1>1. /\ pc = "search" /\ pc' = "shuffle"
      /\ UNCHANGED <<input, gf2, intLines, cellState, result, method, phase, iter, queue, found, axis,
                     base, crcLines, restart, order, orderIdx, stack>>
  BY DEF OutOfDecisions, system, bound, rounds, search
<1>2. Restarting
  BY <1>1 DEF Restarting
<1>3. BaselineOrBlock'
  BY <1>1 DEF BaselineOrBlock
<1>4. QED BY <1>1, <1>2, <1>3, RestartFacts, RestartFrame

LEMMA CheckpointRowsTyped ==
  ASSUME SolverSound, Restarting PROVE CheckpointRows \in Seq(Equation)
<1>1. base.gf2 \in Seq(Equation)
  BY RestartFacts DEF Bases
<1>2. QED BY <1>1, SubstituteOf DEF CheckpointRows

LEMMA OrderExhaustedSound ==
  ASSUME SolverSound, OrderExhausted, UNCHANGED <<files, blocks>> PROVE SolverSound'
<1>1. /\ pc = "search" /\ pc' = "shuffle" /\ gf2' \in {gf2, CheckpointRows}
      /\ UNCHANGED <<input, intLines, cellState, result, method, phase, iter, queue, found, axis,
                     base, crcLines, restart, order, orderIdx, stack>>
  BY DEF OrderExhausted, Deciding, Searching, bound, rounds, search
<1>2. Restarting
  BY <1>1 DEF Restarting
<1>3. BaselineOrBlock'
  BY <1>1 DEF BaselineOrBlock
<1>4. gf2' \in Seq(Equation)
  BY <1>1, <1>2, RestartFacts, CheckpointRowsTyped
<1>5. QED BY <1>1, <1>2, <1>3, <1>4, RestartFacts, RestartFrame

LEMMA SolvedSound ==
  ASSUME SolverSound, Solved, UNCHANGED <<files, blocks>> PROVE SolverSound'
<1>1. /\ pc = "search" /\ pc' = "final" /\ cellState = original
      /\ result' = [result EXCEPT !.determined = kN]
      /\ UNCHANGED <<input, gf2, intLines, cellState, method, phase, iter, queue, found, axis,
                     base, crcLines, restart, order, orderIdx, stack>>
  BY DEF Solved, Searching, system, bound, rounds, search
<1>2. Restarting
  BY <1>1 DEF Restarting
<1>3. result' \in Results /\ result'.determined = kN
  <2>1. result \in Results
    BY <1>2, RestartFacts
  <2>2. kN \in Int
    BY Numbers
  <2>3. QED BY <1>1, <2>1, <2>2 DEF Results
<1>4. BaselineOrBlock'
  <2>1. original' = original
    BY <1>1 DEF input
  <2>2. QED BY <1>1, <1>3, <2>1 DEF BaselineOrBlock
<1>5. QED BY <1>1, <1>2, <1>3, <1>4, RestartFacts, RestartFrame

LEMMA ExtendsItself == \A c : Extends(c, c)
BY DEF Extends

LEMMA RestartsOverSound ==
  ASSUME SolverSound, RestartsOver, UNCHANGED <<files, blocks>> PROVE SolverSound'
<1>1. /\ pc = "shuffle" /\ pc' = "final"
      /\ cellState' = base.cells /\ intLines' = base.lines /\ gf2' = base.gf2
      /\ result' = [result EXCEPT !.determined = base.determined]
      /\ UNCHANGED <<input, method, phase, iter, queue, found, axis,
                     base, crcLines, restart, order, orderIdx, stack>>
  BY DEF RestartsOver, bound, rounds, search
<1>2. Restarting
  BY <1>1 DEF Restarting
<1>3. base.cells \in CellStates /\ base.lines \in Seq(Line) /\ base.gf2 \in Seq(Equation)
      /\ base.determined \in Int
  BY <1>2, RestartFacts DEF Bases
<1>4. result' \in Results /\ result'.determined = base.determined
  BY <1>1, <1>2, <1>3, RestartFacts DEF Results
<1>5. BaselineOrBlock'
  BY <1>1, <1>4 DEF BaselineOrBlock
<1>6. QED BY <1>1, <1>2, <1>3, <1>4, <1>5, ExtendsItself, RestartFacts, RestartFrame

LEMMA BeginRestartSound ==
  ASSUME SolverSound, BeginRestart, UNCHANGED <<files, blocks>> PROVE SolverSound'
<1>1. /\ pc = "shuffle" /\ pc' = "search" /\ restart' = restart + 1
      /\ restart < NumRestarts /\ Open(base.cells) # <<>>
      /\ cellState' = base.cells /\ intLines' = base.lines /\ stack' = <<>> /\ orderIdx' = 1
      /\ order' = [i \in DOMAIN Open(base.cells) |-> Open(base.cells)[Shuffle(restart, Len(Open(base.cells)))[i]]]
      /\ UNCHANGED <<input, gf2, result, method, phase, iter, queue, found, axis, base, crcLines>>
  BY DEF BeginRestart, bound, rounds
<1>2. Restarting
  BY <1>1 DEF Restarting
<1>3. base.cells \in CellStates /\ base.lines \in Seq(Line) /\ restart \in Nat
  BY <1>2, RestartFacts DEF Bases
<1>4. order' \in Seq(Cells)
  <2> DEFINE open == Open(base.cells)
             at == Shuffle(restart, Len(open))
  <2>1. open \in Seq(Cells) /\ Distinct(open)
    BY OpenOf
  <2>2. open # <<>> /\ order' = [i \in DOMAIN open |-> open[at[i]]]
    BY <1>1
  <2>3. NumRestarts \in Nat
    BY SearchAssumption
  <2> HIDE DEF open
  <2>4. PICK n \in Nat : n = Len(open) /\ DOMAIN open = 1..n
    BY <2>1
  <2>5. n \in 1..kN
    <3>1. ToSet(open) \in SUBSET Cells
      BY <2>1, ToSetOf
    <3>2. Cardinality(ToSet(open)) = n
      BY <2>1, <2>4, DistinctCount
    <3>3. Cardinality(ToSet(open)) <= Cardinality(Cells)
      BY <3>1, FiniteCells, FS_Subset
    <3>4. Cardinality(Cells) = kN
      <4>1. Cardinality(ToSet(RowMajor)) = Len(RowMajor)
        BY RowMajorRight, DistinctCount
      <4>2. QED BY <4>1, RowMajorRight
    <3>5. n # 0
      BY <2>1, <2>2, <2>4, EmptySeq
    <3>6. QED BY <3>2, <3>3, <3>4, <3>5, Numbers
  <2>6. restart \in 0..(NumRestarts - 1)
    BY <1>1, <1>3, <2>3
  <2>7. at \in Bijection(1..n, 1..n)
    BY <2>4, <2>5, <2>6, ShuffleAssumption
  <2> HIDE DEF at
  <2>8. at \in [1..n -> 1..n]
    BY <2>7 DEF Bijection, Injection, IsInjective
  <2>9. \A i \in 1..n : open[at[i]] \in Cells
    BY <2>1, <2>4, <2>8
  <2>10. [i \in 1..n |-> open[at[i]]] \in Seq(Cells)
    BY <2>9
  <2>11. QED BY <2>2, <2>4, <2>10
<1>5. stack' \in Seq(Decisions) /\ Nested'
  BY <1>1 DEF Nested
<1>6. BaselineOrBlock'
  BY <1>1 DEF BaselineOrBlock
<1>7. restart' \in Nat /\ restart' > 0 /\ orderIdx' \in Nat \ {0}
  BY <1>1, <1>3
<1>8. gf2' \in Seq(Equation) /\ result' \in Results
  BY <1>1, <1>2, RestartFacts
<1>9. QED BY <1>1, <1>2, <1>3, <1>4, <1>5, <1>6, <1>7, <1>8, ExtendsItself, RestartFrame

\* Cells that extend the cells of the top extend all below.
LEMMA DecisionOf ==
  ASSUME stack \in Seq(Decisions), NEW k \in DOMAIN stack
  PROVE  /\ stack[k] \in Decisions /\ stack[k].cell \in Cells /\ stack[k].value \in {0, 1}
         /\ stack[k].cells \in CellStates /\ stack[k].lines \in Seq(Line)
         /\ Snapshot(stack[k]) \in Position /\ Snapshot(stack[k]).cells = stack[k].cells
         /\ Snapshot(stack[k]).lines = stack[k].lines
<1> DEFINE d == stack[k]
<1>1. d \in Decisions
  OBVIOUS
<1> HIDE DEF d
<1>2. d.cell \in Cells /\ d.value \in {0, 1} /\ d.cells \in CellStates /\ d.lines \in Seq(Line)
  BY <1>1 DEF Decisions
<1>3. /\ Snapshot(d) \in Position /\ Snapshot(d).cells = d.cells /\ Snapshot(d).lines = d.lines
  BY <1>2 DEF Snapshot, Position
<1>4. QED BY <1>1, <1>2, <1>3 DEF d

\* Extension carries over.
LEMMA ExtendsOn ==
  ASSUME NEW a, NEW b, NEW c, Extends(a, b), Extends(b, c) PROVE Extends(a, c)
<1>1. ASSUME NEW x \in Cells, c[x] # Unassigned PROVE a[x] = c[x]
  <2>1. b[x] = c[x]
    BY <1>1 DEF Extends
  <2>2. a[x] = b[x]
    BY <1>1, <2>1 DEF Extends
  <2>3. QED BY <2>1, <2>2
<1>2. QED BY <1>1 DEF Extends

\* The deepest reversible decision and what its reversal makes.
LEMMA Reversal ==
  ASSUME SolverSound, pc = "search", Reversible # {}
  PROVE  LET k == Max(Reversible)
             t == Try(Snapshot(stack[k]), stack[k].cell, 1)
         IN  /\ k \in DOMAIN stack /\ k \in Reversible /\ \A j \in Reversible : j <= k
             /\ stack[k].cell \in Unset(stack[k].cells)
             /\ t \in Position /\ Extends(t.cells, stack[k].cells) /\ t.cells[stack[k].cell] = 1
<1> DEFINE k == Max(Reversible)
           s == Snapshot(stack[k])
<1>1. stack \in Seq(Decisions) /\ Nested
  BY RestartFacts DEF Restarting
<1>2. PICK n \in Nat : n = Len(stack) /\ DOMAIN stack = 1..n
  BY <1>1
<1>3. Reversible \in SUBSET (0..n)
  BY <1>2 DEF Reversible
<1>4. k \in Reversible /\ \A j \in Reversible : j <= k
  BY <1>3, Extremes
<1>5. k \in DOMAIN stack
  BY <1>4 DEF Reversible
<1> HIDE DEF k
<1>6. s \in Position /\ s.cells = stack[k].cells /\ stack[k].cell \in Cells
  BY <1>1, <1>5, DecisionOf
<1>7. stack[k].cell \in Unset(stack[k].cells)
  BY <1>1, <1>5, <1>6 DEF Nested, Unset
<1> HIDE DEF s
<1>8. stack[k].cell \in Unset(s.cells)
  BY <1>6, <1>7
<1>9. /\ Try(s, stack[k].cell, 1) \in Position /\ Extends(Try(s, stack[k].cell, 1).cells, s.cells)
      /\ Try(s, stack[k].cell, 1).cells[stack[k].cell] = 1
  BY <1>6, <1>8, TryOf
<1>10. QED BY <1>4, <1>5, <1>6, <1>7, <1>9 DEF k, s

\* What backtracking leaves.
LEMMA BacktrackOf ==
  ASSUME SolverSound, pc = "search", Backtrack, base' = base
  PROVE  /\ cellState' \in CellStates /\ intLines' \in Seq(Line) /\ stack' \in Seq(Decisions)
         /\ Extends(cellState', base.cells)
         /\ pc' \in {"search", "shuffle"}
         /\ pc' = "search" => Nested'
<1>1. /\ stack \in Seq(Decisions) /\ Nested /\ cellState \in CellStates /\ intLines \in Seq(Line)
      /\ Extends(cellState, base.cells)
  BY RestartFacts DEF Restarting
<1>2. PICK n \in Nat : n = Len(stack) /\ DOMAIN stack = 1..n
  BY <1>1
<1>3. CASE Reversible # {}
  <2> DEFINE k == Max(Reversible)
             t == Try(Snapshot(stack[k]), stack[k].cell, 1)
             d == [stack[k] EXCEPT !.value = 1]
             below == SubSeq(stack, 1, k - 1)
  <2>1. /\ k \in DOMAIN stack /\ t \in Position /\ Extends(t.cells, stack[k].cells)
        /\ t.cells[stack[k].cell] = 1
    BY <1>3, Reversal
  <2>2. /\ stack' = Append(below, d) /\ cellState' = t.cells /\ intLines' = t.lines /\ pc' = pc
    BY <1>3 DEF Backtrack, Reverse1
  <2> HIDE DEF k, t
  <2>3. stack[k] \in Decisions
    BY <1>1, <2>1, DecisionOf
  <2>4. d \in Decisions /\ d.cell = stack[k].cell /\ d.value = 1 /\ d.cells = stack[k].cells
        /\ d.lines = stack[k].lines
    BY <2>3 DEF Decisions
  <2> HIDE DEF d
  <2>5. PICK h \in 0..(n - 1) : k = h + 1 /\ k - 1 = h
    BY <1>2, <2>1
  <2>6. below \in Seq(Decisions) /\ Len(below) = h /\ \A j \in 1..h : below[j] = stack[j]
    <3>1. below = SubSeq(stack, 1, h)
      BY <2>5
    <3>2. h \in 0..Len(stack)
      BY <1>2, <2>5
    <3>3. stack \in Seq(Decisions) /\ h \in Nat /\ h <= Len(stack)
      BY <1>1, <1>2, <3>2
    <3>4. /\ SubSeq(stack, 1, h) \in Seq(Decisions) /\ Len(SubSeq(stack, 1, h)) = h
          /\ \A j \in 1..h : SubSeq(stack, 1, h)[j] = stack[j]
      BY ONLY <3>3, SMT
    <3>5. QED BY <3>1, <3>4
  <2> HIDE DEF below
  <2>7. /\ stack' \in Seq(Decisions) /\ Len(stack') = k /\ DOMAIN stack' = 1..k
        /\ \A j \in 1..h : stack'[j] = stack[j]
        /\ stack'[k] = d
    <3>1. stack' \in Seq(Decisions) /\ Len(stack') = h + 1 /\ stack'[h + 1] = d
      BY <2>2, <2>4, <2>6
    <3>2. \A j \in 1..h : stack'[j] = stack[j]
      BY <2>2, <2>6
    <3>3. QED BY <2>5, <3>1, <3>2
  <2>8. cellState' \in CellStates /\ intLines' \in Seq(Line)
    BY <2>1, <2>2 DEF Position
  <2>9. Extends(cellState', base.cells)
    <3>1. Extends(stack[k].cells, base.cells)
      BY <1>1, <2>1 DEF Nested
    <3>2. QED BY <2>1, <2>2, <3>1, ExtendsOn
  <2>10. Nested'
    <3>1. ASSUME NEW j \in DOMAIN stack'
          PROVE  /\ Extends(stack'[j].cells, base.cells)
                 /\ stack'[j].cells[stack'[j].cell] = Unassigned
                 /\ Seen(j + 1)'[stack'[j].cell] = stack'[j].value
                 /\ Extends(Seen(j + 1)', stack'[j].cells)
      <4>1. CASE j = k
        <5>1. Seen(j + 1)' = cellState'
          BY <2>1, <1>2, <2>7, <4>1 DEF Seen
        <5>2. QED BY <1>1, <2>1, <2>2, <2>4, <2>7, <4>1, <5>1 DEF Nested
      <4>2. CASE j \in 1..h
        <5>1. stack'[j] = stack[j] /\ j \in DOMAIN stack /\ j + 1 \in DOMAIN stack
          BY <1>2, <2>5, <2>7, <4>2
        <5>2. stack'[j + 1].cells = stack[j + 1].cells /\ j + 1 \in DOMAIN stack'
          <6>1. CASE j + 1 = k
            BY <2>1, <2>4, <2>7, <6>1, <1>2
          <6>2. CASE j + 1 # k
            <7>1. j + 1 \in 1..h /\ j + 1 \in 1..k
              BY <2>5, <4>2, <6>2
            <7>2. QED BY <2>7, <7>1
          <6>3. QED BY <6>1, <6>2
        <5>3. Seen(j + 1)' = Seen(j + 1)
          BY <5>1, <5>2 DEF Seen
        <5>4. QED BY <1>1, <5>1, <5>3 DEF Nested
      <4>3. j = k \/ j \in 1..h
        BY <2>5, <2>7
      <4>4. QED BY <4>1, <4>2, <4>3
    <3>2. QED BY <3>1 DEF Nested
  <2>11. QED BY <2>2, <2>7, <2>8, <2>9, <2>10
<1>4. CASE Reversible = {}
  <2> DEFINE s == IF stack = <<>> THEN Here ELSE Snapshot(stack[1])
  <2>1. cellState' = s.cells /\ intLines' = s.lines /\ stack' = <<>> /\ pc' = "shuffle"
    BY <1>4 DEF Backtrack, GiveUp
  <2>2. CASE stack = <<>>
    BY <1>1, <2>1, <2>2 DEF Here
  <2>3. CASE stack # <<>>
    <3>1. n # 0
      BY <1>1, <1>2, <2>3, EmptySeq
    <3>2. 1 \in DOMAIN stack
      BY <1>2, <3>1
    <3>3. s.cells = stack[1].cells /\ s.lines = stack[1].lines
          /\ stack[1].cells \in CellStates /\ stack[1].lines \in Seq(Line)
      BY <1>1, <2>3, <3>2, DecisionOf
    <3>4. Extends(stack[1].cells, base.cells)
      BY <1>1, <3>2 DEF Nested
    <3>5. QED BY <2>1, <3>3, <3>4
  <2>4. QED BY <2>2, <2>3
<1>5. QED BY <1>3, <1>4

LEMMA WrongBlockSound ==
  ASSUME SolverSound, WrongBlock, UNCHANGED <<files, blocks>> PROVE SolverSound'
<1>1. /\ pc = "search" /\ Backtrack
      /\ UNCHANGED <<input, gf2, result, method, phase, iter, queue, found, axis,
                     base, crcLines, restart, order, orderIdx>>
  BY DEF WrongBlock, Searching, bound, rounds
<1>2. Restarting
  BY <1>1 DEF Restarting
<1>3. /\ cellState' \in CellStates /\ intLines' \in Seq(Line) /\ stack' \in Seq(Decisions)
      /\ Extends(cellState', base.cells)
      /\ pc' \in {"search", "shuffle"}
      /\ pc' = "search" => Nested'
  BY <1>1, BacktrackOf
<1>4. BaselineOrBlock'
  BY <1>3 DEF BaselineOrBlock
<1>5. QED BY <1>1, <1>2, <1>3, <1>4, RestartFacts, RestartFrame

LEMMA CheckpointGainOf ==
  ASSUME SolverSound, pc = "search"
  PROVE  Values(CheckpointGain) /\ DOMAIN CheckpointGain \subseteq Unset(cellState)
<1>1. cellState \in CellStates /\ CheckpointRows \in Seq(Equation)
  BY RestartFacts, CheckpointRowsTyped DEF Restarting
<1>2. QED BY <1>1, GaussTyped DEF CheckpointGain

\* More cells on top keep the nesting.
LEMMA NestedOnTop ==
  ASSUME SolverSound, pc = "search", UNCHANGED <<stack, base>>, Extends(cellState', cellState)
  PROVE  Nested'
<1>1. stack \in Seq(Decisions) /\ Nested
  BY RestartFacts DEF Restarting
<1>2. ASSUME NEW j \in DOMAIN stack
      PROVE  /\ Extends(stack[j].cells, base.cells)
             /\ stack[j].cells[stack[j].cell] = Unassigned
             /\ Seen(j + 1)'[stack[j].cell] = stack[j].value
             /\ Extends(Seen(j + 1)', stack[j].cells)
  <2>1. CASE j + 1 \in DOMAIN stack
    <3>1. Seen(j + 1)' = Seen(j + 1)
      BY <2>1 DEF Seen
    <3>2. QED BY <1>1, <3>1 DEF Nested
  <2>2. CASE j + 1 \notin DOMAIN stack
    <3>1. Seen(j + 1) = cellState /\ Seen(j + 1)' = cellState'
      BY <2>2 DEF Seen
    <3>2. /\ Extends(cellState, stack[j].cells) /\ cellState[stack[j].cell] = stack[j].value
          /\ Extends(stack[j].cells, base.cells)
          /\ stack[j].cells[stack[j].cell] = Unassigned
      BY <1>1, <3>1 DEF Nested
    <3>3. stack[j].cell \in Cells /\ stack[j].value # Unassigned
      BY <1>1, DecisionOf DEF Unassigned
    <3>4. cellState'[stack[j].cell] = cellState[stack[j].cell]
      BY <3>2, <3>3 DEF Extends
    <3>5. QED BY <3>1, <3>2, <3>4, ExtendsOn
  <2>3. QED BY <2>1, <2>2
<1>3. QED BY <1>2 DEF Nested

LEMMA CheckpointSound ==
  ASSUME SolverSound, Checkpoint, UNCHANGED <<files, blocks>> PROVE SolverSound'
<1> DEFINE new == CheckpointGain
           t == propagateIB(AssignIn(Here, new))
<1>1. /\ pc = "search" /\ pc' = pc /\ gf2' = CheckpointRows /\ cellState' = t.cells /\ intLines' = t.lines
      /\ UNCHANGED <<input, result, method, phase, iter, queue, found, axis,
                     base, crcLines, restart, order, orderIdx, stack>>
  BY DEF Checkpoint, Searching, bound, rounds
<1>2. Restarting
  BY <1>1 DEF Restarting
<1>3. Values(new) /\ DOMAIN new \subseteq Unset(cellState)
  BY <1>1, CheckpointGainOf
<1> HIDE DEF new
<1>4. Here \in Position /\ Here.cells = cellState
  BY HereOf DEF SolverSound
<1>5. t \in Position /\ Extends(t.cells, Here.cells)
  BY <1>3, <1>4, AssignedOn
<1> HIDE DEF t
<1>6. cellState' \in CellStates /\ intLines' \in Seq(Line) /\ Extends(cellState', cellState)
  BY <1>1, <1>4, <1>5 DEF Position
<1>7. Nested'
  BY <1>1, <1>6, NestedOnTop
<1>8. Extends(cellState', base.cells)
  BY <1>2, <1>6, RestartFacts, ExtendsOn
<1>9. BaselineOrBlock'
  BY <1>1 DEF BaselineOrBlock
<1>10. gf2' \in Seq(Equation)
  BY <1>1, <1>2, CheckpointRowsTyped
<1>11. QED BY <1>1, <1>2, <1>6, <1>7, <1>8, <1>9, <1>10, RestartFacts, RestartFrame

\* A decision on top keeps the nesting.
LEMMA PushOf ==
  ASSUME SolverSound, pc = "search", base' = base,
         NEW x \in Unset(cellState), NEW v \in {0, 1},
         stack' = Append(stack, Decision(x, v, Here)),
         Extends(cellState', cellState), cellState'[x] = v
  PROVE  stack' \in Seq(Decisions) /\ Nested'
<1> DEFINE d == Decision(x, v, Here)
<1>1. /\ stack \in Seq(Decisions) /\ Nested /\ cellState \in CellStates /\ intLines \in Seq(Line)
      /\ Extends(cellState, base.cells)
  BY RestartFacts DEF Restarting
<1>2. PICK n \in Nat : n = Len(stack) /\ DOMAIN stack = 1..n
  BY <1>1
<1>3. x \in Cells /\ cellState[x] = Unassigned
  BY DEF Unset
<1>4. d \in Decisions /\ d.cell = x /\ d.value = v /\ d.cells = cellState
  BY <1>1, <1>3 DEF Decision, Decisions, Here
<1>5. stack' = Append(stack, d)
  OBVIOUS
<1> HIDE DEF d
<1>6. /\ stack' \in Seq(Decisions) /\ DOMAIN stack' = 1..(n + 1)
      /\ \A j \in 1..n : stack'[j] = stack[j]
      /\ stack'[n + 1] = d
  BY <1>1, <1>2, <1>4, <1>5
<1>7. ASSUME NEW j \in DOMAIN stack'
      PROVE  /\ Extends(stack'[j].cells, base.cells)
             /\ stack'[j].cells[stack'[j].cell] = Unassigned
             /\ Seen(j + 1)'[stack'[j].cell] = stack'[j].value
             /\ Extends(Seen(j + 1)', stack'[j].cells)
  <2>1. CASE j = n + 1
    <3>1. Seen(j + 1)' = cellState'
      BY <1>2, <1>6, <2>1 DEF Seen
    <3>2. QED BY <1>1, <1>3, <1>4, <1>6, <2>1, <3>1
  <2>2. CASE j \in 1..n
    <3>1. stack'[j] = stack[j] /\ j \in DOMAIN stack /\ j + 1 \in DOMAIN stack'
      BY <1>2, <1>6, <2>2
    <3>2. Seen(j + 1)' = Seen(j + 1)
      <4>1. CASE j = n
        <5>1. Seen(j + 1) = cellState
          BY <1>2, <4>1 DEF Seen
        <5>2. Seen(j + 1)' = stack'[n + 1].cells
          BY <3>1, <4>1 DEF Seen
        <5>3. QED BY <1>4, <1>6, <5>1, <5>2
      <4>2. CASE j # n
        <5>1. j + 1 \in 1..n /\ j + 1 \in DOMAIN stack
          BY <1>2, <2>2, <4>2
        <5>2. stack'[j + 1] = stack[j + 1]
          BY <1>6, <5>1
        <5>3. QED BY <3>1, <5>1, <5>2 DEF Seen
      <4>3. QED BY <4>1, <4>2
    <3>3. QED BY <1>1, <3>1, <3>2 DEF Nested
  <2>3. j = n + 1 \/ j \in 1..n
    BY <1>2, <1>6
  <2>4. QED BY <2>1, <2>2, <2>3
<1>8. QED BY <1>6, <1>7 DEF Nested

\* The cell decided next.
LEMMA NextDecision ==
  ASSUME SolverSound, pc = "search", Undecided # {}
  PROVE  Min(Undecided) \in Nat \ {0} /\ order[Min(Undecided)] \in Unset(cellState)
<1>1. order \in Seq(Cells) /\ orderIdx \in Nat \ {0}
  BY RestartFacts DEF Restarting
<1>2. PICK n \in Nat : n = Len(order) /\ DOMAIN order = 1..n
  BY <1>1
<1>3. Undecided \in SUBSET (0..n)
  BY <1>1, <1>2 DEF Undecided
<1>4. Min(Undecided) \in Undecided
  BY <1>3, Extremes
<1>5. Min(Undecided) \in orderIdx..n /\ cellState[order[Min(Undecided)]] = Unassigned
  BY <1>2, <1>4 DEF Undecided
<1>6. Min(Undecided) \in 1..n
  BY <1>1, <1>5
<1>7. order[Min(Undecided)] \in Cells
  BY <1>1, <1>2, <1>6
<1>8. QED BY <1>5, <1>6, <1>7 DEF Unset

\* The ways a decision goes.
LEMMA DecideGoes ==
  ASSUME SolverSound, Decide
  PROVE  /\ pc = "search" /\ gf2' \in {gf2, CheckpointRows} /\ orderIdx' \in Nat \ {0}
         /\ UNCHANGED <<input, result, method, phase, iter, queue, found, axis,
                        base, crcLines, restart, order>>
         /\ \/ pc' = pc /\ \E x \in Unset(cellState) : \E v \in {0, 1} :
                 /\ IF v = 0 THEN Allowed0(Try(Here, x, 0), x)
                    ELSE ~Allowed0(Try(Here, x, 0), x)
                 /\ stack' = Append(stack, Decision(x, v, Here))
                 /\ cellState' = Try(Here, x, v).cells /\ intLines' = Try(Here, x, v).lines
            \/ /\ Backtrack
               /\ \E x \in Unset(cellState) :
                    ~Allowed0(Try(Here, x, 0), x) /\ ~Allowed1(Try(Here, x, 1), x)
<1> DEFINE x == order[Min(Undecided)]
           zero == Allowed0(Try(Here, x, 0), x)
           one == Allowed1(Try(Here, x, 1), x)
<1>1. /\ pc = "search" /\ Undecided # {} /\ gf2' \in {gf2, CheckpointRows}
      /\ orderIdx' = Min(Undecided)
      /\ UNCHANGED <<input, result, method, phase, iter, queue, found, axis,
                     base, crcLines, restart, order>>
  BY DEF Decide, Deciding, Searching, bound, rounds
<1>2. Min(Undecided) \in Nat \ {0} /\ x \in Unset(cellState)
  BY <1>1, NextDecision
<1>3. IF zero \/ one
      THEN /\ stack' = Append(stack, Decision(x, IF zero THEN 0 ELSE 1, Here))
           /\ cellState' = (IF zero THEN Try(Here, x, 0) ELSE Try(Here, x, 1)).cells
           /\ intLines' = (IF zero THEN Try(Here, x, 0) ELSE Try(Here, x, 1)).lines
           /\ pc' = pc
      ELSE Backtrack
  BY DEF Decide
<1> HIDE DEF x
<1>4. CASE zero
  BY <1>1, <1>2, <1>3, <1>4
<1>5. CASE ~zero /\ one
  BY <1>1, <1>2, <1>3, <1>5
<1>6. CASE ~zero /\ ~one
  BY <1>1, <1>2, <1>3, <1>6
<1>7. QED BY <1>4, <1>5, <1>6

LEMMA DecideSound ==
  ASSUME SolverSound, Decide, UNCHANGED <<files, blocks>> PROVE SolverSound'
<1>1. /\ pc = "search" /\ gf2' \in {gf2, CheckpointRows} /\ orderIdx' \in Nat \ {0}
      /\ UNCHANGED <<input, result, method, phase, iter, queue, found, axis,
                     base, crcLines, restart, order>>
  BY DecideGoes
<1>2. Restarting
  BY <1>1 DEF Restarting
<1>3. /\ gf2 \in Seq(Equation) /\ cellState \in CellStates /\ intLines \in Seq(Line)
      /\ result \in Results /\ order \in Seq(Cells) /\ restart \in Nat /\ restart > 0
      /\ Extends(cellState, base.cells)
  BY <1>1, <1>2, RestartFacts
<1>4. gf2' \in Seq(Equation)
  BY <1>1, <1>2, <1>3, CheckpointRowsTyped
<1>5. CASE pc' = pc /\ \E x \in Unset(cellState) : \E v \in {0, 1} :
                 /\ stack' = Append(stack, Decision(x, v, Here))
                 /\ cellState' = Try(Here, x, v).cells /\ intLines' = Try(Here, x, v).lines
  <2>1. PICK x \in Unset(cellState), v \in {0, 1} :
                 /\ stack' = Append(stack, Decision(x, v, Here))
                 /\ cellState' = Try(Here, x, v).cells /\ intLines' = Try(Here, x, v).lines
    BY <1>5
  <2> DEFINE t == Try(Here, x, v)
  <2>2. Here \in Position /\ Here.cells = cellState
    BY HereOf DEF SolverSound
  <2>3. t \in Position /\ Extends(t.cells, Here.cells) /\ t.cells[x] = v
    BY <2>2, TryOf
  <2>4. cellState' = t.cells /\ intLines' = t.lines
    BY <2>1
  <2> HIDE DEF t
  <2>5. cellState' \in CellStates /\ intLines' \in Seq(Line) /\ Extends(cellState', cellState)
        /\ cellState'[x] = v
    BY <2>2, <2>3, <2>4 DEF Position
  <2>6. stack' \in Seq(Decisions) /\ Nested'
    BY <1>1, <2>1, <2>5, PushOf
  <2>7. Extends(cellState', base.cells)
    BY <1>3, <2>5, ExtendsOn
  <2>8. BaselineOrBlock' /\ pc' = "search"
    BY <1>1, <1>5 DEF BaselineOrBlock
  <2>9. QED BY <1>1, <1>2, <1>3, <1>4, <2>5, <2>6, <2>7, <2>8, RestartFrame
<1>6. CASE Backtrack
  <2>1. /\ cellState' \in CellStates /\ intLines' \in Seq(Line) /\ stack' \in Seq(Decisions)
        /\ Extends(cellState', base.cells)
        /\ pc' \in {"search", "shuffle"}
        /\ pc' = "search" => Nested'
    BY <1>1, <1>6, BacktrackOf
  <2>2. BaselineOrBlock'
    BY <2>1 DEF BaselineOrBlock
  <2>3. QED BY <1>1, <1>2, <1>3, <1>4, <2>1, <2>2, RestartFrame
<1>7. QED BY <1>5, <1>6, DecideGoes

LEMMA BeginRestartsSound ==
  ASSUME SolverSound, BeginRestarts, UNCHANGED <<files, blocks>> PROVE SolverSound'
<1>1. /\ pc = "roundsOver"
      /\ UNCHANGED <<input, gf2, intLines, cellState, result, method, phase, iter, queue, found, axis, lines,
                     restart, order, orderIdx, stack>>
      /\ IF result.determined < kN
         THEN /\ base' = [cells |-> cellState, lines |-> intLines, gf2 |-> gf2,
                          determined |-> result.determined]
              /\ crcLines' = {PruningEquations(line) : line \in PruningLines}
              /\ pc' = "shuffle"
         ELSE pc' = "final" /\ UNCHANGED <<base, crcLines>>
  BY DEF BeginRestarts, system, bound, rounds
<1>2. /\ InputRight /\ FilesRight /\ SystemTyped /\ ControlRight /\ BoundRight /\ SearchRight
      /\ DonatedKept /\ EquationsRight
  BY DEF SolverSound
<1>3. pc' \in {"shuffle", "final"} /\ ~Restarting /\ method = "hybrid" /\ restart = 0
  BY <1>1, <1>2 DEF ControlRight, Restarting
<1>4. original' = original /\ config' = config /\ donated' = donated
  BY <1>1 DEF input
<1>5. InputRight' /\ FilesRight'
  BY <1>2, <1>4 DEF InputRight, FilesRight, Values, files, blocks
<1>6. SystemTyped'
  BY <1>1, <1>2 DEF SystemTyped
<1>7. Phases' = Phases
  BY <1>4 DEF Phases, Phase
<1>8. ControlRight'
  BY <1>1, <1>2, <1>3, <1>4, <1>7 DEF ControlRight, Pcs, Restarting
<1>9. queue = <<>> /\ DOMAIN found = {} /\ BoundRight'
  BY <1>1, <1>2 DEF BoundRight, Values
<1>10. base' \in Bases
  <2>1. CASE result.determined < kN
    <3>1. result.determined \in Int
      BY <1>2 DEF SystemTyped, Results
    <3>2. QED BY <1>1, <1>2, <2>1, <3>1 DEF SystemTyped, Bases
  <2>2. CASE ~(result.determined < kN)
    BY <1>1, <1>2, <2>2 DEF SearchRight
  <2>3. QED BY <2>1, <2>2
<1>11. Restarting' => /\ base'.cells = cellState /\ base'.gf2 = gf2
                      /\ \A crc \in crcLines' : crc.eqns \subseteq EquationsOf(original)
  <2>1. HAVE Restarting'
  <2>2. result.determined < kN
    BY <1>1, <2>1 DEF Restarting
  <2>3. original \in Matrices
    BY <1>2 DEF InputRight
  <2>4. QED BY <1>1, <2>2, <2>3, PruningRight
<1>12. SearchRight'
  BY <1>1, <1>2, <1>3, <1>4, <1>10, <1>11 DEF SearchRight
<1>13. StackNested'
  BY <1>1, <1>3, <1>11, ExtendsItself DEF StackNested
<1>14. DonatedKept'
  BY <1>1, <1>2, <1>4, <1>11 DEF DonatedKept, Keeps
<1>15. EquationsRight'
  BY <1>1, <1>2, <1>3, <1>4, <1>11 DEF EquationsRight, Restarting
<1>16. CountRight' /\ VerdictRight' /\ BaselineOrBlock'
  BY <1>1, <1>3 DEF CountRight, VerdictRight, BaselineOrBlock
<1>17. QED BY <1>5, <1>6, <1>8, <1>9, <1>12, <1>13, <1>14, <1>15, <1>16 DEF SolverSound

LEMMA FinalSound ==
  ASSUME SolverSound, Final, UNCHANGED <<files, blocks>> PROVE SolverSound'
<1>1. /\ pc = "final" /\ pc' = "done"
      /\ result' = [result EXCEPT !.correct = \A x \in Assigned : cellState[x] = original[x],
                                  !.bhVerified = cellState = original]
      /\ UNCHANGED <<input, gf2, intLines, cellState, method, phase, iter, queue, found, axis, lines,
                     base, crcLines, restart, order, orderIdx, stack>>
  BY DEF Final, system, bound, rounds, search
<1>2. /\ InputRight /\ FilesRight /\ SystemTyped /\ ControlRight /\ BoundRight /\ SearchRight
      /\ DonatedKept /\ EquationsRight
  BY DEF SolverSound
<1>3. ~Restarting /\ ~Restarting' /\ method = "hybrid"
  BY <1>1, <1>2 DEF ControlRight, Restarting
<1>4. original' = original /\ config' = config /\ donated' = donated
  BY <1>1 DEF input
<1>5. InputRight' /\ FilesRight'
  BY <1>2, <1>4 DEF InputRight, FilesRight, Values, files, blocks
<1>6. result' \in Results /\ (result'.bhVerified => cellState = original)
  <2>1. result \in Results
    BY <1>2 DEF SystemTyped
  <2>2. QED BY <1>1, <2>1 DEF Results
<1>7. SystemTyped'
  BY <1>1, <1>2, <1>6 DEF SystemTyped
<1>8. Phases' = Phases
  BY <1>4 DEF Phases, Phase
<1>9. ControlRight'
  BY <1>1, <1>2, <1>3, <1>4, <1>8 DEF ControlRight, Pcs
<1>10. BoundRight' /\ SearchRight' /\ StackNested'
  BY <1>1, <1>2, <1>3 DEF BoundRight, Values, SearchRight, StackNested
<1>11. DonatedKept' /\ EquationsRight'
  BY <1>1, <1>2, <1>3, <1>4 DEF DonatedKept, Keeps, EquationsRight
<1>12. CountRight' /\ VerdictRight' /\ BaselineOrBlock'
  BY <1>1, <1>3, <1>4, <1>6 DEF CountRight, VerdictRight, BaselineOrBlock
<1>13. QED BY <1>5, <1>6, <1>7, <1>9, <1>10, <1>11, <1>12 DEF SolverSound

LEMMA RestartsSoundly ==
  ASSUME SolverSound, Restarts, UNCHANGED <<files, blocks>> PROVE SolverSound'
BY BeginRestartsSound, ShuffleNothingSound, BeginRestartSound, RestartsOverSound, OutOfDecisionsSound,
   SolvedSound, WrongBlockSound, CheckpointSound, DecideSound, OrderExhaustedSound DEF Restarts

LEMMA SolveSound ==
  ASSUME SolverSound, HybridNext, UNCHANGED <<files, blocks>> PROVE SolverSound'
BY NextSound, BeginRoundSound, BeginAxisSound, AxisLineSound, EndAxisSound, EndRoundSound,
   RestartsSoundly, FinalSound DEF HybridNext

-------------------------------------------------------------------------------
(* Blocks, and the theorem.                                                *)

\* A solver just made for a block.
Started ==
  /\ InputRight /\ FilesRight
  /\ gf2 = buildSystem(original, config) /\ intLines = buildIntLines(original, config)
  /\ cellState = Nothing /\ result = NoResult /\ pc = "ready" /\ method \in {"solve", "cascade"}
  /\ phase = 0 /\ iter = 0 /\ queue = <<>> /\ found = NoneFound
  /\ axis \in 0..4 /\ base \in Bases /\ order \in Seq(Cells) /\ orderIdx \in Nat \ {0}
  /\ stack \in Seq(Decisions) /\ restart = 0

LEMMA StartSound == Started => SolverSound
<1> SUFFICES ASSUME Started PROVE SolverSound
  OBVIOUS
<1>1. original \in Matrices /\ IsConfig(config)
  BY DEF Started, InputRight
<1>2. /\ gf2 \in Seq(EquationsOf(original)) /\ intLines \in Seq(LinesOf(original, Nothing))
  BY <1>1, BuiltOf DEF Started
<1>3. gf2 \in Seq(Equation) /\ intLines \in Seq(Line)
  BY <1>2, EquationsTyped, LinesTyped
<1>4. SystemTyped
  BY <1>3, NothingTyped DEF SystemTyped, Started, NoResult, Results
<1>5. ~Restarting /\ MaxIter \in Nat \ {0}
  BY IterAssumption DEF Started, Restarting
<1>6. Len(Phases) \in Nat
  BY DEF Phases
<1>7. ControlRight
  BY <1>5, <1>6 DEF ControlRight, Started, NoResult, Pcs
<1>8. BoundRight
  BY NoneKnown DEF BoundRight, Started
<1>9. SearchRight /\ StackNested /\ DonatedKept
  BY <1>5 DEF SearchRight, StackNested, DonatedKept, Started
<1>10. EquationsRight /\ CountRight /\ VerdictRight /\ BaselineOrBlock
  BY <1>2, <1>5 DEF EquationsRight, CountRight, VerdictRight, BaselineOrBlock, Started, NoResult
<1>11. QED BY <1>4, <1>7, <1>8, <1>9, <1>10 DEF SolverSound, Started

\* Columns of the block before are columns of this one.
LEMMA DonatedOf ==
  ASSUME NEW m \in Matrices \cup {<<>>}, NEW n \in 0..(kS - 1)
  PROVE  /\ Values(Donated(m, n))
         /\ \E k \in 0..kS : DOMAIN Donated(m, n) = {x \in Cells : x[2] < k}
<1>1. kS \in Nat \ {0} /\ Index = 0..(kS - 1) /\ Cells = Index \X Index
  BY Numbers
<1>2. CASE m = <<>>
  <2>1. Donated(m, n) = NoneFound
    BY <1>2 DEF Donated, NoneFound
  <2>2. {x \in Cells : x[2] < 0} = {} /\ 0 \in 0..kS
    BY <1>1
  <2>3. QED BY <2>1, <2>2, NoneKnown
<1>3. CASE m # <<>>
  <2>1. m \in Matrices
    BY <1>3
  <2>2. Donated(m, n) = [x \in {y \in Cells : y[2] < n} |-> m[<<x[1], kS - n + x[2]>>]]
    BY <1>3 DEF Donated
  <2>3. ASSUME NEW x \in Cells, x[2] < n PROVE m[<<x[1], kS - n + x[2]>>] \in {0, 1}
    <3>1. x[1] \in Index /\ kS - n + x[2] \in Index
      BY <1>1, <2>3
    <3>2. <<x[1], kS - n + x[2]>> \in Cells
      BY <1>1, <3>1
    <3>3. QED BY <2>1, <3>2 DEF Matrices
  <2>4. Values(Donated(m, n))
    BY <2>2, <2>3 DEF Values
  <2>5. DOMAIN Donated(m, n) = {x \in Cells : x[2] < n} /\ n \in 0..kS
    BY <1>1, <2>2
  <2>6. QED BY <2>4, <2>5
<1>4. QED BY <1>2, <1>3

LEMMA BlockOf ==
  ASSUME NEW bits \in Seq({0, 1}), NEW b \in Nat, NEW n \in 0..(kS - 1)
  PROVE  loadOverlappingBlock(bits, b, n) \in Matrices
<1>1. kS \in Nat \ {0} /\ Index = 0..(kS - 1) /\ Cells = Index \X Index
  BY Numbers
<1>2. PICK from \in Nat : from = b * (kS - n) * kS
  <2>1. kS - n \in Nat
    BY <1>1
  <2>2. PICK a \in Nat : a = b * (kS - n)
    BY <2>1
  <2>3. a * kS \in Nat
    BY <1>1, <2>2
  <2>4. QED BY <2>2, <2>3
<1>3. ASSUME NEW x \in Cells, from + Flat(x) + 1 <= Len(bits)
      PROVE  bits[from + Flat(x) + 1] \in {0, 1}
  <2>1. x[1] \in Nat /\ x[2] \in Nat
    BY <1>1
  <2>2. PICK q \in Nat : q = x[1] * kS
    BY <1>1, <2>1
  <2>3. Flat(x) = q + x[2]
    BY <2>2 DEF Flat
  <2>4. from + Flat(x) + 1 \in 1..Len(bits)
    BY <1>3, <2>1, <2>3
  <2>5. QED BY <2>4
<1>4. QED BY <1>2, <1>3 DEF loadOverlappingBlock, Matrices

LEMMA InitSound == CommandInit => SolverSound
<1> SUFFICES ASSUME CommandInit PROVE SolverSound
  OBVIOUS
<1>1. SolverInit /\ HybridSearchInit /\ block = 0
  BY DEF CommandInit, CombinatorInit, OverlapInit, Init
<1>2. kS \in Nat \ {0} /\ Cells = Index \X Index /\ Index = 0..(kS - 1)
  BY Numbers
<1>3. InputRight /\ FilesRight
  <2>1. CASE CombinatorInit
    <3>1. PICK p \in Problems : original = p.original /\ config = p.config /\ donated = p.donated
      BY <2>1 DEF CombinatorInit, Init
    <3>2. original \in Matrices /\ IsConfig(config)
      BY <3>1, ProblemsAssumption DEF Matrices
    <3>3. PICK n \in 0..kS : donated = PreassignColumns(original, n)
      BY <3>1, ProblemsAssumption
    <3>4. Values(donated) /\ DOMAIN donated = {x \in Cells : x[2] < n}
      BY <3>2, <3>3 DEF PreassignColumns, Values, Matrices
    <3>5. data = <<>> /\ overlap = 0
      BY <2>1 DEF CombinatorInit
    <3>6. QED BY <1>1, <1>2, <3>2, <3>4, <3>5 DEF InputRight, FilesRight
  <2>2. CASE OverlapInit
    <3>1. /\ data \in Seq({0, 1}) /\ overlap \in 0..(kS - 1)
          /\ config = OverlapConfig /\ donated = <<>>
          /\ original = loadOverlappingBlock(data, 0, overlap)
      BY <2>2, FilesAssumption, OverlapAssumption DEF OverlapInit
    <3>2. original \in Matrices /\ IsConfig(config)
      BY <3>1, BlockOf, OverlapConfigAssumption
    <3>3. Values(donated) /\ DOMAIN donated = {x \in Cells : x[2] < 0} /\ 0 \in 0..kS
      <4>1. DOMAIN donated = {} /\ Values(donated)
        BY <3>1, NoneKnown DEF NoneFound
      <4>2. {x \in Cells : x[2] < 0} = {}
        BY <1>2
      <4>3. QED BY <1>2, <4>1, <4>2
    <3>4. QED BY <1>1, <3>1, <3>2, <3>3 DEF InputRight, FilesRight
  <2>3. QED BY <2>1, <2>2 DEF CommandInit
<1>4. Started
  <2>1. /\ gf2 = buildSystem(original, config) /\ intLines = buildIntLines(original, config)
        /\ cellState = Nothing /\ result = NoResult /\ pc = "ready" /\ method \in {"solve", "cascade"}
        /\ phase = 0 /\ iter = 0 /\ queue = <<>> /\ found = NoneFound
    BY <1>1 DEF SolverInit, Nothing
  <2>2. /\ axis \in 0..4 /\ order \in Seq(Cells) /\ orderIdx \in Nat \ {0}
        /\ stack \in Seq(Decisions) /\ restart = 0
        /\ base = [cells |-> cellState, lines |-> intLines, gf2 |-> gf2, determined |-> 0]
    BY <1>1 DEF HybridSearchInit
  <2>3. gf2 \in Seq(EquationsOf(original)) /\ intLines \in Seq(LinesOf(original, Nothing))
    BY <1>3, <2>1, BuiltOf DEF InputRight
  <2>4. gf2 \in Seq(Equation) /\ intLines \in Seq(Line) /\ cellState \in CellStates
    BY <2>1, <2>3, EquationsTyped, LinesTyped, NothingTyped
  <2>5. base \in Bases
    BY <2>2, <2>4 DEF Bases
  <2>6. QED BY <1>3, <2>1, <2>2, <2>5 DEF Started
<1>5. QED BY <1>4, StartSound

LEMMA NextBlockSound ==
  ASSUME SolverSound, NextBlock PROVE SolverSound'
<1>1. /\ pc = "done" /\ block < LastBlock /\ block' = block + 1
      /\ original' = loadOverlappingBlock(data, block + 1, overlap)
      /\ donated' = Donated(Solution, overlap)
      /\ gf2' = buildSystem(original', config) /\ intLines' = buildIntLines(original', config)
      /\ cellState' = Nothing /\ result' = NoResult
      /\ pc' = "ready" /\ phase' = 0 /\ iter' = 0 /\ queue' = <<>> /\ found' = NoneFound
      /\ UNCHANGED <<config, method, data, overlap, axis, base, restart, order, orderIdx, stack>>
  BY DEF NextBlock, StartBlock, files, rounds, search, Nothing
<1>2. InputRight /\ FilesRight /\ ControlRight /\ SearchRight
  BY DEF SolverSound
<1>3. data # <<>>
  <2>1. block \in Nat
    BY <1>2 DEF FilesRight
  <2>2. QED BY <1>1, <2>1 DEF LastBlock
<1>4. config = OverlapConfig /\ ~config.hybrid
  BY <1>2, <1>3, OverlapConfigAssumption DEF FilesRight
<1>5. method \in {"solve", "cascade"} /\ restart = 0
  BY <1>2, <1>4 DEF ControlRight
<1>6. data \in Seq({0, 1}) /\ block + 1 \in Nat /\ overlap \in 0..(kS - 1)
  BY <1>2 DEF FilesRight
<1>7. original' \in Matrices
  BY <1>1, <1>6, BlockOf
<1>8. Values(donated') /\ \E k \in 0..kS : DOMAIN donated' = {x \in Cells : x[2] < k}
  <2>1. Solution \in Matrices \cup {<<>>}
    BY <1>2 DEF Solution, InputRight
  <2>2. QED BY <1>1, <1>6, <2>1, DonatedOf
<1>9. InputRight'
  BY <1>1, <1>2, <1>7, <1>8 DEF InputRight, Values
<1>10. FilesRight'
  BY <1>1, <1>2, <1>6 DEF FilesRight
<1>11. Started'
  BY <1>1, <1>2, <1>5, <1>9, <1>10 DEF Started, SearchRight
<1>12. QED BY <1>11, StartSound, PTL

LEMMA StutterSound ==
  ASSUME SolverSound, UNCHANGED commandVars PROVE SolverSound'
<1>1. UNCHANGED <<original, config, donated, gf2, intLines, cellState, result, pc, method, phase, iter,
                  queue, found, axis, lines, base, crcLines, restart, order, orderIdx, stack,
                  data, overlap, block>>
  BY DEF commandVars, hybridVars, vars, input, system, bound, rounds, search, files, blocks
<1>2. InputRight' /\ FilesRight' /\ SystemTyped'
  BY <1>1 DEF SolverSound, InputRight, FilesRight, SystemTyped, Values
<1>3. Phases' = Phases /\ (Restarting' <=> Restarting)
  BY <1>1 DEF Phases, Phase, Restarting
<1>4. ControlRight' /\ BoundRight' /\ SearchRight'
  BY <1>1, <1>3 DEF SolverSound, ControlRight, BoundRight, SearchRight, Values
<1>5. StackNested'
  BY <1>1, <1>3 DEF SolverSound, StackNested, Seen
<1>6. DonatedKept' /\ EquationsRight'
  BY <1>1, <1>3 DEF SolverSound, DonatedKept, Keeps, EquationsRight
<1>7. CountRight' /\ VerdictRight' /\ BaselineOrBlock'
  BY <1>1 DEF SolverSound, CountRight, VerdictRight, BaselineOrBlock, Assigned
<1>8. QED BY <1>2, <1>4, <1>5, <1>6, <1>7 DEF SolverSound

\* Whatever the block, the configuration and the cells given beforehand, every part
\* of the solver's state keeps its meaning through all of solve, solveCascade,
\* solveHybrid and the blocks of overlapSolver.
THEOREM SolverStaysSound == Spec => []SolverSound
<1>1. CommandInit => SolverSound
  BY InitSound
<1>2. SolverSound /\ [CommandNext]_commandVars => SolverSound'
  BY SolveSound, NextBlockSound, StutterSound DEF CommandNext, Solve, Exit
<1>3. QED BY <1>1, <1>2, PTL DEF Spec

-------------------------------------------------------------------------------
(* What follows for the solver's promises.                                 *)

\* TypeOK: the state of the solver has its types, the queue of IntBound names
\* lines, and the loops of solveCascade stay within their tables (solve, solveCascade).
THEOREM SolverTyped == Spec => []TypeOK
<1>1. SolverSound => TypeOK
  <2> SUFFICES ASSUME SolverSound PROVE TypeOK
    OBVIOUS
  <2>1. InputRight /\ SystemTyped /\ ControlRight /\ BoundRight
    BY DEF SolverSound
  <2>2. original \in [Cells -> {0, 1}] /\ cellState \in [Cells -> {0, 1, Unassigned}]
    BY <2>1 DEF InputRight, SystemTyped, Matrices, CellStates
  <2>3. \A i \in DOMAIN gf2 : gf2[i].cells \subseteq Cells /\ gf2[i].target \in {0, 1}
    <3>1. \A i \in DOMAIN gf2 : gf2[i] \in Equation
      BY <2>1 DEF SystemTyped
    <3>2. QED BY <3>1 DEF Equation
  <2>4. \A i \in DOMAIN intLines : intLines[i].cells \subseteq Cells
    <3>1. \A i \in DOMAIN intLines : intLines[i] \in Line
      BY <2>1 DEF SystemTyped
    <3>2. QED BY <3>1 DEF Line
  <2>5. ToSet(queue) \subseteq DOMAIN intLines
    <3>1. queue \in Seq(DOMAIN intLines)
      BY <2>1 DEF BoundRight
    <3>2. QED BY <3>1, ToSetOf
  <2>6. QED BY <2>1, <2>2, <2>3, <2>4, <2>5 DEF TypeOK, ControlRight
<1>2. QED BY <1>1, SolverStaysSound, PTL

\* RestartsSound: the decisions of a restart nest, and restarts that find nothing
\* put cells, lines, equations and count back to the baseline (runRestart,
\* runRestarts).
THEOREM RestartsTakeBack == Spec => []RestartsSound
<1>1. SolverSound => RestartsSound
  <2> SUFFICES ASSUME SolverSound PROVE RestartsSound
    OBVIOUS
  <2>1. BaselineOrBlock
    BY DEF SolverSound
  <2>2. ASSUME pc = "search" PROVE DecisionsNested
    <3>1. Restarting
      BY <2>2 DEF Restarting
    <3>2. stack \in Seq(Decisions) /\ Nested /\ Extends(cellState, base.cells)
      BY <2>2, <3>1, RestartFacts
    <3>3. PICK n \in Nat : n = Len(stack) /\ DOMAIN stack = 1..n
      BY <3>2
    <3>4. \A k \in 1..(n + 1) : (IF k <= n THEN stack[k].cells ELSE cellState) = Seen(k)
      BY <3>3 DEF Seen
    <3>5. Extends(Seen(1), base.cells)
      <4>1. CASE 1 \in DOMAIN stack
        BY <3>2, <4>1 DEF Nested, Seen
      <4>2. CASE 1 \notin DOMAIN stack
        BY <3>2, <4>2 DEF Seen
      <4>3. QED BY <4>1, <4>2
    <3>6. \A k \in 1..n : /\ stack[k].cells[stack[k].cell] = Unassigned
                          /\ Seen(k + 1)[stack[k].cell] = stack[k].value
                          /\ Extends(Seen(k + 1), stack[k].cells)
      BY <3>2, <3>3 DEF Nested
    <3>7. 1 \in 1..(n + 1) /\ \A k \in 1..n : k + 1 \in 1..(n + 1)
      OBVIOUS
    <3> DEFINE S(k) == IF k <= Len(stack) THEN stack[k].cells ELSE cellState
    <3>8. /\ S(1) = Seen(1)
          /\ \A k \in 1..n : S(k + 1) = Seen(k + 1)
      BY <3>3, <3>4, <3>7
    <3>9. /\ \A x \in Cells : base.cells[x] # Unassigned => S(1)[x] = base.cells[x]
          /\ \A k \in DOMAIN stack :
               /\ stack[k].cells[stack[k].cell] = Unassigned
               /\ S(k + 1)[stack[k].cell] = stack[k].value
               /\ \A x \in Cells : stack[k].cells[x] # Unassigned => S(k + 1)[x] = stack[k].cells[x]
      <4> HIDE DEF S
      <4>1. QED BY <3>3, <3>5, <3>6, <3>8 DEF Extends
    <3>10. QED BY <3>9 DEF DecisionsNested
  <2>3. DecisionsNested
    BY <2>2 DEF DecisionsNested
  <2>4. QED BY <2>1, <2>3 DEF RestartsSound
<1>2. QED BY <1>1, SolverStaysSound, PTL

\* The equations and the count of SystemSound.
LEMMA EquationsAndCount ==
  ASSUME SolverSound PROVE EquationsHold /\ CountExact
<1>1. EquationsRight /\ CountRight /\ BoundRight /\ ControlRight /\ SystemTyped
  BY DEF SolverSound
<1>2. EquationsHold
  <2>1. ASSUME method # "hybrid", KnownRight, NEW i \in DOMAIN gf2 PROVE Satisfies(original, gf2[i])
    <3>1. RightOf(original, cellState)
      BY <2>1 DEF KnownRight, RightOf, Assigned
    <3>2. gf2 \in Seq(EquationsOf(original))
      BY <1>1, <2>1, <3>1 DEF EquationsRight
    <3>3. gf2[i] \in EquationsOf(original)
      BY <3>2
    <3>4. QED BY <3>3 DEF EquationsOf
  <2>2. QED BY <2>1 DEF EquationsHold
<1>3. CountExact
  <2>1. ASSUME AtRest, method # "hybrid", result.feasible
        PROVE  result.determined + Cardinality(DOMAIN donated) = Cardinality(Assigned)
    <3>1. pc # "intBound" /\ pc # "ready"
      BY <2>1 DEF AtRest
    <3>2. Cardinality(DOMAIN found) = 0
      <4>1. DOMAIN found = {}
        BY <1>1, <3>1 DEF BoundRight
      <4>2. QED BY <4>1, FS_EmptySet
    <3>3. result.determined \in Int
      BY <1>1 DEF SystemTyped, Results
    <3>4. Cardinality(DOMAIN donated) \in Nat
      <4>1. DOMAIN donated \in SUBSET Cells
        BY DEF SolverSound, InputRight, Values
      <4>2. QED BY <4>1, FiniteSubset
    <3>5. result.determined + Cardinality(DOMAIN donated) + Cardinality(DOMAIN found)
            = Cardinality(Assigned)
      BY <1>1, <2>1, <3>1 DEF CountRight
    <3>6. QED BY <3>2, <3>3, <3>4, <3>5
  <2>2. QED BY <2>1 DEF CountExact
<1>4. QED BY <1>2, <1>3

-------------------------------------------------------------------------------
(* The report of analyzeLines.                                             *)

\* A diagonal is as long as the anti-diagonal of its number.
LEMMA SameLengths ==
  ASSUME NEW d \in 0..(kDiagCount - 1) PROVE Len(diagCells(d)) = Len(antiDiagCells(d))
<1>1. PICK w \in Nat \ {0} : /\ w = kS /\ Index = 0..(w - 1) /\ kDiagCount = 2 * w - 1
                             /\ Cells = Index \X Index
  BY Numbers
<1> DEFINE T == Int \X Int
           s == [i \in 1..w |-> <<i - 1, i - 1 + d - (w - 1)>>]
           a == [i \in 1..w |-> <<i - 1, d - (i - 1)>>]
           A == {x \in Cells : x[2] - x[1] = d - (w - 1)}
           B == {x \in Cells : x[1] + x[2] = d}
           f == [x \in A |-> <<w - 1 - x[1], x[2]>>]
<1>2. /\ s \in Seq(T) /\ a \in Seq(T) /\ Len(s) = w /\ Len(a) = w
  <2>1. \A i \in 1..w : s[i] \in T /\ a[i] \in T
    BY <1>1
  <2>2. QED BY <2>1
<1>3. diagCells(d) = Among(s, Cells) /\ antiDiagCells(d) = Among(a, Cells)
  BY <1>1 DEF diagCells, antiDiagCells
<1>4. ToSet(s) \cap Cells = A
  <2>1. ASSUME NEW x \in ToSet(s) \cap Cells PROVE x \in A
    <3>1. PICK i \in 1..w : s[i] = x
      BY <1>2, ToSetOf
    <3>2. x[1] = i - 1 /\ x[2] = i - 1 + d - (w - 1)
      BY <3>1
    <3>3. QED BY <1>1, <3>2
  <2>2. ASSUME NEW x \in A PROVE x \in ToSet(s)
    <3>1. x[1] \in 0..(w - 1) /\ x[2] \in 0..(w - 1) /\ x = <<x[1], x[2]>>
      BY <1>1
    <3>2. x[1] + 1 \in 1..w /\ x[2] = x[1] + 1 - 1 + d - (w - 1) /\ x[1] = x[1] + 1 - 1
      BY <1>1, <3>1
    <3>3. PICK i \in 1..w : i = x[1] + 1
      BY <3>2
    <3>4. <<i - 1, i - 1 + d - (w - 1)>> = x
      BY <3>1, <3>2, <3>3
    <3>5. s[i] = x
      BY <3>4
    <3>6. QED BY <1>2, <3>5, ToSetOf
  <2>3. QED BY <2>1, <2>2
<1>5. ToSet(a) \cap Cells = B
  <2>1. ASSUME NEW x \in ToSet(a) \cap Cells PROVE x \in B
    <3>1. PICK i \in 1..w : a[i] = x
      BY <1>2, ToSetOf
    <3>2. x[1] = i - 1 /\ x[2] = d - (i - 1)
      BY <3>1
    <3>3. QED BY <1>1, <3>2
  <2>2. ASSUME NEW x \in B PROVE x \in ToSet(a)
    <3>1. x[1] \in 0..(w - 1) /\ x[2] \in 0..(w - 1) /\ x = <<x[1], x[2]>>
      BY <1>1
    <3>2. x[1] + 1 \in 1..w /\ x[2] = d - (x[1] + 1 - 1) /\ x[1] = x[1] + 1 - 1
      BY <1>1, <3>1
    <3>3. PICK i \in 1..w : i = x[1] + 1
      BY <3>2
    <3>4. <<i - 1, d - (i - 1)>> = x
      BY <3>1, <3>2, <3>3
    <3>5. a[i] = x
      BY <3>4
    <3>6. QED BY <1>2, <3>5, ToSetOf
  <2>3. QED BY <2>1, <2>2
<1>6. ExistsBijection(A, B)
  <2>1. f \in [A -> B]
    BY <1>1
  <2>2. \A x, y \in A : f[x] = f[y] => x = y
    <3>1. ASSUME NEW x \in A, NEW y \in A, f[x] = f[y] PROVE x = y
      <4>1. w - 1 - x[1] = w - 1 - y[1] /\ x[2] = y[2]
        BY <3>1
      <4>2. x = <<x[1], x[2]>> /\ y = <<y[1], y[2]>> /\ x[1] \in Int /\ y[1] \in Int
        BY <1>1
      <4>3. QED BY <4>1, <4>2
    <3>2. QED BY <3>1
  <2>3. \A y \in B : \E x \in A : f[x] = y
    <3>1. ASSUME NEW y \in B PROVE \E x \in A : f[x] = y
      <4>1. y[1] \in 0..(w - 1) /\ y[2] \in 0..(w - 1) /\ y = <<y[1], y[2]>> /\ y[1] + y[2] = d
        BY <1>1
      <4>2. <<w - 1 - y[1], y[2]>> \in A /\ w - 1 - (w - 1 - y[1]) = y[1]
        BY <1>1, <4>1
      <4>3. f[<<w - 1 - y[1], y[2]>>] = y
        BY <4>1, <4>2
      <4>4. QED BY <4>2, <4>3
    <3>2. QED BY <3>1
  <2> HIDE DEF f
  <2>4. QED BY <2>1, <2>2, <2>3 DEF ExistsBijection, Bijection, Injection, Surjection, IsInjective
<1> HIDE DEF s, a, A, B, T
<1>7. ToSet(diagCells(d)) = A /\ ToSet(antiDiagCells(d)) = B
  BY <1>2, <1>3, <1>4, <1>5, AmongOf
<1>8. diagCells(d) \in LineSeqs /\ antiDiagCells(d) \in LineSeqs
  BY DiagonalLines
<1>9. /\ IsFiniteSet(A) /\ Cardinality(A) = Len(diagCells(d))
      /\ Cardinality(B) = Len(antiDiagCells(d))
  BY <1>7, <1>8, DistinctCount DEF LineSeqs
<1>10. QED BY <1>6, <1>9, FS_Bijection

LEMMA ShortAlike ==
  /\ ShortAmong(DiagLines) = ShortAmong(AntiDiagLines)
  /\ DOMAIN DiagLines = 1..kDiagCount /\ DOMAIN AntiDiagLines = 1..kDiagCount
<1>1. DOMAIN DiagLines = 1..kDiagCount /\ DOMAIN AntiDiagLines = 1..kDiagCount
  BY DEF DiagLines, AntiDiagLines
<1>2. ASSUME NEW i \in 1..kDiagCount PROVE Len(DiagLines[i]) = Len(AntiDiagLines[i])
  <2>1. i - 1 \in 0..(kDiagCount - 1)
    BY Numbers
  <2>2. QED BY <2>1, SameLengths DEF DiagLines, AntiDiagLines
<1>3. QED BY <1>1, <1>2 DEF ShortAmong

\* A complete line of right cells has the original's CRC.
LEMMA CompleteVerify ==
  ASSUME KnownRight, NEW ls \in Seq(LineSeqs), NEW w PROVE VerifiedAmong(w, ls) = CompleteAmong(ls)
<1>1. ASSUME NEW i \in CompleteAmong(ls)
      PROVE  LineCrc(w, cellState, ls[i]) = LineCrc(w, original, ls[i])
  <2>1. i \in DOMAIN ls /\ ToSet(ls[i]) \subseteq Assigned
    BY <1>1 DEF CompleteAmong
  <2>2. ls[i] \in Seq(Cells)
    BY <2>1 DEF LineSeqs
  <2> DEFINE line == ls[i]
  <2> HIDE DEF line
  <2>3. \A j \in DOMAIN line : line[j] \in Assigned
    <3>1. line \in Seq(Cells) /\ ToSet(line) \subseteq Assigned
      BY <2>1, <2>2 DEF line
    <3>2. QED BY <3>1, ToSetOf
  <2>4. [j \in DOMAIN line |-> cellState[line[j]]] = [j \in DOMAIN line |-> original[line[j]]]
    BY <2>3 DEF KnownRight
  <2>5. LineCrc(w, cellState, line) = LineCrc(w, original, line)
    BY <2>4 DEF LineCrc
  <2>6. QED BY <2>5 DEF line
<1>2. QED BY <1>1 DEF VerifiedAmong

\* Two sets among n places share at least what the two are too large for.
LEMMA Overlapping ==
  ASSUME NEW n \in Nat, NEW A \in SUBSET (1..n), NEW B \in SUBSET (1..n)
  PROVE  /\ Cardinality(A \cap B) \in (Cardinality(A) + Cardinality(B) - n)..Cardinality(A)
         /\ Cardinality(A) \in Nat /\ Cardinality(B) \in Nat
<1>1. IsFiniteSet(1..n) /\ Cardinality(1..n) = n
  BY FS_Interval
<1>2. IsFiniteSet(A) /\ IsFiniteSet(B) /\ A \cap B \subseteq A /\ A \cup B \subseteq 1..n
  BY <1>1, FS_Subset
<1>3. Cardinality(A \cup B) = Cardinality(A) + Cardinality(B) - Cardinality(A \cap B)
  BY <1>2, FS_Union
<1>4. Cardinality(A \cup B) <= n /\ Cardinality(A \cap B) <= Cardinality(A) /\ IsFiniteSet(A \cap B)
  BY <1>1, <1>2, FS_Subset
<1>5. Cardinality(A) \in Nat /\ Cardinality(B) \in Nat /\ Cardinality(A \cap B) \in Nat
  BY <1>2, <1>4, FS_CardinalityType
<1>6. QED BY <1>3, <1>4, <1>5

LEMMA ReportOf ==
  ASSUME SolverSound PROVE ReportAgrees
<1>1. /\ RowLines \in Seq(LineSeqs) /\ ColumnLines \in Seq(LineSeqs) /\ DiagLines \in Seq(LineSeqs)
      /\ AntiDiagLines \in Seq(LineSeqs)
      /\ DOMAIN RowLines = 1..kS /\ DOMAIN ColumnLines = 1..kS
      /\ DOMAIN DiagLines = 1..kDiagCount /\ DOMAIN AntiDiagLines = 1..kDiagCount
  BY StraightLines, ShortAlike DEF RowLines, ColumnLines
<1>2. kS \in Nat /\ kDiagCount \in Nat
  BY Numbers
<1>3. ShortAmong(DiagLines) \in SUBSET (1..kDiagCount)
  BY <1>1 DEF ShortAmong
<1>4. ASSUME KnownRight
      PROVE  /\ analyzeLines.vhVerified = analyzeLines.colsComplete
             /\ analyzeLines.dhVerified \in
                  (analyzeLines.diagsComplete + Cardinality(ShortAmong(DiagLines)) - kDiagCount)
                     ..analyzeLines.diagsComplete
             /\ analyzeLines.xhVerified \in
                  (analyzeLines.antiDiagsComplete + Cardinality(ShortAmong(DiagLines)) - kDiagCount)
                     ..analyzeLines.antiDiagsComplete
  <2>1. /\ VerifiedAmong(32, ColumnLines) = CompleteAmong(ColumnLines)
        /\ VerifiedAmong(16, DiagLines) = CompleteAmong(DiagLines)
        /\ VerifiedAmong(16, AntiDiagLines) = CompleteAmong(AntiDiagLines)
    BY <1>1, <1>4, CompleteVerify
  <2>2. CompleteAmong(DiagLines) \in SUBSET (1..kDiagCount)
        /\ CompleteAmong(AntiDiagLines) \in SUBSET (1..kDiagCount)
    BY <1>1 DEF CompleteAmong
  <2>3. Cardinality(CompleteAmong(DiagLines) \cap ShortAmong(DiagLines)) \in
          (Cardinality(CompleteAmong(DiagLines)) + Cardinality(ShortAmong(DiagLines)) - kDiagCount)
             ..Cardinality(CompleteAmong(DiagLines))
    BY <1>2, <1>3, <2>2, Overlapping
  <2>4. Cardinality(CompleteAmong(AntiDiagLines) \cap ShortAmong(DiagLines)) \in
          (Cardinality(CompleteAmong(AntiDiagLines)) + Cardinality(ShortAmong(DiagLines)) - kDiagCount)
             ..Cardinality(CompleteAmong(AntiDiagLines))
    BY <1>2, <1>3, <2>2, Overlapping
  <2>5. QED BY <2>1, <2>3, <2>4, ShortAlike DEF analyzeLines
<1>5. ASSUME pc = "done", result.bhVerified
      PROVE  /\ analyzeLines.rowsComplete = kS /\ analyzeLines.vhVerified = kS
             /\ analyzeLines.dhVerified = Cardinality(ShortAmong(DiagLines))
             /\ analyzeLines.xhVerified = Cardinality(ShortAmong(DiagLines))
  <2>1. cellState = original /\ original \in Matrices
    BY <1>5 DEF SolverSound, VerdictRight, InputRight
  <2>2. KnownRight
    BY <2>1 DEF KnownRight
  <2>3. Assigned = Cells
    BY <2>1 DEF Assigned, Matrices, Unassigned
  <2>4. ASSUME NEW ls \in Seq(LineSeqs) PROVE CompleteAmong(ls) = DOMAIN ls
    <3>1. ASSUME NEW i \in DOMAIN ls PROVE ToSet(ls[i]) \subseteq Cells
      <4>1. ls[i] \in Seq(Cells)
        BY DEF LineSeqs
      <4>2. QED BY <4>1, ToSetOf
    <3>2. QED BY <2>3, <3>1 DEF CompleteAmong
  <2>5. /\ CompleteAmong(RowLines) = 1..kS /\ CompleteAmong(ColumnLines) = 1..kS
        /\ CompleteAmong(DiagLines) = 1..kDiagCount /\ CompleteAmong(AntiDiagLines) = 1..kDiagCount
    BY <1>1, <2>4
  <2>6. /\ VerifiedAmong(32, ColumnLines) = 1..kS
        /\ VerifiedAmong(16, DiagLines) = 1..kDiagCount
        /\ VerifiedAmong(16, AntiDiagLines) = 1..kDiagCount
    BY <1>1, <2>2, <2>5, CompleteVerify
  <2>7. 1..kDiagCount \cap ShortAmong(DiagLines) = ShortAmong(DiagLines)
    BY <1>3
  <2>8. Cardinality(1..kS) = kS
    BY <1>2, FS_Interval
  <2>9. QED BY <2>5, <2>6, <2>7, <2>8, ShortAlike DEF analyzeLines
<1>6. QED BY <1>4, <1>5 DEF ReportAgrees

\* AnswerHonest: whatever was donated, a block that passes for solved is the original
\* one, with right donations, and the report of its lines says what is so (solve,
\* analyzeLines, overlapSolver's main).
THEOREM AnswersAreHonest == Spec => []AnswerHonest
<1>1. SolverSound => AnswerHonest
  <2> SUFFICES ASSUME SolverSound PROVE AnswerHonest
    OBVIOUS
  <2>1. WrongDonationShows
    <3>1. ASSUME pc = "done", result.bhVerified PROVE DonationRight
      <4>1. cellState = original /\ Keeps(cellState)
        BY <3>1 DEF SolverSound, VerdictRight, DonatedKept
      <4>2. QED BY <4>1 DEF DonationRight, Keeps
    <3>2. QED BY <3>1 DEF WrongDonationShows
  <2>2. QED BY <2>1, ReportOf DEF AnswerHonest
<1>2. QED BY <1>1, SolverStaysSound, PTL

-------------------------------------------------------------------------------
(* The integer lines: the lines a cascade adds late overlook the cells      *)
(* given beforehand.                                                       *)

AllExact ==
  /\ method = "solve" <=> ~(config.hybrid \/ config.cascade)
  /\ pc = "cascade" => Assigned \subseteq DOMAIN donated
  /\ intLines \in Seq(LinesSeen(original, Overlooked, cellState))
  /\ Restarting => base.lines \in Seq(LinesSeen(original, Overlooked, base.cells))
  /\ pc = "search" => \A k \in DOMAIN stack :
                        stack[k].lines \in Seq(LinesSeen(original, Overlooked, stack[k].cells))

\* Overlooked cells are known.
LEMMA OverlookedKnown ==
  ASSUME InputRight, NEW c, Keeps(c) PROVE Overlooked \cap Unset(c) = {}
<1>1. \A x \in DOMAIN donated : donated[x] \in {0, 1} /\ c[x] = donated[x]
  BY DEF InputRight, Values, Keeps
<1>2. QED BY <1>1 DEF Overlooked, Unset, Unassigned

LEMMA OverlookedHere ==
  ASSUME SolverSound, pc # "ready" PROVE Overlooked \cap Unset(cellState) = {}
BY OverlookedKnown DEF SolverSound, DonatedKept

\* What is known now is exact.
LEMMA HereExact ==
  ASSUME SolverSound, AllExact, pc # "ready"
  PROVE  Here \in Position /\ Here.cells = cellState /\ ExactAt(original, Here)
<1>1. SystemTyped
  BY DEF SolverSound
<1>2. Overlooked \cap Unset(cellState) = {} /\ intLines \in Seq(LinesSeen(original, Overlooked, cellState))
  BY OverlookedHere DEF AllExact
<1>3. QED BY <1>1, <1>2, HereOf

\* Steps that learn cells, or none.
LEMMA LearnExact ==
  ASSUME SolverSound, AllExact, UNCHANGED <<input, method>>, ~Restarting', pc' # "cascade", pc # "ready",
         NEW new, Values(new), DOMAIN new \subseteq Unset(cellState), AssignCells(new)
  PROVE  AllExact'
<1>1. original' = original /\ config' = config /\ donated' = donated /\ method' = method
  BY DEF input
<1>2. cellState \in CellStates /\ intLines \in Seq(Line) /\ Overlooked \cap Unset(cellState) = {}
  BY OverlookedHere DEF SolverSound, SystemTyped
<1>3. intLines \in Seq(LinesSeen(original, Overlooked, cellState))
  BY DEF AllExact
<1>4. intLines' \in Seq(LinesSeen(original, Overlooked, cellState'))
  BY <1>2, <1>3, LearnOf
<1>5. pc' # "search" /\ Overlooked' = Overlooked
  BY <1>1 DEF Restarting, Overlooked
<1>6. QED BY <1>1, <1>4, <1>5 DEF AllExact

LEMMA CalmExact ==
  ASSUME SolverSound, AllExact, UNCHANGED <<config, original, donated, intLines, cellState>>, ~Restarting',
         pc' # "cascade", method' = method \/ (method' = "hybrid" /\ config.hybrid)
  PROVE  AllExact'
<1>1. pc' # "search"
  BY DEF Restarting
<1>2. Overlooked' = Overlooked
  BY DEF Overlooked, AllExact
<1>3. QED BY <1>1, <1>2 DEF AllExact

LEMMA PreAssignExact ==
  ASSUME SolverSound, AllExact, PreAssign PROVE AllExact'
<1>1. pc = "ready" /\ AssignCells(donated) /\ UNCHANGED <<input, method>>
      /\ pc' \in {"cascade", "gauss"}
  BY DEF PreAssign
<1>2. InputRight /\ ControlRight /\ cellState \in CellStates /\ intLines \in Seq(Line)
  BY DEF SolverSound, SystemTyped
<1>3. Values(donated) /\ DOMAIN donated \subseteq Unset(cellState) /\ cellState = Nothing
  BY <1>1, <1>2, DonatedFree DEF ControlRight
<1>4. intLines \in Seq(LinesOf(original, cellState))
  <2>1. Overlooking(cellState, Overlooked) = cellState
    BY <1>3 DEF Overlooking, Nothing
  <2>2. LinesSeen(original, Overlooked, cellState) = LinesOf(original, cellState)
    BY <2>1 DEF LinesSeen
  <2>3. QED BY <2>2 DEF AllExact
<1>5. /\ intLines' \in Seq(LinesOf(original, cellState'))
      /\ Assigned' = Assigned \cup DOMAIN donated
  BY <1>1, <1>2, <1>3, <1>4, LearnOf
<1>6. intLines' \in Seq(LinesSeen(original, Overlooked, cellState'))
  BY <1>5, Wider DEF LinesSeen
<1>7. Assigned = {}
  BY <1>3, NothingTyped, AssignedOf
<1>8. /\ original' = original /\ config' = config /\ donated' = donated /\ method' = method
      /\ Overlooked' = Overlooked /\ ~Restarting' /\ pc' # "search"
  BY <1>1 DEF input, Restarting, Overlooked
<1>9. QED BY <1>1, <1>5, <1>6, <1>7, <1>8 DEF AllExact

\* A flattened sequence of nothing is a sequence of anything.
LEMMA NoPartitions ==
  ASSUME NEW T, NEW m, NEW cfg, cfg.yltpSeeds = <<>>, cfg.rltpCentres = <<>>
  PROVE  YltpIntLines(m, cfg) \in Seq(T) /\ RltpIntLines(m, cfg) \in Seq(T)
<1>1. <<>> \in Seq(Seq(T)) /\ <<>> \in Seq(T)
  OBVIOUS
<1>2. FlattenSeq(<<>>) \in Seq(T)
  BY <1>1, FlattenOf
<1>3. [i \in DOMAIN cfg.yltpSeeds |-> IntLines(m, YltpLines(cfg.yltpSeeds[i]))] = <<>>
  OBVIOUS
<1>4. [i \in DOMAIN cfg.rltpCentres |-> IntLines(m, RltpLines(cfg, cfg.rltpCentres[i]))] = <<>>
  OBVIOUS
<1>5. QED BY <1>1, <1>2, <1>3, <1>4 DEF YltpIntLines, RltpIntLines, Given

LEMMA StartCascadeExact ==
  ASSUME SolverSound, AllExact, StartCascade PROVE AllExact'
<1> DEFINE T == LinesSeen(original, Overlooked, cellState)
           ys == YltpIntLines(original, config)
           rs == RltpIntLines(original, config)
<1>1. /\ pc = "cascade" /\ pc' = "phase" /\ UNCHANGED <<input, cellState, method>>
      /\ intLines' = intLines \o ys \o rs
  BY DEF StartCascade
<1>2. original \in Matrices /\ IsConfig(config) /\ cellState \in CellStates /\ method = "cascade"
  BY <1>1 DEF SolverSound, SystemTyped, InputRight, ControlRight
<1>3. ys \in Seq(T) /\ rs \in Seq(T)
  <2>1. CASE config.yltpSeeds = <<>> /\ config.rltpCentres = <<>>
    BY <2>1, NoPartitions
  <2>2. CASE ~(config.yltpSeeds = <<>> /\ config.rltpCentres = <<>>)
    <3>1. Overlooked = DOMAIN donated
      BY <1>2, <2>2 DEF Overlooked
    <3>2. Assigned \subseteq Overlooked
      BY <1>1, <3>1 DEF AllExact
    <3>3. Overlooking(cellState, Overlooked) = Nothing
      BY <1>2, <3>2 DEF Assigned, Overlooking, Nothing
    <3>4. ys \in Seq(LinesOf(original, Nothing)) /\ rs \in Seq(LinesOf(original, Nothing))
      BY <1>2, PartitionOf, SpiralOf
    <3>5. LinesOf(original, Nothing) \subseteq T
      BY <3>3 DEF LinesSeen
    <3> HIDE DEF T, ys, rs
    <3>6. QED BY <3>4, <3>5, Wider
  <2>3. QED BY <2>1, <2>2
<1>4. intLines' \in Seq(T)
  <2> HIDE DEF ys, rs, T
  <2>1. intLines \in Seq(T)
    BY DEF AllExact, T
  <2>2. QED BY <1>1, <1>3, <2>1
<1>5. /\ original' = original /\ config' = config /\ donated' = donated /\ method' = method
      /\ Overlooked' = Overlooked /\ ~Restarting' /\ pc' # "search" /\ cellState' = cellState
  BY <1>1 DEF input, Restarting, Overlooked
<1>6. QED BY <1>1, <1>4, <1>5 DEF AllExact

LEMMA NextExact ==
  ASSUME SolverSound, AllExact, Next, UNCHANGED <<rounds, search, files, blocks>> PROVE AllExact'
<1>1. /\ ~Restarting' /\ UNCHANGED input
      /\ original' = original /\ config' = config /\ donated' = donated
  BY FixpointFrame, NextGoes DEF SolverSound, ControlRight, input
<1>2. SystemTyped /\ BoundRight
  BY DEF SolverSound
<1>3. CASE PreAssign
  BY <1>3, PreAssignExact
<1>4. CASE StartCascade
  BY <1>4, StartCascadeExact
<1>5. CASE BeginPhase \/ PhasesOver \/ EndPhase \/ Verify
  <2>1. UNCHANGED <<intLines, cellState, method>> /\ pc' # "cascade"
    BY <1>5 DEF BeginPhase, PhasesOver, EndPhase, Verify, AfterVerify, system
  <2>2. QED BY <1>1, <2>1, CalmExact
<1>6. CASE GaussPass
  <2>1. AssignCells(gaussElim(gf2)) /\ UNCHANGED <<input, method>> /\ pc' # "cascade" /\ pc # "ready"
    BY <1>6 DEF GaussPass
  <2>2. Values(gaussElim(gf2)) /\ DOMAIN gaussElim(gf2) \subseteq Unset(cellState)
    BY <1>2, GaussTyped DEF SystemTyped
  <2>3. QED BY <1>1, <2>1, <2>2, LearnExact
<1>7. CASE BoundLine
  <2>1. PICK cells \in Seq(Cells) : \E new :
              /\ Values(new) /\ DOMAIN new \subseteq Unset(cellState) /\ AssignCells(new)
    BY <1>2, <1>7, BoundLineOf
  <2>2. PICK new : Values(new) /\ DOMAIN new \subseteq Unset(cellState) /\ AssignCells(new)
    BY <2>1
  <2>3. UNCHANGED <<input, method>> /\ pc' # "cascade" /\ pc # "ready"
    BY <1>7 DEF BoundLine
  <2>4. QED BY <1>1, <2>2, <2>3, LearnExact
<1>8. CASE BoundViolated \/ BoundPass
  <2>1. UNCHANGED <<intLines, cellState, method>> /\ pc' # "cascade"
    <3>1. method \in {"solve", "cascade", "hybrid"}
      BY DEF SolverSound, ControlRight
    <3>2. CASE BoundViolated
      BY <3>1, <3>2 DEF BoundViolated, Inconsistent, system
    <3>3. CASE BoundPass
      BY <3>3 DEF BoundPass
    <3>4. QED BY <1>8, <3>2, <3>3
  <2>2. QED BY <1>1, <2>1, CalmExact
<1>9. CASE CrossPass
  <2> DEFINE new == [x \in Deducible |-> CHOOSE v \in CanBe(x) : TRUE]
  <2>1. method' = method /\ pc # "ready"
    BY <1>9 DEF CrossPass
  <2>2. CASE Inconsistent /\ UNCHANGED system
    <3>1. UNCHANGED <<intLines, cellState>>
      BY <2>2 DEF system
    <3>2. pc' # "cascade"
      BY <1>1, <2>2, NextGoes DEF Inconsistent, SolverSound, ControlRight
    <3>3. QED BY <1>1, <2>1, <3>1, <3>2, CalmExact
  <2>3. CASE AssignDeducible(new) /\ pc' \in {AfterFixpoint, "gauss"}
    <3>1. pc' # "cascade"
      BY <2>3, AfterFixpointGoes DEF SolverSound, ControlRight
    <3>2. Values(new) /\ DOMAIN new \subseteq Unset(cellState)
      BY <1>2, DeducibleFree
    <3>3. AssignCells(new)
      BY <2>3 DEF AssignDeducible
    <3> HIDE DEF new
    <3>4. QED BY <1>1, <2>1, <3>1, <3>2, <3>3, LearnExact
  <2>4. QED BY <1>9, <2>2, <2>3 DEF CrossPass
<1>10. QED BY <1>3, <1>4, <1>5, <1>6, <1>7, <1>8, <1>9 DEF Next, Iteration

LEMMA RoundsExact ==
  ASSUME SolverSound, AllExact, BeginRound \/ BeginAxis \/ AxisLine \/ EndAxis \/ EndRound
  PROVE  AllExact'
<1>1. original' = original /\ config' = config /\ donated' = donated
  BY DEF BeginRound, BeginAxis, AxisLine, EndAxis, EndRound, input
<1>2. CASE BeginRound
  <2>1. pc = "round" /\ pc' = "gauss" /\ UNCHANGED <<intLines, cellState>> /\ method' = "hybrid"
    BY <1>2 DEF BeginRound, system
  <2>2. config.hybrid
    BY <2>1 DEF SolverSound, ControlRight
  <2>3. QED BY <1>1, <2>1, <2>2, CalmExact DEF Restarting
<1>3. CASE BeginAxis \/ EndAxis \/ EndRound
  <2>1. UNCHANGED <<intLines, cellState, method>> /\ pc' \in {"axis", "axes", "round", "roundsOver"}
    BY <1>3 DEF BeginAxis, EndAxis, EndRound, NextRound, system
  <2>2. QED BY <1>1, <2>1, CalmExact DEF Restarting
<1>4. CASE AxisLine
  <2> DEFINE line == AxisLines[axis][Head(lines)]
  <2>1. pc = "axis" /\ lines # <<>> /\ UNCHANGED <<input, method, pc>>
    BY <1>4 DEF AxisLine
  <2>2. line \in AxisEntry
    BY <2>1, HeadOfAxis DEF SolverSound
  <2>3. (\E new \in Found(line) : AssignCells(new)) \/ UNCHANGED <<cellState, intLines>>
    BY <1>4 DEF AxisLine
  <2> HIDE DEF line
  <2>4. CASE \E new \in Found(line) : AssignCells(new)
    <3>1. PICK new \in Found(line) : AssignCells(new)
      BY <2>4
    <3>2. Values(new) /\ DOMAIN new \subseteq Unset(cellState)
      BY <2>2, FoundFree
    <3>3. QED BY <2>1, <3>1, <3>2, LearnExact DEF Restarting
  <2>5. CASE UNCHANGED <<cellState, intLines>>
    BY <1>1, <2>1, <2>5, CalmExact DEF Restarting
  <2>6. QED BY <2>3, <2>4, <2>5
<1>5. QED BY <1>2, <1>3, <1>4

\* What a step of the restarts has to respect.
LEMMA RestartExact ==
  ASSUME SolverSound, AllExact, Restarting, UNCHANGED <<input, method, base>>,
         pc' \in {"shuffle", "search", "undefined", "final"},
         intLines' \in Seq(LinesSeen(original, Overlooked, cellState')),
         pc' = "search" => \A k \in DOMAIN stack' :
                             stack'[k].lines \in Seq(LinesSeen(original, Overlooked, stack'[k].cells))
  PROVE  AllExact'
<1>1. original' = original /\ config' = config /\ donated' = donated /\ method' = method
      /\ base' = base
  BY DEF input
<1>2. Overlooked' = Overlooked
  BY <1>1 DEF Overlooked
<1>3. pc' # "cascade"
  OBVIOUS
<1>4. QED BY <1>1, <1>2, <1>3 DEF AllExact

\* The snapshot of a decision knows its cells exactly.
LEMMA SnapshotExact ==
  ASSUME SolverSound, AllExact, pc = "search", NEW k \in DOMAIN stack
  PROVE  ExactAt(original, Snapshot(stack[k])) /\ Snapshot(stack[k]) \in Position
         /\ Snapshot(stack[k]).cells = stack[k].cells /\ Snapshot(stack[k]).ok
<1>1. stack \in Seq(Decisions)
  BY RestartFacts DEF Restarting
<1>2. Snapshot(stack[k]) \in Position /\ Snapshot(stack[k]).cells = stack[k].cells
      /\ Snapshot(stack[k]).lines = stack[k].lines
  BY <1>1, DecisionOf
<1>3. stack[k].lines \in Seq(LinesSeen(original, Overlooked, stack[k].cells))
  BY DEF AllExact
<1>4. Snapshot(stack[k]).ok
  BY DEF Snapshot
<1>5. Overlooked \cap Unset(stack[k].cells) = {}
  <2>1. Extends(stack[k].cells, base.cells) /\ Keeps(base.cells) /\ InputRight
    BY RestartFacts DEF Nested, Restarting, SolverSound, DonatedKept
  <2>2. QED BY <2>1, KeepsOn, OverlookedKnown
<1>6. QED BY <1>2, <1>3, <1>4, <1>5 DEF ExactAt

LEMMA BacktrackExact ==
  ASSUME SolverSound, AllExact, pc = "search", Backtrack, base' = base
  PROVE  /\ intLines' \in Seq(LinesSeen(original, Overlooked, cellState'))
         /\ pc' \in {"shuffle", "search"}
         /\ pc' = "search" => \A k \in DOMAIN stack' :
                                stack'[k].lines \in Seq(LinesSeen(original, Overlooked, stack'[k].cells))
<1>1. stack \in Seq(Decisions)
  BY RestartFacts DEF Restarting
<1>2. PICK n \in Nat : n = Len(stack) /\ DOMAIN stack = 1..n
  BY <1>1
<1>3. CASE Reversible # {}
  <2> DEFINE k == Max(Reversible)
             s == Snapshot(stack[k])
             t == Try(s, stack[k].cell, 1)
             d == [stack[k] EXCEPT !.value = 1]
             below == SubSeq(stack, 1, k - 1)
  <2>1. k \in DOMAIN stack /\ stack[k].cell \in Unset(stack[k].cells)
    BY <1>3, Reversal
  <2>2. /\ stack' = Append(below, d) /\ cellState' = t.cells /\ intLines' = t.lines /\ pc' = pc
    BY <1>3 DEF Backtrack, Reverse1
  <2> HIDE DEF k
  <2>3. stack[k] \in Decisions
    BY <1>1, <2>1
  <2>4. d \in Decisions /\ d.cells = stack[k].cells /\ d.lines = stack[k].lines
    BY <2>3 DEF Decisions
  <2>5. ExactAt(original, s) /\ s \in Position /\ s.cells = stack[k].cells
    BY <2>1, SnapshotExact
  <2> HIDE DEF d, s
  <2>6. ExactAt(original, t)
    <3>1. stack[k].cell \in Unset(s.cells)
      BY <2>1, <2>5
    <3>2. QED BY <2>5, <3>1, TryOf
  <2> HIDE DEF t
  <2>7. PICK h \in 0..(n - 1) : k = h + 1 /\ k - 1 = h
    BY <1>2, <2>1
  <2>8. below \in Seq(Decisions) /\ Len(below) = h /\ \A j \in 1..h : below[j] = stack[j]
    <3>1. below = SubSeq(stack, 1, h)
      BY <2>7
    <3>2. stack \in Seq(Decisions) /\ h \in Nat /\ h <= Len(stack)
      BY <1>1, <1>2, <2>7
    <3>3. /\ SubSeq(stack, 1, h) \in Seq(Decisions) /\ Len(SubSeq(stack, 1, h)) = h
          /\ \A j \in 1..h : SubSeq(stack, 1, h)[j] = stack[j]
      BY ONLY <3>2, SMT
    <3>4. QED BY <3>1, <3>3
  <2> HIDE DEF below
  <2>9. /\ DOMAIN stack' = 1..(h + 1) /\ stack'[h + 1] = d
        /\ \A j \in 1..h : stack'[j] = stack[j]
    BY <2>2, <2>4, <2>8
  <2>10. ASSUME NEW j \in DOMAIN stack'
         PROVE  stack'[j].lines \in Seq(LinesSeen(original, Overlooked, stack'[j].cells))
    <3>1. CASE j = h + 1
      <4>1. stack[k].lines \in Seq(LinesSeen(original, Overlooked, stack[k].cells))
        BY <2>1 DEF AllExact
      <4>2. QED BY <2>4, <2>9, <3>1, <4>1
    <3>2. CASE j \in 1..h
      <4>1. stack'[j] = stack[j] /\ j \in DOMAIN stack
        BY <1>2, <2>7, <2>9, <3>2
      <4>2. QED BY <4>1 DEF AllExact
    <3>3. QED BY <2>7, <2>9, <3>1, <3>2
  <2>11. intLines' \in Seq(LinesSeen(original, Overlooked, cellState'))
    BY <2>2, <2>6 DEF ExactAt
  <2>12. QED BY <2>2, <2>10, <2>11
<1>4. CASE Reversible = {}
  <2> DEFINE s == IF stack = <<>> THEN Here ELSE Snapshot(stack[1])
  <2>1. cellState' = s.cells /\ intLines' = s.lines /\ pc' = "shuffle"
    BY <1>4 DEF Backtrack, GiveUp
  <2>2. CASE stack = <<>>
    BY <2>1, <2>2 DEF Here, AllExact
  <2>3. CASE stack # <<>>
    <3>1. n # 0
      BY <1>1, <1>2, <2>3, EmptySeq
    <3>2. 1 \in DOMAIN stack
      BY <1>2, <3>1
    <3>3. s.cells = stack[1].cells /\ s.lines = stack[1].lines
      BY <1>1, <2>3, <3>2, DecisionOf
    <3>4. stack[1].lines \in Seq(LinesSeen(original, Overlooked, stack[1].cells))
      BY <3>2 DEF AllExact
    <3>5. QED BY <2>1, <3>3, <3>4
  <2>4. QED BY <2>2, <2>3
<1>5. QED BY <1>3, <1>4

LEMMA DecideExact ==
  ASSUME SolverSound, AllExact, Decide PROVE AllExact'
<1>1. /\ pc = "search" /\ UNCHANGED <<input, method, base>>
  BY DecideGoes
<1>2. Restarting /\ stack \in Seq(Decisions)
  BY <1>1, RestartFacts DEF Restarting
<1>3. CASE pc' = pc /\ \E x \in Unset(cellState) : \E v \in {0, 1} :
                 /\ stack' = Append(stack, Decision(x, v, Here))
                 /\ cellState' = Try(Here, x, v).cells /\ intLines' = Try(Here, x, v).lines
  <2>1. PICK x \in Unset(cellState), v \in {0, 1} :
                 /\ stack' = Append(stack, Decision(x, v, Here))
                 /\ cellState' = Try(Here, x, v).cells /\ intLines' = Try(Here, x, v).lines
    BY <1>3
  <2> DEFINE t == Try(Here, x, v)
             d == Decision(x, v, Here)
  <2>2. Here \in Position /\ Here.cells = cellState /\ ExactAt(original, Here)
    BY <1>1, HereExact
  <2>3. ExactAt(original, t)
    BY <2>2, TryOf
  <2>4. cellState' = t.cells /\ intLines' = t.lines /\ stack' = Append(stack, d)
    BY <2>1
  <2> HIDE DEF t
  <2>5. intLines' \in Seq(LinesSeen(original, Overlooked, cellState'))
    BY <2>3, <2>4 DEF ExactAt
  <2>6. d.lines = intLines /\ d.cells = cellState
    BY DEF Decision, Here
  <2> HIDE DEF d
  <2>7. ASSUME NEW j \in DOMAIN stack'
        PROVE  stack'[j].lines \in Seq(LinesSeen(original, Overlooked, stack'[j].cells))
    <3>1. PICK n \in Nat : n = Len(stack) /\ DOMAIN stack = 1..n
      BY <1>2
    <3>2. /\ DOMAIN stack' = 1..(n + 1) /\ stack'[n + 1] = d
          /\ \A i \in 1..n : stack'[i] = stack[i]
      BY <1>2, <2>4, <3>1
    <3>3. CASE j = n + 1
      BY <2>6, <3>2, <3>3 DEF AllExact
    <3>4. CASE j \in 1..n
      BY <1>1, <3>1, <3>2, <3>4 DEF AllExact
    <3>5. QED BY <3>1, <3>2, <3>3, <3>4
  <2>8. QED BY <1>1, <1>2, <1>3, <2>5, <2>7, RestartExact
<1>4. CASE Backtrack
  BY <1>1, <1>2, <1>4, BacktrackExact, RestartExact
<1>5. QED BY <1>3, <1>4, DecideGoes

LEMMA CheckpointExact ==
  ASSUME SolverSound, AllExact, Checkpoint PROVE AllExact'
<1> DEFINE new == CheckpointGain
           t == propagateIB(AssignIn(Here, new))
<1>1. /\ pc = "search" /\ pc' = pc /\ cellState' = t.cells /\ intLines' = t.lines
      /\ UNCHANGED <<input, method, base, stack>>
  BY DEF Checkpoint, Searching
<1>2. Values(new) /\ DOMAIN new \subseteq Unset(cellState)
  BY <1>1, CheckpointGainOf
<1> HIDE DEF new
<1>3. Here \in Position /\ Here.cells = cellState /\ ExactAt(original, Here)
  BY <1>1, HereExact
<1>4. ExactAt(original, t)
  BY <1>2, <1>3, AssignedOn
<1> HIDE DEF t
<1>5. intLines' \in Seq(LinesSeen(original, Overlooked, cellState'))
  BY <1>1, <1>4 DEF ExactAt
<1>6. \A k \in DOMAIN stack' : stack'[k].lines \in Seq(LinesSeen(original, Overlooked, stack'[k].cells))
  BY <1>1 DEF AllExact
<1>7. QED BY <1>1, <1>5, <1>6, RestartExact DEF Restarting

LEMMA RestartsExact ==
  ASSUME SolverSound, AllExact, Restarts PROVE AllExact'
<1>1. CASE BeginRestarts
  <2>1. /\ pc = "roundsOver" /\ UNCHANGED <<original, config, donated, intLines, cellState, method>>
        /\ \/ base'.lines = intLines /\ base'.cells = cellState /\ pc' = "shuffle"
           \/ pc' = "final"
    BY <1>1 DEF BeginRestarts, input, system
  <2>2. Overlooked' = Overlooked
    BY <2>1 DEF Overlooked
  <2>3. QED BY <2>1, <2>2 DEF AllExact, Restarting
<1>2. CASE ShuffleNothing \/ OutOfDecisions \/ OrderExhausted \/ Solved
  <2>1. /\ Restarting /\ pc' \in {"undefined", "shuffle", "final"}
        /\ UNCHANGED <<input, method, base, intLines, cellState>>
    BY <1>2 DEF ShuffleNothing, OutOfDecisions, OrderExhausted, Solved, Deciding, Searching,
                Restarting, system, search
  <2>2. QED BY <2>1, RestartExact DEF AllExact
<1>3. CASE BeginRestart \/ RestartsOver
  <2>1. /\ pc = "shuffle" /\ pc' \in {"search", "final"} /\ UNCHANGED <<input, method, base>>
        /\ cellState' = base.cells /\ intLines' = base.lines
        /\ pc' = "search" => stack' = <<>>
    BY <1>3 DEF BeginRestart, RestartsOver, search
  <2>2. Restarting
    BY <2>1 DEF Restarting
  <2>3. intLines' \in Seq(LinesSeen(original, Overlooked, cellState'))
    BY <2>1, <2>2 DEF AllExact
  <2>4. pc' = "search" => \A k \in DOMAIN stack' :
                             stack'[k].lines \in Seq(LinesSeen(original, Overlooked, stack'[k].cells))
    BY <2>1
  <2>5. QED BY <2>1, <2>2, <2>3, <2>4, RestartExact
<1>4. CASE WrongBlock
  <2>1. pc = "search" /\ Backtrack /\ UNCHANGED <<input, method, base>>
    BY <1>4 DEF WrongBlock, Searching
  <2>2. QED BY <2>1, BacktrackExact, RestartExact DEF Restarting
<1>5. QED BY <1>1, <1>2, <1>3, <1>4, DecideExact, CheckpointExact DEF Restarts

LEMMA CommandExact ==
  ASSUME SolverSound, AllExact, [CommandNext]_commandVars PROVE AllExact'
<1>1. CASE Next /\ UNCHANGED <<rounds, search>> /\ UNCHANGED <<files, blocks>>
  BY <1>1, NextExact
<1>2. CASE BeginRound \/ BeginAxis \/ AxisLine \/ EndAxis \/ EndRound
  BY <1>2, RoundsExact
<1>3. CASE Restarts
  BY <1>3, RestartsExact
<1>4. CASE Final
  <2>1. UNCHANGED <<original, config, donated, intLines, cellState, method>> /\ pc' = "done"
    BY <1>4 DEF Final, input, system
  <2>2. QED BY <2>1, CalmExact DEF Restarting
<1>5. CASE NextBlock
  <2>1. /\ pc = "done" /\ block < LastBlock /\ pc' = "ready" /\ UNCHANGED <<config, method>>
        /\ original' = loadOverlappingBlock(data, block + 1, overlap)
        /\ intLines' = buildIntLines(original', config)
        /\ cellState' = Nothing
    BY <1>5 DEF NextBlock, StartBlock, Nothing
  <2>2. block \in Nat /\ data \in Seq({0, 1}) /\ overlap \in 0..(kS - 1) /\ IsConfig(config)
    BY DEF SolverSound, FilesRight, InputRight
  <2>3. original' \in Matrices
    BY <2>1, <2>2, BlockOf
  <2>4. intLines' \in Seq(LinesOf(original', cellState'))
    BY <2>1, <2>2, <2>3, BuiltOf
  <2>5. intLines' \in Seq(LinesSeen(original', Overlooked', cellState'))
    BY <2>4, Wider DEF LinesSeen
  <2>6. QED BY <2>1, <2>5 DEF AllExact, Restarting
<1>6. CASE UNCHANGED commandVars
  <2>1. UNCHANGED <<original, config, donated, intLines, cellState, pc, method, base, stack>>
    BY <1>6 DEF commandVars, hybridVars, vars, input, system, search
  <2>2. Overlooked' = Overlooked
    BY <2>1 DEF Overlooked
  <2>3. QED BY <2>1, <2>2 DEF AllExact, Restarting, Assigned
<1>7. QED BY <1>1, <1>2, <1>3, <1>4, <1>5, <1>6 DEF CommandNext, Solve, HybridNext, Exit

LEMMA InitExact ==
  ASSUME CommandInit PROVE AllExact
<1>1. SolverInit /\ SolverSound
  BY InitSound DEF CommandInit, CombinatorInit, OverlapInit, Init
<1>2. original \in Matrices /\ IsConfig(config)
  BY <1>1 DEF SolverSound, InputRight
<1>3. /\ intLines = buildIntLines(original, config) /\ cellState = Nothing /\ pc = "ready"
      /\ method = IF config.hybrid \/ config.cascade THEN "cascade" ELSE "solve"
  BY <1>1 DEF SolverInit, Nothing
<1>4. intLines \in Seq(LinesOf(original, cellState))
  BY <1>2, <1>3, BuiltOf
<1>5. intLines \in Seq(LinesSeen(original, Overlooked, cellState))
  BY <1>4, Wider DEF LinesSeen
<1>6. QED BY <1>3, <1>5 DEF AllExact, Restarting

\* SystemSound: over right cells every equation holds of the block it was made from,
\* every integer line counts the ones and the cells left on it, and the count of
\* determined cells is theirs (buildSystem, assignCell, propagateGF2, gaussElim,
\* intBound, crossDeduce). A line solveCascade makes late counts the cells given
\* beforehand as left on it, with their ones.
THEOREM SystemStaysSound == Spec => []SystemSound
<1>1. CommandInit => SolverSound /\ AllExact
  BY InitSound, InitExact
<1>2. /\ SolverSound /\ AllExact /\ [CommandNext]_commandVars => AllExact'
  BY CommandExact
<1>3. SolverSound /\ AllExact => SystemSound
  <2> SUFFICES ASSUME SolverSound, AllExact PROVE SystemSound
    OBVIOUS
  <2>1. LinesExact
    <3>1. ASSUME NEW i \in DOMAIN intLines, NEW c, intLines[i] \in LinesOf(original, c)
          PROVE  /\ intLines[i].u = Cardinality({x \in intLines[i].cells : c[x] = Unassigned})
                 /\ intLines[i].rho = OnesOf(original, intLines[i].cells) - OnesOf(c, intLines[i].cells)
      <4>1. intLines[i].cells \cap Unset(c) = {x \in intLines[i].cells : c[x] = Unassigned}
        BY <3>1 DEF LinesOf, Line, Unset
      <4>2. QED BY <3>1, <4>1 DEF LinesOf
    <3>2. ASSUME NEW i \in DOMAIN intLines
          PROVE  \E c \in {cellState, Overlooking(cellState, Overlooked)} : intLines[i] \in LinesOf(original, c)
      <4>1. intLines[i] \in LinesSeen(original, Overlooked, cellState)
        BY DEF AllExact
      <4>2. QED BY <4>1 DEF LinesSeen
    <3>3. QED BY <3>1, <3>2 DEF LinesExact
  <2>2. QED BY <2>1, EquationsAndCount DEF SystemSound
<1>4. QED BY <1>1, <1>2, <1>3, SolverStaysSound, PTL DEF Spec

-------------------------------------------------------------------------------
(* Refutations.                                                            *)

\* The decisions below the k-th are right.
RightBelow(k) == \A j \in 1..(k - 1) : stack[j].value = original[stack[j].cell]

PathsRight ==
  pc = "search" /\ RightOf(original, base.cells) =>
    /\ \A k \in 1..(Len(stack) + 1) : RightBelow(k) => RightOf(original, Seen(k))
    /\ \A k \in DOMAIN stack : stack[k].value = 1 /\ RightBelow(k) => original[stack[k].cell] = 1

\* A search over a right baseline, as the proofs below use it.
OnRightBase ==
  /\ SolverSound /\ AllExact /\ PathsRight
  /\ pc = "search" /\ RightOf(original, base.cells)

LEMMA SearchFacts ==
  ASSUME OnRightBase
  PROVE  /\ original \in Matrices /\ \A crc \in crcLines : crc.eqns \subseteq EquationsOf(original)
         /\ stack \in Seq(Decisions) /\ cellState \in CellStates /\ Restarting
         /\ Here \in Position /\ Here.cells = cellState
         /\ RightOf(original, cellState) => SoundAt(original, Here)
<1>1. Restarting
  BY DEF OnRightBase, Restarting
<1>2. InputRight /\ SearchRight /\ SystemTyped
  BY DEF OnRightBase, SolverSound
<1>3. ExactAt(original, Here) /\ Here \in Position /\ Here.cells = cellState
  BY HereExact DEF OnRightBase
<1>4. RightOf(original, cellState) => SoundAt(original, Here)
  BY <1>2, <1>3, HereOf
<1>5. QED BY <1>1, <1>2, <1>3, <1>4 DEF InputRight, SearchRight, SystemTyped

\* Over right cells the right value is allowed.
LEMMA RightAllowed ==
  ASSUME OnRightBase, NEW s \in Position, SoundAt(original, s), NEW x \in Unset(s.cells)
  PROVE  LET t == Try(s, x, original[x]) IN
         /\ SoundAt(original, t) /\ t.ok /\ CrcConsistent(t.cells, x)
         /\ verifyRowLH(t.cells, x) /\ \A y \in Cells : CrcConsistent(t.cells, y)
<1> DEFINE t == Try(s, x, original[x])
<1>1. original \in Matrices /\ \A crc \in crcLines : crc.eqns \subseteq EquationsOf(original)
  BY SearchFacts
<1>2. x \in Cells /\ original[x] \in {0, 1}
  BY <1>1 DEF Unset, Matrices
<1>3. t \in Position /\ SoundAt(original, t)
  BY <1>1, <1>2, TryOf
<1> HIDE DEF t
<1>4. t.ok /\ t.cells \in CellStates /\ RightOf(original, t.cells)
  BY <1>3 DEF SoundAt, Position
<1>5. \A y \in Cells : CrcConsistent(t.cells, y) /\ verifyRowLH(t.cells, y)
  BY <1>1, <1>4, ChecksPass
<1>6. QED BY <1>2, <1>3, <1>4, <1>5 DEF t

\* The cells of a decision whose path below is right.
LEMMA SnapshotSound ==
  ASSUME OnRightBase, NEW k \in DOMAIN stack, RightBelow(k)
  PROVE  /\ SoundAt(original, Snapshot(stack[k])) /\ Snapshot(stack[k]) \in Position
         /\ Snapshot(stack[k]).cells = stack[k].cells
         /\ stack[k].cell \in Unset(Snapshot(stack[k]).cells)
         /\ stack[k].cell \in Cells /\ stack[k].value \in {0, 1}
<1>1. stack \in Seq(Decisions) /\ Restarting
  BY SearchFacts
<1>2. PICK n \in Nat : n = Len(stack) /\ DOMAIN stack = 1..n
  BY <1>1
<1>3. Seen(k) = stack[k].cells
  BY DEF Seen
<1>4. RightOf(original, stack[k].cells)
  BY <1>2, <1>3 DEF OnRightBase, PathsRight
<1>5. /\ ExactAt(original, Snapshot(stack[k])) /\ Snapshot(stack[k]) \in Position
      /\ Snapshot(stack[k]).cells = stack[k].cells /\ Snapshot(stack[k]).ok
  BY SnapshotExact DEF OnRightBase
<1>6. stack[k].cells[stack[k].cell] = Unassigned
  BY <1>1, RestartFacts DEF Nested, OnRightBase
<1>7. stack[k].cell \in Cells /\ stack[k].value \in {0, 1}
  BY <1>1, DecisionOf
<1>8. QED BY <1>4, <1>5, <1>6, <1>7 DEF SoundAt, Unset

\* Where the cells of now are wrong, the lowest wrong decision is a 0 that can be reversed.
LEMMA WrongTurn ==
  ASSUME OnRightBase, ~RightOf(original, cellState)
  PROVE  \E k \in Reversible : RightBelow(k) /\ original[stack[k].cell] = 1
<1>1. stack \in Seq(Decisions) /\ original \in Matrices
  BY SearchFacts
<1>2. PICK n \in Nat : n = Len(stack) /\ DOMAIN stack = 1..n
  BY <1>1
<1> DEFINE W == {j \in 1..n : stack[j].value # original[stack[j].cell]}
<1>3. W # {}
  <2>1. SUFFICES ASSUME W = {} PROVE FALSE
    OBVIOUS
  <2>2. RightBelow(n + 1)
    BY <2>1 DEF RightBelow
  <2>3. Seen(n + 1) = cellState
    BY <1>2 DEF Seen
  <2>4. n + 1 \in 1..(Len(stack) + 1)
    BY <1>2
  <2>5. QED BY <2>2, <2>3, <2>4 DEF OnRightBase, PathsRight
<1>4. W \in SUBSET (0..n)
  OBVIOUS
<1>5. PICK k \in 1..n : k \in W /\ \A j \in W : k <= j
  BY <1>3, <1>4, Extremes
<1>6. k \in 1..n /\ stack[k].value # original[stack[k].cell] /\ k \in DOMAIN stack
  BY <1>2, <1>5
<1>7. RightBelow(k)
  <2>1. ASSUME NEW j \in 1..(k - 1) PROVE j \notin W /\ j \in 1..n
    <3>1. j \in 1..n /\ ~(k <= j)
      OBVIOUS
    <3> HIDE DEF W
    <3>2. QED BY <1>5, <3>1
  <2>2. QED BY <2>1 DEF RightBelow
<1>8. /\ SoundAt(original, Snapshot(stack[k])) /\ Snapshot(stack[k]) \in Position
      /\ stack[k].cell \in Unset(Snapshot(stack[k]).cells)
      /\ stack[k].cell \in Cells /\ stack[k].value \in {0, 1}
  BY <1>6, <1>7, SnapshotSound
<1>9. original[stack[k].cell] \in {0, 1}
  BY <1>1, <1>8 DEF Matrices
<1>10. stack[k].value = 0 /\ original[stack[k].cell] = 1
  <2>1. stack[k].value = 1 => original[stack[k].cell] = 1
    BY <1>6, <1>7 DEF OnRightBase, PathsRight
  <2>2. QED BY <1>6, <1>8, <1>9, <2>1
<1>11. /\ Try(Snapshot(stack[k]), stack[k].cell, 1).ok
       /\ CrcConsistent(Try(Snapshot(stack[k]), stack[k].cell, 1).cells, stack[k].cell)
  BY <1>8, <1>10, RightAllowed
<1>12. k \in Reversible
  BY <1>6, <1>10, <1>11 DEF Reversible
<1>13. QED BY <1>7, <1>10, <1>12

\* Backtracking from wrong cells.
LEMMA BacktrackRight ==
  ASSUME OnRightBase, ~RightOf(original, cellState), Backtrack,
         UNCHANGED <<original, base>>
  PROVE  PathsRight'
<1>1. stack \in Seq(Decisions) /\ original \in Matrices
  BY SearchFacts
<1>2. PICK n \in Nat : n = Len(stack) /\ DOMAIN stack = 1..n
  BY <1>1
<1>3. PICK w \in Reversible : RightBelow(w) /\ original[stack[w].cell] = 1
  BY WrongTurn
<1>4. PICK k \in DOMAIN stack : k = Max(Reversible) /\ k \in Reversible /\ \A j \in Reversible : j <= k
  BY <1>3, Reversal DEF OnRightBase
<1> DEFINE s == Snapshot(stack[k])
           t == Try(s, stack[k].cell, 1)
           d == [stack[k] EXCEPT !.value = 1]
           below == SubSeq(stack, 1, k - 1)
<1>5. /\ stack' = Append(below, d) /\ cellState' = t.cells /\ pc' = pc
  BY <1>3, <1>4 DEF Backtrack, Reverse1
<1>6. w \in 1..n /\ stack[w].value = 0 /\ w <= k /\ k \in 1..n
  BY <1>2, <1>3, <1>4 DEF Reversible
<1>7. stack[k] \in Decisions
  BY <1>1, <1>4
<1>8. d \in Decisions /\ d.cell = stack[k].cell /\ d.value = 1 /\ d.cells = stack[k].cells
  BY <1>7 DEF Decisions
<1> HIDE DEF d
<1>9. PICK h \in 0..(n - 1) : k = h + 1 /\ k - 1 = h
  BY <1>6
<1>10. below \in Seq(Decisions) /\ Len(below) = h /\ \A j \in 1..h : below[j] = stack[j]
  <2>1. below = SubSeq(stack, 1, h)
    BY <1>9
  <2>2. stack \in Seq(Decisions) /\ h \in Nat /\ h <= Len(stack)
    BY <1>1, <1>2, <1>9
  <2>3. /\ SubSeq(stack, 1, h) \in Seq(Decisions) /\ Len(SubSeq(stack, 1, h)) = h
        /\ \A j \in 1..h : SubSeq(stack, 1, h)[j] = stack[j]
    BY ONLY <2>2, SMT
  <2>4. QED BY <2>1, <2>3
<1> HIDE DEF below
<1>11. /\ DOMAIN stack' = 1..k /\ Len(stack') = k /\ stack'[k] = d
       /\ \A j \in 1..h : stack'[j] = stack[j]
  BY <1>5, <1>8, <1>9, <1>10
<1>12. ASSUME NEW j \in 1..k PROVE RightBelow(j)' <=> RightBelow(j)
  <2>1. \A i \in 1..(j - 1) : i \in 1..h
    BY <1>6, <1>9
  <2>2. QED BY <1>11, <2>1 DEF RightBelow
<1>13. RightBelow(k) => original[stack[k].cell] = 1
  <2>1. HAVE RightBelow(k)
  <2>2. w = k
    <3>1. SUFFICES ASSUME w # k PROVE FALSE
      OBVIOUS
    <3>2. w \in 1..(k - 1)
      BY <1>6, <3>1
    <3>3. stack[w].value = 1
      BY <1>3, <2>1, <3>2 DEF RightBelow
    <3>4. QED BY <1>6, <3>3
  <2>3. QED BY <1>3, <2>2
<1>14. ASSUME NEW j \in 1..k, RightBelow(j)' PROVE RightOf(original, Seen(j)')
  <2>1. j \in DOMAIN stack /\ j \in 1..(Len(stack) + 1) /\ j \in DOMAIN stack'
    BY <1>2, <1>6, <1>11
  <2>2. RightOf(original, stack[j].cells)
    <3>1. RightBelow(j)
      BY <1>12, <1>14
    <3>2. QED BY <2>1, <3>1 DEF OnRightBase, PathsRight, Seen
  <2>3. Seen(j)' = stack'[j].cells
    BY <2>1 DEF Seen
  <2>4. stack'[j].cells = stack[j].cells
    BY <1>6, <1>8, <1>9, <1>11
  <2>5. QED BY <2>2, <2>3, <2>4
<1>15. ASSUME NEW p, p = k + 1, RightBelow(p)' PROVE RightOf(original, Seen(p)')
  <2>1. RightBelow(k)'
    <3>1. \A i \in 1..(k - 1) : i \in 1..(p - 1)
      BY <1>6, <1>15
    <3>2. \A i \in 1..(p - 1) : stack'[i].value = original'[stack'[i].cell]
      BY <1>15 DEF RightBelow
    <3>3. \A i \in 1..(k - 1) : stack'[i].value = original'[stack'[i].cell]
      BY <3>1, <3>2
    <3>4. QED BY <3>3 DEF RightBelow
  <2>2. RightBelow(k)
    BY <1>6, <1>12, <2>1
  <2>3. SoundAt(original, s) /\ s \in Position /\ stack[k].cell \in Unset(s.cells)
    BY <1>4, <2>2, SnapshotSound
  <2>4. original[stack[k].cell] = 1
    BY <1>13, <2>2
  <2> HIDE DEF s
  <2>5. SoundAt(original, t)
    BY <2>3, <2>4, RightAllowed
  <2>6. Seen(p)' = cellState'
    BY <1>6, <1>11, <1>15 DEF Seen
  <2> HIDE DEF t
  <2>7. QED BY <1>5, <2>5, <2>6 DEF SoundAt
<1>16. ASSUME NEW j \in DOMAIN stack', stack'[j].value = 1, RightBelow(j)'
       PROVE  original[stack'[j].cell] = 1
  <2>1. j \in 1..k /\ RightBelow(j)
    BY <1>11, <1>12, <1>16
  <2>2. CASE j = k
    BY <1>8, <1>11, <1>13, <2>1, <2>2
  <2>3. CASE j # k
    <3>1. j \in 1..h /\ j \in DOMAIN stack
      BY <1>2, <1>6, <1>9, <2>1, <2>3
    <3>2. QED BY <1>11, <1>16, <2>1, <3>1 DEF OnRightBase, PathsRight
  <2>4. QED BY <2>2, <2>3
<1>17. \A j \in 1..(Len(stack') + 1) : j \in 1..k \/ j = k + 1
  BY <1>6, <1>11
<1>18. QED BY <1>14, <1>15, <1>16, <1>17 DEF PathsRight

\* A decision forward.
LEMMA PushRight ==
  ASSUME OnRightBase, UNCHANGED <<original, base>>, NEW x \in Unset(cellState), NEW v \in {0, 1},
         v = 1 => ~Allowed0(Try(Here, x, 0), x),
         stack' = Append(stack, Decision(x, v, Here)), cellState' = Try(Here, x, v).cells
  PROVE  PathsRight'
<1>1. stack \in Seq(Decisions) /\ original \in Matrices /\ cellState \in CellStates
      /\ Here \in Position /\ Here.cells = cellState
      /\ (RightOf(original, cellState) => SoundAt(original, Here))
  BY SearchFacts
<1>2. PICK n \in Nat : n = Len(stack) /\ DOMAIN stack = 1..n
  BY <1>1
<1> DEFINE d == Decision(x, v, Here)
           t == Try(Here, x, v)
<1>3. d.cell = x /\ d.value = v /\ d.cells = cellState /\ x \in Cells /\ original[x] \in {0, 1}
  BY <1>1 DEF Decision, Here, Unset, Matrices
<1>4. stack' = Append(stack, d) /\ cellState' = t.cells
  OBVIOUS
<1> HIDE DEF d
<1>5. /\ DOMAIN stack' = 1..(n + 1) /\ Len(stack') = n + 1 /\ stack'[n + 1] = d
      /\ \A j \in 1..n : stack'[j] = stack[j]
  BY <1>1, <1>2, <1>4
<1>6. ASSUME NEW j \in 1..(n + 1) PROVE RightBelow(j)' <=> RightBelow(j)
  <2>1. \A i \in 1..(j - 1) : stack'[i] = stack[i]
    BY <1>5
  <2>2. QED BY <2>1 DEF RightBelow
<1>7. ASSUME NEW j \in 1..(n + 1) PROVE Seen(j)' = Seen(j)
  <2>1. CASE j \in 1..n
    BY <1>2, <1>5, <2>1 DEF Seen
  <2>2. CASE j = n + 1
    <3>1. Seen(j) = cellState
      BY <1>2, <2>2 DEF Seen
    <3>2. Seen(j)' = stack'[j].cells
      BY <1>5 DEF Seen
    <3>3. QED BY <1>3, <1>5, <2>2, <3>1, <3>2
  <2>3. QED BY <2>1, <2>2
<1>8. ASSUME NEW j \in 1..(n + 1), RightBelow(j) PROVE RightOf(original, Seen(j))
  BY <1>2, <1>8 DEF OnRightBase, PathsRight
<1>9. ASSUME RightBelow(n + 1) PROVE SoundAt(original, Here)
  <2>1. Seen(n + 1) = cellState
    BY <1>2 DEF Seen
  <2>2. QED BY <1>1, <1>8, <1>9, <2>1
<1>10. ASSUME RightBelow(n + 1), v = 1 PROVE original[x] = 1
  <2>1. SUFFICES ASSUME original[x] = 0 PROVE FALSE
    BY <1>3
  <2>2. SoundAt(original, Here) /\ x \in Unset(Here.cells)
    BY <1>1, <1>9, <1>10
  <2>3. /\ Try(Here, x, 0).ok /\ CrcConsistent(Try(Here, x, 0).cells, x)
        /\ verifyRowLH(Try(Here, x, 0).cells, x)
        /\ \A y \in Cells : CrcConsistent(Try(Here, x, 0).cells, y)
    BY <1>1, <2>1, <2>2, RightAllowed
  <2>4. Allowed0(Try(Here, x, 0), x)
    BY <2>3 DEF Allowed0
  <2>5. QED BY <1>10, <2>4
<1>11. ASSUME NEW p, p = n + 2, RightBelow(p)' PROVE RightOf(original, Seen(p)')
  <2>1. \A i \in 1..(p - 1) : stack'[i].value = original'[stack'[i].cell]
    BY <1>11 DEF RightBelow
  <2>2. PICK q \in 1..(n + 1) : q = n + 1
    OBVIOUS
  <2>3. RightBelow(q)'
    <3>1. \A i \in 1..(q - 1) : i \in 1..(p - 1)
      BY <1>11, <2>2
    <3>2. \A i \in 1..(q - 1) : stack'[i].value = original'[stack'[i].cell]
      BY <2>1, <3>1
    <3>3. QED BY <3>2 DEF RightBelow
  <2>4. RightBelow(n + 1)
    BY <1>6, <2>2, <2>3
  <2>5. original[x] = v
    <3>1. n + 1 \in 1..(p - 1)
      BY <1>11
    <3>2. stack'[n + 1].value = original'[stack'[n + 1].cell]
      BY <2>1, <3>1
    <3>3. QED BY <1>3, <1>5, <3>2
  <2>6. SoundAt(original, Here) /\ x \in Unset(Here.cells)
    BY <1>1, <1>9, <2>4
  <2>7. SoundAt(original, t)
    BY <1>1, <2>5, <2>6, RightAllowed
  <2>8. Seen(p)' = cellState'
    BY <1>5, <1>11 DEF Seen
  <2> HIDE DEF t
  <2>9. QED BY <1>4, <2>7, <2>8 DEF SoundAt
<1>12. ASSUME NEW j \in DOMAIN stack', stack'[j].value = 1, RightBelow(j)'
       PROVE  original[stack'[j].cell] = 1
  <2>1. j \in 1..(n + 1) /\ RightBelow(j)
    BY <1>5, <1>6, <1>12
  <2>2. CASE j = n + 1
    BY <1>3, <1>5, <1>10, <1>12, <2>1, <2>2
  <2>3. CASE j # n + 1
    <3>1. j \in 1..n /\ j \in DOMAIN stack
      BY <1>2, <2>1, <2>3
    <3>2. QED BY <1>5, <1>12, <2>1, <3>1 DEF OnRightBase, PathsRight
  <2>4. QED BY <2>2, <2>3
<1>13. ASSUME NEW j \in 1..(Len(stack') + 1), RightBelow(j)' PROVE RightOf(original, Seen(j)')
  <2>1. CASE j \in 1..(n + 1)
    <3>1. RightBelow(j) /\ Seen(j)' = Seen(j)
      BY <1>6, <1>7, <1>13, <2>1
    <3>2. QED BY <1>8, <2>1, <3>1
  <2>2. CASE j = n + 2
    BY <1>11, <1>13, <2>2
  <2>3. j \in 1..(n + 1) \/ j = n + 2
    BY <1>5
  <2>4. QED BY <2>1, <2>2, <2>3
<1>14. QED BY <1>12, <1>13 DEF PathsRight

LEMMA DecideRight ==
  ASSUME SolverSound, AllExact, PathsRight, Decide PROVE PathsRight'
<1>1. /\ pc = "search" /\ UNCHANGED <<input, base>>
  BY DecideGoes
<1> SUFFICES ASSUME RightOf(original', base'.cells) PROVE PathsRight'
  BY DEF PathsRight
<1>2. OnRightBase /\ UNCHANGED <<original, base>>
  BY <1>1 DEF OnRightBase, input
<1>3. CASE pc' = pc /\ \E x \in Unset(cellState) : \E v \in {0, 1} :
                 /\ IF v = 0 THEN Allowed0(Try(Here, x, 0), x)
                    ELSE ~Allowed0(Try(Here, x, 0), x)
                 /\ stack' = Append(stack, Decision(x, v, Here))
                 /\ cellState' = Try(Here, x, v).cells /\ intLines' = Try(Here, x, v).lines
  <2>1. PICK x \in Unset(cellState), v \in {0, 1} :
                 /\ IF v = 0 THEN Allowed0(Try(Here, x, 0), x)
                    ELSE ~Allowed0(Try(Here, x, 0), x)
                 /\ stack' = Append(stack, Decision(x, v, Here))
                 /\ cellState' = Try(Here, x, v).cells
    BY <1>3
  <2>2. v = 1 => ~Allowed0(Try(Here, x, 0), x)
    BY <2>1
  <2>3. QED BY <1>2, <2>1, <2>2, PushRight
<1>4. CASE /\ Backtrack
           /\ \E x \in Unset(cellState) :
                ~Allowed0(Try(Here, x, 0), x) /\ ~Allowed1(Try(Here, x, 1), x)
  <2>1. PICK x \in Unset(cellState) : ~Allowed0(Try(Here, x, 0), x) /\ ~Allowed1(Try(Here, x, 1), x)
    BY <1>4
  <2>2. ~RightOf(original, cellState)
    <3>1. SUFFICES ASSUME RightOf(original, cellState) PROVE FALSE
      OBVIOUS
    <3>2. /\ original \in Matrices /\ Here \in Position /\ Here.cells = cellState
          /\ SoundAt(original, Here)
      BY <1>2, <3>1, SearchFacts
    <3>3. original[x] \in {0, 1}
      BY <3>2 DEF Unset, Matrices
    <3>4. /\ Try(Here, x, original[x]).ok /\ CrcConsistent(Try(Here, x, original[x]).cells, x)
          /\ verifyRowLH(Try(Here, x, original[x]).cells, x)
          /\ \A y \in Cells : CrcConsistent(Try(Here, x, original[x]).cells, y)
      BY <1>2, <3>2, RightAllowed
    <3>5. CASE original[x] = 0
      BY <2>1, <3>4, <3>5 DEF Allowed0
    <3>6. CASE original[x] = 1
      BY <2>1, <3>4, <3>6 DEF Allowed1
    <3>7. QED BY <3>3, <3>5, <3>6
  <2>3. QED BY <1>2, <1>4, <2>2, BacktrackRight
<1>5. QED BY <1>3, <1>4, DecideGoes

\* Elimination at a checkpoint finds right cells from right cells.
LEMMA CheckpointGainRight ==
  ASSUME OnRightBase, RightOf(original, cellState) PROVE Right(original, CheckpointGain)
<1>1. original \in Matrices /\ cellState \in CellStates /\ Restarting
  BY SearchFacts
<1>2. base.gf2 \in Seq(EquationsOf(original)) /\ base.gf2 \in Seq(Equation)
  <2>1. base.gf2 \in Seq(EquationsOf(original))
    BY <1>1 DEF OnRightBase, SolverSound, EquationsRight
  <2>2. QED BY <2>1, EquationsTyped
<1>3. DOMAIN Known = Assigned /\ Right(original, Known)
  <2>1. Assigned \in SUBSET Cells
    BY DEF Assigned
  <2>2. Known = [x \in Assigned |-> cellState[x]]
    BY DEF Known, Restrict
  <2>3. QED BY <2>1, <2>2 DEF RightOf, Right, Assigned
<1>4. CheckpointRows \in Seq(EquationsOf(original))
  BY <1>1, <1>2, <1>3, SubstituteRight DEF CheckpointRows
<1>5. CheckpointRows \in Seq(CleanOf(original, Assigned))
  <2> DEFINE rows == CheckpointRows
  <2>1. /\ Len(rows) = Len(base.gf2)
        /\ \A i \in 1..Len(base.gf2) : rows[i].cells = base.gf2[i].cells \ Assigned
    BY <1>2, <1>3, SubstituteOf DEF CheckpointRows
  <2>2. rows \in Seq(EquationsOf(original))
    BY <1>4
  <2> HIDE DEF rows
  <2>3. \A i \in DOMAIN rows : rows[i].cells \cap Assigned = {} /\ rows[i] \in EquationsOf(original)
    BY <2>1, <2>2
  <2>4. \A i \in DOMAIN rows : rows[i] \in CleanOf(original, Assigned)
    BY <2>3 DEF CleanOf
  <2>5. rows \in Seq(CleanOf(original, Assigned))
    BY <2>2, <2>4
  <2>6. QED BY <2>5 DEF rows
<1>6. QED BY <1>1, <1>5, GaussRight DEF CheckpointGain

LEMMA CheckpointRight ==
  ASSUME SolverSound, AllExact, PathsRight, Checkpoint PROVE PathsRight'
<1> DEFINE new == CheckpointGain
           t == propagateIB(AssignIn(Here, new))
<1>1. /\ pc = "search" /\ cellState' = t.cells /\ UNCHANGED <<input, base, stack>>
  BY DEF Checkpoint, Searching
<1> SUFFICES ASSUME RightOf(original', base'.cells) PROVE PathsRight'
  BY DEF PathsRight
<1>2. OnRightBase /\ UNCHANGED <<original, base, stack>>
  BY <1>1 DEF OnRightBase, input
<1>3. Values(new) /\ DOMAIN new \subseteq Unset(cellState)
  BY <1>1, CheckpointGainOf
<1>4. RightOf(original, cellState) => RightOf(original, cellState')
  <2>1. HAVE RightOf(original, cellState)
  <2>2. /\ Here \in Position /\ Here.cells = cellState /\ SoundAt(original, Here)
        /\ original \in Matrices
    BY <1>2, <2>1, SearchFacts
  <2>3. Right(original, new)
    BY <1>2, <2>1, CheckpointGainRight
  <2> HIDE DEF new
  <2>4. SoundAt(original, t)
    BY <1>3, <2>2, <2>3, AssignedOn
  <2> HIDE DEF t
  <2>5. QED BY <1>1, <2>4 DEF SoundAt
<1> HIDE DEF t
<1>5. ASSUME NEW k \in 1..(Len(stack) + 1), RightBelow(k)' PROVE RightOf(original, Seen(k)')
  <2>1. RightBelow(k)
    BY <1>2, <1>5 DEF RightBelow
  <2>2. RightOf(original, Seen(k))
    BY <1>2, <2>1 DEF OnRightBase, PathsRight
  <2>3. CASE k \in DOMAIN stack
    <3>1. Seen(k)' = Seen(k)
      BY <1>2, <2>3 DEF Seen
    <3>2. QED BY <2>2, <3>1
  <2>4. CASE k \notin DOMAIN stack
    <3>1. Seen(k) = cellState /\ Seen(k)' = cellState'
      BY <1>2, <2>4 DEF Seen
    <3>2. QED BY <1>4, <2>2, <3>1
  <2>5. QED BY <2>3, <2>4
<1>6. ASSUME NEW k \in DOMAIN stack, stack[k].value = 1, RightBelow(k)' PROVE original[stack[k].cell] = 1
  <2>1. RightBelow(k)
    BY <1>2, <1>6 DEF RightBelow
  <2>2. QED BY <1>2, <1>6, <2>1 DEF OnRightBase, PathsRight
<1>7. QED BY <1>2, <1>5, <1>6 DEF PathsRight

LEMMA RestartsRight ==
  ASSUME SolverSound, AllExact, PathsRight, Restarts PROVE PathsRight'
<1>1. CASE BeginRestarts \/ ShuffleNothing \/ OutOfDecisions \/ OrderExhausted \/ Solved \/ RestartsOver
  <2>1. pc' # "search"
    BY <1>1 DEF BeginRestarts, ShuffleNothing, OutOfDecisions, OrderExhausted, Solved, RestartsOver
  <2>2. QED BY <2>1 DEF PathsRight
<1>2. CASE BeginRestart
  <2>1. stack' = <<>> /\ cellState' = base.cells /\ base' = base
    BY <1>2 DEF BeginRestart
  <2>2. DOMAIN stack' = {} /\ Len(stack') = 0
    BY <2>1
  <2>3. \A k : Seen(k)' = cellState'
    BY <2>2 DEF Seen
  <2>4. QED BY <2>1, <2>2, <2>3 DEF PathsRight
<1>3. CASE WrongBlock
  <2>1. /\ pc = "search" /\ Backtrack /\ UNCHANGED <<input, base>>
        /\ Assigned = Cells /\ cellState # original
    BY <1>3 DEF WrongBlock, Searching
  <2> SUFFICES ASSUME RightOf(original', base'.cells) PROVE PathsRight'
    BY DEF PathsRight
  <2>2. OnRightBase /\ UNCHANGED <<original, base>>
    BY <2>1 DEF OnRightBase, input
  <2>3. ~RightOf(original, cellState)
    <3>1. SUFFICES ASSUME RightOf(original, cellState) PROVE FALSE
      OBVIOUS
    <3>2. original \in Matrices /\ cellState \in CellStates
      BY <2>2, SearchFacts
    <3>3. \A x \in Cells : cellState[x] = original[x]
      BY <2>1, <3>1 DEF RightOf, Assigned
    <3>4. cellState = original
      BY <3>2, <3>3 DEF Matrices, CellStates
    <3>5. QED BY <2>1, <3>4
  <2>4. QED BY <2>1, <2>2, <2>3, BacktrackRight
<1>4. QED BY <1>1, <1>2, <1>3, DecideRight, CheckpointRight DEF Restarts

LEMMA CommandRight ==
  ASSUME SolverSound, AllExact, PathsRight, [CommandNext]_commandVars PROVE PathsRight'
<1>1. CASE Next /\ UNCHANGED <<rounds, search>> /\ UNCHANGED <<files, blocks>>
  <2>1. pc' # "search"
    BY <1>1, NextGoes DEF SolverSound, ControlRight, FromFixpoint, InFixpoint
  <2>2. QED BY <2>1 DEF PathsRight
<1>2. CASE BeginRound \/ BeginAxis \/ AxisLine \/ EndAxis \/ EndRound \/ Final \/ NextBlock
  <2>1. pc' # "search"
    BY <1>2 DEF BeginRound, BeginAxis, AxisLine, EndAxis, EndRound, NextRound, Final, NextBlock, StartBlock
  <2>2. QED BY <2>1 DEF PathsRight
<1>3. CASE Restarts
  BY <1>3, RestartsRight
<1>4. CASE UNCHANGED commandVars
  <2>1. UNCHANGED <<original, cellState, pc, base, stack>>
    BY <1>4 DEF commandVars, hybridVars, vars, input, system, search
  <2>2. QED BY <2>1 DEF PathsRight, RightBelow, Seen
<1>5. QED BY <1>1, <1>2, <1>3, <1>4 DEF CommandNext, Solve, HybridNext, Exit

\* RefutationsRight: over a right baseline and right decisions below it, a decision on
\* 1 is right (runRestart's propagateIB, checkCrcConsistency, gaussElimCheckpoint and
\* backtracking never cut the block off).
THEOREM RefutationsStayRight == Spec => []RefutationsRight
<1>1. CommandInit => SolverSound /\ AllExact /\ PathsRight
  <2>1. CommandInit => pc # "search"
    BY DEF CommandInit, CombinatorInit, OverlapInit, Init, SolverInit
  <2>2. QED BY <2>1, InitSound, InitExact DEF PathsRight
<1>2. SolverSound /\ AllExact /\ [CommandNext]_commandVars => AllExact'
  BY CommandExact
<1>3. SolverSound /\ AllExact /\ PathsRight /\ [CommandNext]_commandVars => PathsRight'
  BY CommandRight
<1>4. SolverSound /\ PathsRight => RefutationsRight
  <2> SUFFICES ASSUME SolverSound, PathsRight, pc = "search", BaseRight,
                      NEW k \in DOMAIN stack, stack[k].value = 1,
                      \A j \in 1..(k - 1) : stack[j].value = original[stack[j].cell]
               PROVE  original[stack[k].cell] = 1
    BY DEF RefutationsRight
  <2>1. RightOf(original, base.cells)
    BY DEF BaseRight, RightIn, RightOf
  <2>2. QED BY <2>1 DEF PathsRight, RightBelow
<1>5. QED BY <1>1, <1>2, <1>3, <1>4, SolverStaysSound, PTL DEF Spec

-------------------------------------------------------------------------------
(* Without solveHybrid, from right cells, only right cells are learnt.     *)

\* Substituting right cells leaves each equation without them, or with all its cells known.
LEMMA CleanSubstitute ==
  ASSUME NEW m \in Matrices, NEW S, NEW rows \in Seq(CleanOf(m, S)), NEW known, Right(m, known)
  PROVE  Substitute(rows, known) \in Seq(CleanOf(m, S \cup DOMAIN known))
<1> DEFINE t == Substitute(rows, known)
           C == CleanOf(m, S)
           D == CleanOf(m, S \cup DOMAIN known)
<1>1. C \subseteq EquationsOf(m)
  BY DEF CleanOf
<1>2. rows \in Seq(EquationsOf(m))
  BY <1>1, Wider
<1>3. rows \in Seq(Equation)
  BY <1>2, EquationsTyped
<1>4. /\ t \in Seq(EquationsOf(m)) /\ Len(t) = Len(rows)
      /\ \A i \in 1..Len(rows) : t[i].cells = rows[i].cells \ DOMAIN known
  BY <1>2, <1>3, SubstituteRight, SubstituteOf
<1> HIDE DEF t
<1>5. PICK n \in Nat : n = Len(rows) /\ DOMAIN t = 1..n /\ DOMAIN rows = 1..n
  BY <1>3, <1>4
<1>6. ASSUME NEW i \in 1..n PROVE t[i] \in D
  <2>1. rows[i] \in C /\ t[i] \in EquationsOf(m) /\ t[i].cells = rows[i].cells \ DOMAIN known
    BY <1>4, <1>5
  <2>2. rows[i].cells \subseteq S \/ rows[i].cells \cap S = {}
    BY <2>1 DEF CleanOf
  <2>3. t[i].cells \subseteq S \cup DOMAIN known \/ t[i].cells \cap (S \cup DOMAIN known) = {}
    BY <2>1, <2>2
  <2>4. QED BY <2>1, <2>3 DEF CleanOf
<1> HIDE DEF D
<1>7. t \in Seq(D)
  BY <1>4, <1>5, <1>6
<1>8. QED BY <1>7 DEF D, t

\* Any equations are clean of nothing, and of the cells just substituted.
LEMMA CleanOfNothing ==
  ASSUME NEW m, NEW rows \in Seq(EquationsOf(m)) PROVE rows \in Seq(CleanOf(m, {}))
<1>1. EquationsOf(m) \subseteq CleanOf(m, {})
  BY DEF CleanOf
<1>2. QED BY <1>1, Wider

LEMMA CleanOfKnown ==
  ASSUME NEW m \in Matrices, NEW rows \in Seq(EquationsOf(m)), NEW known, Right(m, known)
  PROVE  Substitute(rows, known) \in Seq(CleanOf(m, DOMAIN known))
<1>1. rows \in Seq(CleanOf(m, {}))
  BY CleanOfNothing
<1>2. Substitute(rows, known) \in Seq(CleanOf(m, {} \cup DOMAIN known))
  BY <1>1, CleanSubstitute
<1>3. {} \cup DOMAIN known = DOMAIN known
  OBVIOUS
<1>4. QED BY <1>2, <1>3

\* A column is known or it is not, where whole columns are.
LEMMA ColumnEquations ==
  ASSUME NEW w \in Widths, NEW m \in Matrices, NEW n \in 0..kS
  PROVE  AllCrcEquations(w, m, ColumnLines) \in Seq(CleanOf(m, {x \in Cells : x[2] < n}))
<1> DEFINE S == {x \in Cells : x[2] < n}
           T == CleanOf(m, S)
           E == [i \in DOMAIN ColumnLines |-> CrcEquations(w, m, ColumnLines[i])]
<1>1. ColumnLines \in Seq(LineSeqs) /\ DOMAIN ColumnLines = 1..kS /\ kS \in Nat
  BY StraightLines, Numbers DEF ColumnLines
<1>2. ASSUME NEW i \in 1..kS PROVE CrcEquations(w, m, ColumnLines[i]) \in Seq(T)
  <2> DEFINE line == ColumnLines[i]
             eqs == CrcEquations(w, m, line)
  <2>1. line \in LineSeqs
    BY <1>1
  <2>2. eqs \in Seq(EquationsOf(m))
    BY <2>1, CrcEquationsOf
  <2>3. line = [j \in 1..kS |-> <<j - 1, i - 1>>]
    BY DEF ColumnLines, ColumnCells
  <2>4. Len(line) = kS /\ \A j \in 1..kS : line[j][2] = i - 1
    BY <1>1, <2>3
  <2> HIDE DEF line
  <2>5. ASSUME NEW b \in DOMAIN eqs PROVE eqs[b] \in T
    <3>1. eqs[b] \in EquationsOf(m)
      BY <2>2
    <3>2. b \in 1..CrcBits[w]
      BY DEF CrcEquations
    <3>3. \A x \in eqs[b].cells : \E j \in 1..Len(line) : x = line[j]
      BY <3>2 DEF CrcEquations
    <3>4. \A x \in eqs[b].cells : x \in Cells /\ x[2] = i - 1
      <4>1. eqs[b].cells \subseteq Cells
        BY <3>1 DEF EquationsOf, Equation
      <4>2. QED BY <2>4, <3>3, <4>1
    <3>5. eqs[b].cells \subseteq S \/ eqs[b].cells \cap S = {}
      <4>1. CASE i - 1 < n
        BY <3>4, <4>1
      <4>2. CASE ~(i - 1 < n)
        BY <3>4, <4>2
      <4>3. QED BY <4>1, <4>2
    <3>6. QED BY <3>1, <3>5 DEF CleanOf
  <2> HIDE DEF eqs, T
  <2>6. eqs \in Seq(T)
    BY <2>2, <2>5
  <2>7. QED BY <2>6 DEF eqs, line
<1> HIDE DEF T
<1>3. E \in Seq(Seq(T))
  BY <1>1, <1>2
<1>4. FlattenSeq(E) \in Seq(T)
  <2> HIDE DEF E
  <2>1. QED BY <1>3, FlattenOf
<1>5. QED BY <1>4 DEF AllCrcEquations, T

-------------------------------------------------------------------------------

\* No cells are given beforehand to a cascade that makes lines and equations late,
\* which overlook them: gaussElim ignores the known cells an equation still mentions.
NothingOverlooked ==
  ~config.hybrid /\ config.cascade =>
    DOMAIN donated = {} \/ (config.yltpSeeds = <<>> /\ config.rltpCentres = <<>>)

\* The cells the equations have been told of.
Settled == Assigned \ DOMAIN found

AlgebraRight ==
  /\ NothingOverlooked
  /\ ~config.hybrid /\ DonationRight =>
       /\ RightOf(original, cellState)
       /\ result.feasible
       /\ pc \notin {"verify", "done"} => gf2 \in Seq(CleanOf(original, Settled))

OnAlgebra == SolverSound /\ AllExact /\ AlgebraRight /\ ~config.hybrid /\ DonationRight

LEMMA AlgebraFacts ==
  ASSUME OnAlgebra
  PROVE  /\ original \in Matrices /\ cellState \in CellStates /\ intLines \in Seq(Line)
         /\ RightOf(original, cellState) /\ result.feasible
         /\ intLines \in Seq(LinesOf(original, cellState))
         /\ gf2 \in Seq(EquationsOf(original))
         /\ pc \notin {"verify", "done"} => gf2 \in Seq(CleanOf(original, Settled))
         /\ pc # "intBound" => DOMAIN found = {} /\ Settled = Assigned
         /\ method \in {"solve", "cascade"} /\ pc \in InFixpoint \cup {"done"} /\ ~Restarting
         /\ Values(found) /\ DOMAIN found \subseteq Assigned /\ Right(original, found)
<1>1. /\ InputRight /\ SystemTyped /\ ControlRight /\ BoundRight /\ EquationsRight
  BY DEF OnAlgebra, SolverSound
<1>2. RightOf(original, cellState) /\ result.feasible
      /\ (pc \notin {"verify", "done"} => gf2 \in Seq(CleanOf(original, Settled)))
  BY DEF OnAlgebra, AlgebraRight
<1>3. method \in {"solve", "cascade"} /\ pc \in InFixpoint \cup {"done"} /\ ~Restarting
  BY <1>1 DEF OnAlgebra, ControlRight, Pcs, InFixpoint, Restarting
<1>4. gf2 \in Seq(EquationsOf(original))
  BY <1>1, <1>2, <1>3 DEF EquationsRight
<1>5. Values(found) /\ \A x \in DOMAIN found : cellState[x] = found[x]
  BY <1>1 DEF BoundRight
<1>6. DOMAIN found \subseteq Assigned
  <2>1. \A x \in DOMAIN found : x \in Cells /\ cellState[x] \in {0, 1}
    BY <1>5 DEF Values
  <2>2. QED BY <2>1 DEF Assigned, Unassigned
<1>7. Right(original, found)
  BY <1>2, <1>5, <1>6 DEF Right, RightOf, Assigned
<1>8. pc # "intBound" => DOMAIN found = {} /\ Settled = Assigned
  BY <1>1 DEF BoundRight, Settled
<1>9. original \in Matrices /\ cellState \in CellStates /\ intLines \in Seq(Line)
  BY <1>1 DEF InputRight, SystemTyped
<1>10. intLines \in Seq(LinesOf(original, cellState))
  <2>1. Overlooked = {}
    <3>1. CASE DOMAIN donated = {}
      BY <3>1 DEF Overlooked
    <3>2. CASE config.yltpSeeds = <<>> /\ config.rltpCentres = <<>>
      BY <3>2 DEF Overlooked
    <3>3. CASE ~config.cascade
      BY <3>3 DEF Overlooked, OnAlgebra, AllExact
    <3>4. QED BY <3>1, <3>2, <3>3 DEF OnAlgebra, AlgebraRight, NothingOverlooked
  <2>2. Overlooking(cellState, {}) = cellState
    BY <1>9 DEF Overlooking, CellStates
  <2>3. LinesSeen(original, Overlooked, cellState) = LinesOf(original, cellState)
    BY <2>1, <2>2 DEF LinesSeen
  <2>4. QED BY <2>3 DEF OnAlgebra, AllExact
<1>11. QED BY <1>2, <1>3, <1>4, <1>5, <1>6, <1>7, <1>8, <1>9, <1>10

\* Right cells learnt and substituted.
LEMMA LearnAlgebra ==
  ASSUME OnAlgebra, pc \in {"ready", "gauss", "cross"}, UNCHANGED input,
         NEW new, Values(new), DOMAIN new \subseteq Unset(cellState), Right(original, new),
         AssignCells(new), gf2' = Substitute(gf2, new), DOMAIN found' = {},
         result'.feasible = result.feasible
  PROVE  AlgebraRight'
<1>1. /\ original \in Matrices /\ cellState \in CellStates /\ intLines \in Seq(Line)
      /\ RightOf(original, cellState) /\ result.feasible
      /\ gf2 \in Seq(CleanOf(original, Assigned))
  BY AlgebraFacts
<1>2. original' = original /\ NothingOverlooked'
  BY DEF input, OnAlgebra, AlgebraRight, NothingOverlooked
<1>3. Assigned' = Assigned \cup DOMAIN new /\ RightOf(original, cellState')
  BY <1>1, LearnOf
<1>4. gf2' \in Seq(CleanOf(original, Assigned \cup DOMAIN new))
  BY <1>1, CleanSubstitute
<1>5. Settled' = Assigned \cup DOMAIN new
  BY <1>3 DEF Settled
<1>6. QED BY <1>1, <1>2, <1>3, <1>4, <1>5 DEF AlgebraRight

\* Nothing learnt.
LEMMA CalmAlgebra ==
  ASSUME OnAlgebra, UNCHANGED <<input, cellState>>, pc \notin {"verify", "done"},
         gf2' \in Seq(CleanOf(original, Settled')) \/ pc' = "verify",
         result'.feasible = result.feasible
  PROVE  AlgebraRight'
<1>1. RightOf(original, cellState) /\ result.feasible
  BY AlgebraFacts
<1>2. original' = original /\ NothingOverlooked'
  BY DEF input, OnAlgebra, AlgebraRight, NothingOverlooked
<1>3. QED BY <1>1, <1>2 DEF AlgebraRight

LEMMA PreAssignAlgebra ==
  ASSUME OnAlgebra, PreAssign PROVE AlgebraRight'
<1>1. pc = "ready" /\ AssignCells(donated) /\ gf2' = Substitute(gf2, donated)
      /\ UNCHANGED <<input, result, found>>
  BY DEF PreAssign, bound
<1>2. Values(donated) /\ DOMAIN donated \subseteq Unset(cellState)
  BY <1>1, DonatedFree DEF OnAlgebra, SolverSound
<1>3. Right(original, donated)
  BY DEF OnAlgebra, DonationRight, Right
<1>4. DOMAIN found' = {}
  BY <1>1, AlgebraFacts
<1>5. QED BY <1>1, <1>2, <1>3, <1>4, LearnAlgebra

LEMMA NoPartitionEquations ==
  ASSUME NEW T, NEW m, NEW cfg, cfg.yltpSeeds = <<>>, cfg.rltpCentres = <<>>
  PROVE  addYLTP(m, cfg) \in Seq(T) /\ addRLTP(m, cfg) \in Seq(T)
<1>1. <<>> \in Seq(Seq(T))
  OBVIOUS
<1>2. FlattenSeq(<<>>) \in Seq(T)
  BY <1>1, FlattenOf
<1>3. [i \in DOMAIN cfg.yltpSeeds |-> addYLTPWithSeed(m, cfg.yltpSeeds[i])] = <<>>
  OBVIOUS
<1>4. [i \in DOMAIN cfg.rltpCentres |-> addRLTPAt(m, cfg, cfg.rltpCentres[i])] = <<>>
  OBVIOUS
<1>5. QED BY <1>2, <1>3, <1>4 DEF addYLTP, addRLTP

LEMMA StartCascadeAlgebra ==
  ASSUME OnAlgebra, StartCascade PROVE AlgebraRight'
<1> DEFINE C == CleanOf(original, Assigned)
           vh == Given(config.useVHInCascade, IF config.vhBits = 16 THEN addVH16(original) ELSE addVH(original))
           yltp == addYLTP(original, config)
           rltp == addRLTP(original, config)
<1>1. /\ pc = "cascade" /\ UNCHANGED <<input, cellState, result, found>>
      /\ gf2' = gf2 \o vh \o yltp \o rltp
  BY DEF StartCascade, bound
<1>2. /\ original \in Matrices /\ gf2 \in Seq(C) /\ DOMAIN found = {} /\ method = "cascade"
      /\ IsConfig(config)
  BY <1>1, AlgebraFacts DEF OnAlgebra, SolverSound, ControlRight, InputRight
<1>3. Assigned = DOMAIN donated
  <2>1. Assigned \subseteq DOMAIN donated
    BY <1>1 DEF OnAlgebra, AllExact
  <2>2. DOMAIN donated \subseteq Assigned
    <3>1. \A x \in DOMAIN donated : cellState[x] = donated[x]
      BY <1>1 DEF OnAlgebra, SolverSound, DonatedKept, Keeps
    <3>2. \A x \in DOMAIN donated : x \in Cells /\ donated[x] \in {0, 1}
      BY DEF OnAlgebra, SolverSound, InputRight, Values
    <3>3. QED BY <3>1, <3>2 DEF Assigned, Unassigned
  <2>3. QED BY <2>1, <2>2
<1>4. vh \in Seq(C)
  <2>1. PICK n \in 0..kS : Assigned = {x \in Cells : x[2] < n}
    BY <1>3 DEF OnAlgebra, SolverSound, InputRight
  <2>2. 16 \in Widths /\ 32 \in Widths
    BY DEF Widths
  <2>3. addVH(original) \in Seq(C) /\ addVH16(original) \in Seq(C)
    BY <1>2, <2>1, <2>2, ColumnEquations DEF addVH, addVH16
  <2> HIDE DEF C
  <2>4. QED BY <2>3, GivenOf
<1>5. yltp \in Seq(C) /\ rltp \in Seq(C)
  <2>1. CASE DOMAIN donated = {}
    <3>1. C = CleanOf(original, {})
      BY <1>3, <2>1
    <3>2. yltp \in Seq(EquationsOf(original)) /\ rltp \in Seq(EquationsOf(original))
      BY <1>2, PartitionOf, SpiralOf
    <3> HIDE DEF C, yltp, rltp
    <3>3. QED BY <3>1, <3>2, CleanOfNothing
  <2>2. CASE config.yltpSeeds = <<>> /\ config.rltpCentres = <<>>
    <3> HIDE DEF C
    <3>1. QED BY <2>2, NoPartitionEquations
  <2>3. config.hybrid \/ config.cascade
    BY <1>2 DEF OnAlgebra, AllExact
  <2>4. QED BY <2>1, <2>2, <2>3 DEF OnAlgebra, AlgebraRight, NothingOverlooked
<1> HIDE DEF C, vh, yltp, rltp
<1>6. gf2' \in Seq(C)
  BY <1>1, <1>2, <1>4, <1>5
<1>7. Settled' = Assigned
  BY <1>1, <1>2 DEF Settled, Assigned
<1>8. gf2' \in Seq(CleanOf(original, Settled'))
  BY <1>6, <1>7 DEF C
<1>9. QED BY <1>1, <1>8, CalmAlgebra

LEMMA BeginPhaseAlgebra ==
  ASSUME OnAlgebra, BeginPhase PROVE AlgebraRight'
<1> DEFINE C == CleanOf(original, Assigned)
           dh(w, a, b) == AllCrcEquations(w, original, InRange(DiagLines, a, b))
           xh(w, a, b) == AllCrcEquations(w, original, InRange(AntiDiagLines, a, b))
           added(w, a, b) == Substitute(dh(w, a, b), Known) \o Substitute(xh(w, a, b), Known)
<1>1. pc = "phase" /\ UNCHANGED <<input, cellState, result, found>>
  BY DEF BeginPhase, bound
<1>2. /\ original \in Matrices /\ cellState \in CellStates /\ RightOf(original, cellState)
      /\ gf2 \in Seq(C) /\ DOMAIN found = {}
  BY <1>1, AlgebraFacts
<1>3. DOMAIN Known = Assigned /\ Right(original, Known)
  <2>1. Assigned \in SUBSET Cells /\ Known = [x \in Assigned |-> cellState[x]]
    BY DEF Assigned, Known, Restrict
  <2>2. QED BY <1>2, <2>1 DEF RightOf, Right, Assigned
<1>4. ASSUME NEW w \in Widths, NEW a, NEW b PROVE added(w, a, b) \in Seq(C)
  <2>1. dh(w, a, b) \in Seq(EquationsOf(original)) /\ xh(w, a, b) \in Seq(EquationsOf(original))
    BY <1>2, HashesOf
  <2> DEFINE d == dh(w, a, b)
             x == xh(w, a, b)
  <2> HIDE DEF d, x
  <2>2. Substitute(d, Known) \in Seq(C) /\ Substitute(x, Known) \in Seq(C)
    BY <1>2, <1>3, <2>1, CleanOfKnown DEF d, x
  <2> HIDE DEF C
  <2>3. Substitute(d, Known) \o Substitute(x, Known) \in Seq(C)
    BY <2>2
  <2>4. QED BY <2>3 DEF d, x
<1>5. \E more \in Seq(C) : gf2' = gf2 \o more
  <2> DEFINE a == Phases[phase].minLen
             b == Min({Phases[phase].maxLen, CascadeLimit})
  <2>1. 8 \in Widths /\ 16 \in Widths /\ 32 \in Widths
    BY DEF Widths
  <2>2. gf2' = gf2 \o CASE Phases[phase].hashBits = 8 -> added(8, a, b)
                        [] Phases[phase].hashBits = 16 -> added(16, a, b)
                        [] OTHER -> added(32, a, b)
    BY DEF BeginPhase, addDHRange, addXHRange, addDH16Range, addXH16Range, addDH8Range, addXH8Range
  <2> HIDE DEF a, b, added, C
  <2>3. added(8, a, b) \in Seq(C) /\ added(16, a, b) \in Seq(C) /\ added(32, a, b) \in Seq(C)
    BY <1>4, <2>1
  <2>4. QED BY <2>2, <2>3
<1>6. gf2' \in Seq(C)
  <2> HIDE DEF C
  <2>1. QED BY <1>2, <1>5
<1>7. Settled' = Assigned
  BY <1>1, <1>2 DEF Settled, Assigned
<1>8. gf2' \in Seq(CleanOf(original, Settled'))
  BY <1>6, <1>7
<1>9. QED BY <1>1, <1>8, CalmAlgebra

LEMMA GaussPassAlgebra ==
  ASSUME OnAlgebra, GaussPass PROVE AlgebraRight'
<1> DEFINE new == gaussElim(gf2)
<1>1. /\ pc = "gauss" /\ AssignCells(new) /\ gf2' = Substitute(gf2, new)
      /\ result' = [result EXCEPT !.determined = @ + Count(new)]
      /\ found' = NoneFound /\ UNCHANGED input
  BY DEF GaussPass
<1>2. /\ original \in Matrices /\ cellState \in CellStates
      /\ gf2 \in Seq(CleanOf(original, Assigned))
  BY <1>1, AlgebraFacts
<1>3. Values(new) /\ DOMAIN new \subseteq Unset(cellState)
  BY GaussTyped DEF OnAlgebra, SolverSound, SystemTyped
<1>4. Right(original, new)
  BY <1>2, GaussRight
<1> HIDE DEF new
<1>5. result'.feasible = result.feasible
  BY <1>1 DEF OnAlgebra, SolverSound, SystemTyped, Results
<1>6. QED BY <1>1, <1>3, <1>4, <1>5, NoneKnown, LearnAlgebra

\* Over right cells a line has room for what is left on it.
LEMMA LineFits ==
  ASSUME OnAlgebra, NEW i \in DOMAIN intLines
  PROVE  LET l == intLines[i]
             F == l.cells \cap Unset(cellState)
         IN  /\ F \in SUBSET Cells /\ l.u = Cardinality(F) /\ l.u \in Nat
             /\ l.rho = OnesOf(original, F) /\ l.rho \in 0..l.u /\ ~Violated(l)
<1>1. /\ original \in Matrices /\ cellState \in CellStates /\ RightOf(original, cellState)
      /\ intLines \in Seq(LinesOf(original, cellState))
  BY AlgebraFacts
<1>2. intLines[i] \in LinesOf(original, cellState)
  BY <1>1
<1> DEFINE l == intLines[i]
<1> HIDE DEF l
<1>3. l \in LinesOf(original, cellState)
  BY <1>2 DEF l
<1>4. /\ l.cells \cap Unset(cellState) \in SUBSET Cells
      /\ l.u = Cardinality(l.cells \cap Unset(cellState)) /\ l.u \in Nat
      /\ l.rho = OnesOf(original, l.cells \cap Unset(cellState)) /\ l.rho \in 0..l.u
  BY <1>1, <1>3, RightLine
<1>5. ~Violated(l)
  BY <1>4 DEF Violated
<1>6. QED BY <1>4, <1>5 DEF l

LEMMA BoundLineAlgebra ==
  ASSUME OnAlgebra, BoundLine PROVE AlgebraRight'
<1> DEFINE l == intLines[Head(queue)]
           F == l.cells \cap Unset(cellState)
<1>1. SystemTyped /\ BoundRight
  BY DEF OnAlgebra, SolverSound
<1>2. PICK cells \in Seq(Cells) : \E new :
        /\ Values(new) /\ DOMAIN new \subseteq Unset(cellState)
        /\ DOMAIN new = (IF Forces(l) THEN l.cells \cap Unset(cellState) ELSE {})
        /\ \A x \in DOMAIN new : new[x] = IF l.rho = 0 THEN 0 ELSE 1
        /\ AssignCells(new) /\ found' = Joined(found, new)
  BY <1>1, BoundLineOf
<1>3. PICK new :
        /\ Values(new) /\ DOMAIN new \subseteq Unset(cellState)
        /\ DOMAIN new = (IF Forces(l) THEN l.cells \cap Unset(cellState) ELSE {})
        /\ \A x \in DOMAIN new : new[x] = IF l.rho = 0 THEN 0 ELSE 1
        /\ AssignCells(new) /\ found' = Joined(found, new)
  BY <1>2
<1>4. pc = "intBound" /\ pc' = pc /\ UNCHANGED <<input, gf2, result>>
  BY DEF BoundLine
<1>5. /\ original \in Matrices /\ cellState \in CellStates /\ intLines \in Seq(Line)
      /\ RightOf(original, cellState) /\ result.feasible
      /\ gf2 \in Seq(CleanOf(original, Settled))
      /\ DOMAIN found \subseteq Assigned
  BY <1>4, AlgebraFacts
<1>6. /\ F \in SUBSET Cells /\ l.u = Cardinality(F) /\ l.rho = OnesOf(original, F)
  BY <1>1, HeadLine, LineFits DEF BoundLine
<1> HIDE DEF l
<1>7. Right(original, new)
  <2>1. ASSUME NEW x \in DOMAIN new PROVE original[x] = new[x]
    <3>1. Forces(l) /\ x \in F /\ new[x] = IF l.rho = 0 THEN 0 ELSE 1
      BY <1>3
    <3>2. l.rho = 0 \/ l.rho = l.u
      BY <3>1 DEF Forces
    <3> HIDE DEF F
    <3>3. /\ OnesOf(original, F) = 0 => \A y \in F : original[y] = 0
          /\ OnesOf(original, F) = Cardinality(F) => \A y \in F : original[y] = 1
      BY <1>5, <1>6, OnesAll
    <3>4. CASE l.rho = 0
      BY <1>6, <3>1, <3>3, <3>4
    <3>5. CASE l.rho # 0
      BY <1>6, <3>1, <3>2, <3>3, <3>5
    <3>6. QED BY <3>4, <3>5
  <2>2. QED BY <2>1 DEF Right
<1>8. Assigned' = Assigned \cup DOMAIN new /\ Assigned \cap DOMAIN new = {}
      /\ RightOf(original, cellState')
  BY <1>3, <1>5, <1>7, LearnOf
<1>9. DOMAIN found' = DOMAIN found \cup DOMAIN new
  BY <1>3 DEF Joined
<1>10. Settled' = Settled
  BY <1>5, <1>8, <1>9 DEF Settled
<1>11. original' = original /\ NothingOverlooked'
  BY <1>4 DEF input, OnAlgebra, AlgebraRight, NothingOverlooked
<1>12. QED BY <1>4, <1>5, <1>8, <1>10, <1>11 DEF AlgebraRight

LEMMA BoundPassAlgebra ==
  ASSUME OnAlgebra, BoundPass PROVE AlgebraRight'
<1>1. /\ pc = "intBound" /\ gf2' = Substitute(gf2, found) /\ found' = NoneFound
      /\ result' = [result EXCEPT !.determined = @ + Count(found)]
      /\ UNCHANGED <<input, cellState>>
  BY DEF BoundPass
<1>2. /\ original \in Matrices /\ gf2 \in Seq(CleanOf(original, Settled))
      /\ DOMAIN found \subseteq Assigned /\ Right(original, found)
  BY <1>1, AlgebraFacts
<1>3. gf2' \in Seq(CleanOf(original, Settled \cup DOMAIN found))
  BY <1>1, <1>2, CleanSubstitute
<1>4. Settled \cup DOMAIN found = Assigned
  BY <1>2 DEF Settled
<1>5. Settled' = Assigned
  BY <1>1, NoneKnown DEF Settled, Assigned
<1>6. result'.feasible = result.feasible
  BY <1>1 DEF OnAlgebra, SolverSound, SystemTyped, Results
<1>7. gf2' \in Seq(CleanOf(original, Settled'))
  BY <1>3, <1>4, <1>5
<1>8. QED BY <1>1, <1>6, <1>7, CalmAlgebra

\* Over right cells each free cell can be what it is.
LEMMA CanBeRight ==
  ASSUME OnAlgebra, NEW x \in Cells \ Assigned PROVE original[x] \in CanBe(x)
<1>1. original \in Matrices /\ x \in Unset(cellState)
  BY AlgebraFacts, AssignedOf
<1>2. original[x] \in {0, 1}
  BY <1>1 DEF Matrices
<1>3. ASSUME NEW i \in DOMAIN intLines, x \in intLines[i].cells
      PROVE  intLines[i].rho - original[x] \in 0..(intLines[i].u - 1)
  <2> DEFINE F == intLines[i].cells \cap Unset(cellState)
  <2>1. F \in SUBSET Cells /\ intLines[i].u = Cardinality(F) /\ intLines[i].rho = OnesOf(original, F)
    BY LineFits
  <2>2. x \in F
    BY <1>1, <1>3
  <2> HIDE DEF F
  <2>3. OnesOf(original, F) - original[x] \in 0..(Cardinality(F) - 1)
    BY <1>1, <2>1, <2>2, OnesAll
  <2>4. QED BY <2>1, <2>3
<1>4. QED BY <1>2, <1>3 DEF CanBe, Bears

LEMMA CrossPassAlgebra ==
  ASSUME OnAlgebra, CrossPass PROVE AlgebraRight'
<1> DEFINE new == [x \in Deducible |-> CHOOSE v \in CanBe(x) : TRUE]
<1>1. pc = "cross" /\ UNCHANGED <<input, found>>
  BY DEF CrossPass, bound
<1>2. ~\E x \in Cells \ Assigned : CanBe(x) = {}
  BY CanBeRight
<1>3. AssignDeducible(new)
  BY <1>2 DEF CrossPass
<1>4. /\ Values(new) /\ DOMAIN new \subseteq Unset(cellState)
      /\ \A x \in Deducible : \A v \in CanBe(x) : v = new[x]
  BY DeducibleFree DEF OnAlgebra, SolverSound
<1>5. Right(original, new)
  <2>1. \A x \in DOMAIN new : x \in Deducible /\ x \in Cells \ Assigned
    BY DEF Deducible
  <2>2. QED BY <1>4, <2>1, CanBeRight DEF Right
<1> HIDE DEF new
<1>6. AssignCells(new) /\ gf2' = Substitute(gf2, new) /\ result'.feasible = result.feasible
  BY <1>3 DEF AssignDeducible, OnAlgebra, SolverSound, SystemTyped, Results
<1>7. DOMAIN found' = {}
  BY <1>1, AlgebraFacts
<1>8. QED BY <1>1, <1>4, <1>5, <1>6, <1>7, LearnAlgebra

LEMMA NextAlgebra ==
  ASSUME OnAlgebra, Next PROVE AlgebraRight'
<1>2. CASE PhasesOver \/ EndPhase
  <2>1. /\ pc \in {"phase", "phaseEnd"} /\ UNCHANGED <<input, gf2, cellState, found>>
        /\ result' = result
    BY <1>2 DEF PhasesOver, EndPhase, system, bound
  <2>2. Settled' = Settled
    BY <2>1 DEF Settled, Assigned
  <2>3. gf2' \in Seq(CleanOf(original, Settled'))
    BY <2>1, <2>2, AlgebraFacts
  <2>4. QED BY <2>1, <2>3, CalmAlgebra
<1>3. CASE BoundViolated
  <2>1. pc = "intBound" /\ queue # <<>> /\ Violated(intLines[Head(queue)])
    BY <1>3 DEF BoundViolated
  <2>2. Head(queue) \in DOMAIN intLines
    BY <2>1, HeadLine DEF OnAlgebra, SolverSound
  <2>3. QED BY <2>1, <2>2, LineFits
<1>4. CASE Verify
  <2>1. /\ pc = "verify" /\ pc' \in {"round", "done"} /\ UNCHANGED <<input, system>>
        /\ result'.feasible = result.feasible
    BY <1>4 DEF Verify, AfterVerify, OnAlgebra, SolverSound, SystemTyped, Results
  <2>2. pc' = "done"
    BY <1>4 DEF Verify, AfterVerify, OnAlgebra
  <2>3. RightOf(original, cellState) /\ result.feasible
    BY AlgebraFacts
  <2>4. original' = original /\ cellState' = cellState /\ NothingOverlooked'
    BY <2>1 DEF input, system, OnAlgebra, AlgebraRight, NothingOverlooked
  <2>5. QED BY <2>1, <2>2, <2>3, <2>4 DEF AlgebraRight
<1>5. QED BY <1>2, <1>3, <1>4, PreAssignAlgebra, StartCascadeAlgebra, BeginPhaseAlgebra, GaussPassAlgebra,
             BoundLineAlgebra, BoundPassAlgebra, CrossPassAlgebra DEF Next, Iteration

\* Without solveHybrid there is nothing but Next.
LEMMA OnlyNext ==
  ASSUME SolverSound, AllExact, AlgebraRight, Algebraic, Solve
  PROVE  OnAlgebra /\ Next /\ UNCHANGED <<rounds, search, files, blocks>>
<1>1. OnAlgebra
  BY DEF OnAlgebra, Algebraic
<1>2. pc \in InFixpoint
  BY <1>1, AlgebraFacts DEF Solve
<1>3. ~(BeginRound \/ BeginAxis \/ AxisLine \/ EndAxis \/ EndRound \/ Final)
  BY <1>2 DEF InFixpoint, BeginRound, BeginAxis, AxisLine, EndAxis, EndRound, Final
<1>4. ~Restarts
  BY <1>2 DEF InFixpoint, Restarts, BeginRestarts, ShuffleNothing, BeginRestart, RestartsOver, OutOfDecisions,
              Solved, WrongBlock, Checkpoint, Decide, OrderExhausted, Deciding, Searching
<1>5. QED BY <1>1, <1>3, <1>4 DEF Solve, HybridNext

LEMMA NextBlockAlgebra ==
  ASSUME SolverSound, NextBlock
  PROVE  AlgebraRight' /\ original' \in Matrices /\ Assigned' = {} /\ pc' = "ready"
<1>1. /\ pc' = "ready" /\ UNCHANGED config
      /\ original' = loadOverlappingBlock(data, block + 1, overlap)
      /\ gf2' = buildSystem(original', config)
      /\ cellState' = Nothing /\ result' = NoResult /\ found' = NoneFound
  BY DEF NextBlock, StartBlock, Nothing
<1>2. data \in Seq({0, 1}) /\ block \in Nat /\ overlap \in 0..(kS - 1) /\ IsConfig(config)
  BY DEF SolverSound, FilesRight, InputRight
<1>3. original' \in Matrices
  BY <1>1, <1>2, BlockOf
<1>4. gf2' \in Seq(EquationsOf(original'))
  BY <1>1, <1>2, <1>3, BuiltOf
<1>5. Assigned' = {} /\ RightOf(original', cellState')
  BY <1>1, NothingTyped DEF Assigned, RightOf, Unset
<1>6. Settled' = {}
  BY <1>5 DEF Settled
<1>7. gf2' \in Seq(CleanOf(original', Settled'))
  BY <1>4, <1>6, CleanOfNothing
<1>8. NothingOverlooked'
  <2>1. data # <<>>
    BY <1>2 DEF NextBlock, LastBlock
  <2>2. config = OverlapConfig
    BY <2>1 DEF SolverSound, FilesRight
  <2>3. QED BY <1>1, <2>2, OverlapConfigAssumption DEF NothingOverlooked
<1>9. QED BY <1>1, <1>3, <1>5, <1>7, <1>8 DEF AlgebraRight, NoResult

LEMMA SolveFrame ==
  ASSUME SolverSound, Solve \/ UNCHANGED commandVars
  PROVE  UNCHANGED <<original, config, donated>> /\ (Algebraic' <=> Algebraic)
<1>1. UNCHANGED <<original, config, donated>>
  <2>1. CASE Solve
    <3>1. CASE Next
      BY <3>1, NextGoes DEF SolverSound, ControlRight, input
    <3>2. CASE ~Next
      BY <2>1, <3>2 DEF Solve, HybridNext, BeginRound, BeginAxis, AxisLine, EndAxis, EndRound, Final,
         Restarts, BeginRestarts, ShuffleNothing, BeginRestart, RestartsOver, OutOfDecisions,
         Solved, WrongBlock, Checkpoint, Decide, OrderExhausted, input
    <3>3. QED BY <3>1, <3>2
  <2>2. CASE UNCHANGED commandVars
    BY <2>2 DEF commandVars, hybridVars, vars, input
  <2>3. QED BY <2>1, <2>2
<1>2. Algebraic' <=> Algebraic
  BY <1>1 DEF Algebraic, DonationRight
<1>3. QED BY <1>1, <1>2

LEMMA CommandAlgebra ==
  ASSUME SolverSound, AllExact, AlgebraRight, [CommandNext]_commandVars PROVE AlgebraRight'
<1>1. CASE NextBlock
  BY <1>1, NextBlockAlgebra
<1>2. CASE ~Algebraic /\ (Solve \/ UNCHANGED commandVars)
  BY <1>2, SolveFrame DEF AlgebraRight, Algebraic, NothingOverlooked
<1>3. CASE Algebraic /\ Solve
  BY <1>3, OnlyNext, NextAlgebra
<1>4. CASE UNCHANGED commandVars
  <2>1. UNCHANGED <<original, config, donated, gf2, cellState, result, pc, found>>
    BY <1>4 DEF commandVars, hybridVars, vars, input, system, bound
  <2>2. QED BY <2>1 DEF AlgebraRight, DonationRight, Settled, Assigned, NothingOverlooked
<1>5. QED BY <1>1, <1>2, <1>3, <1>4 DEF CommandNext, Exit

LEMMA InitAlgebra ==
  ASSUME CommandInit
  PROVE  /\ original \in Matrices /\ Assigned = {} /\ pc = "ready"
         /\ NothingOverlooked => AlgebraRight
<1>1. SolverInit /\ SolverSound
  BY InitSound DEF CommandInit, CombinatorInit, OverlapInit, Init
<1>2. original \in Matrices /\ IsConfig(config)
  BY <1>1 DEF SolverSound, InputRight
<1>3. /\ gf2 = buildSystem(original, config) /\ cellState = Nothing /\ result = NoResult
      /\ pc = "ready" /\ found = NoneFound
  BY <1>1 DEF SolverInit, Nothing
<1>4. Assigned = {} /\ RightOf(original, cellState)
  BY <1>3, NothingTyped DEF Assigned, RightOf, Unset
<1>5. gf2 \in Seq(EquationsOf(original))
  BY <1>2, <1>3, BuiltOf
<1>6. Settled = {}
  BY <1>4 DEF Settled
<1>7. gf2 \in Seq(CleanOf(original, Settled))
  BY <1>5, <1>6, CleanOfNothing
<1>8. QED BY <1>2, <1>3, <1>4, <1>7 DEF AlgebraRight, NoResult

\* A step of solve or solveCascade gives values to free cells, or to none.
LEMMA NextGrows ==
  ASSUME SolverSound, Next
  PROVE  \/ UNCHANGED cellState
         \/ \E new : Values(new) /\ DOMAIN new \subseteq Unset(cellState) /\ AssignCells(new)
<1>1. SystemTyped /\ BoundRight /\ InputRight /\ ControlRight
  BY DEF SolverSound
<1>2. CASE PreAssign
  <2>1. pc = "ready" /\ AssignCells(donated)
    BY <1>2 DEF PreAssign
  <2>2. QED BY <1>1, <2>1, DonatedFree
<1>3. CASE StartCascade \/ BeginPhase \/ PhasesOver \/ EndPhase \/ BoundViolated \/ BoundPass \/ Verify
  BY <1>3 DEF StartCascade, BeginPhase, PhasesOver, EndPhase, BoundViolated, BoundPass, Verify, system
<1>4. CASE GaussPass
  <2>1. AssignCells(gaussElim(gf2))
    BY <1>4 DEF GaussPass
  <2>2. Values(gaussElim(gf2)) /\ DOMAIN gaussElim(gf2) \subseteq Unset(cellState)
    BY <1>1, GaussTyped DEF SystemTyped
  <2>3. QED BY <2>1, <2>2
<1>5. CASE BoundLine
  <2>1. PICK cells \in Seq(Cells) : \E new :
              /\ Values(new) /\ DOMAIN new \subseteq Unset(cellState) /\ AssignCells(new)
    BY <1>1, <1>5, BoundLineOf
  <2>2. QED BY <2>1
<1>6. CASE CrossPass
  <2> DEFINE new == [x \in Deducible |-> CHOOSE v \in CanBe(x) : TRUE]
  <2>1. UNCHANGED system \/ AssignDeducible(new)
    BY <1>6 DEF CrossPass
  <2>2. Values(new) /\ DOMAIN new \subseteq Unset(cellState)
    BY <1>1, DeducibleFree
  <2> HIDE DEF new
  <2>3. QED BY <2>1, <2>2 DEF AssignDeducible, system
<1>7. QED BY <1>2, <1>3, <1>4, <1>5, <1>6 DEF Next, Iteration

\* From right cells only Verify ends a call.
LEMMA NextEnds ==
  ASSUME OnAlgebra, Next, AlgebraRight'
  PROVE  pc' = "done" <=> Verify
<1>1. UNCHANGED input
  BY NextGoes DEF OnAlgebra, SolverSound, ControlRight
<1>2. result'.feasible
  BY <1>1 DEF OnAlgebra, AlgebraRight, DonationRight, input
<1>3. ~Inconsistent
  BY <1>2 DEF Inconsistent, OnAlgebra, SolverSound, SystemTyped, Results
<1>4. Verify => pc' = "done"
  BY DEF Verify, AfterVerify, OnAlgebra
<1>5. ASSUME ~Verify PROVE pc' # "done"
  <2>1. CASE CrossPass
    BY <1>3, <2>1, AfterFixpointGoes DEF CrossPass, OnAlgebra, SolverSound, ControlRight
  <2>2. CASE PreAssign \/ StartCascade \/ BeginPhase \/ PhasesOver \/ EndPhase \/ GaussPass
             \/ BoundLine \/ BoundPass
    BY <2>2 DEF PreAssign, StartCascade, BeginPhase, PhasesOver, EndPhase, GaussPass, BoundLine, BoundPass
  <2>3. CASE BoundViolated
    BY <1>3, <2>3 DEF BoundViolated
  <2>4. QED BY <1>5, <2>1, <2>2, <2>3 DEF Next, Iteration
<1>6. QED BY <1>4, <1>5

KnownNow == IF Algebraic THEN Known ELSE <<>>
AnswerNow == IF Algebraic THEN Answer ELSE "none"

\* What is known are the assigned cells, with the block's values.
KnownSound ==
  /\ DOMAIN Known = Assigned /\ Assigned \subseteq Cells
  /\ Algebraic => Known = [x \in Assigned |-> original[x]]

LEMMA KnownOf == SolverSound /\ AlgebraRight => KnownSound
<1> SUFFICES ASSUME SolverSound, AlgebraRight PROVE KnownSound
  OBVIOUS
<1>1. Known = [x \in Assigned |-> cellState[x]] /\ Assigned \subseteq Cells
  BY DEF Known, Restrict, Assigned
<1>2. ASSUME Algebraic PROVE \A x \in Assigned : cellState[x] = original[x]
  BY <1>2 DEF AlgebraRight, Algebraic, RightOf, Assigned
<1>3. QED BY <1>1, <1>2 DEF KnownSound

\* A step from right cells is a deduction or an answer.
LEMMA StepKeepsPromise ==
  ASSUME SolverSound, AllExact, AlgebraRight, SolverSound', AlgebraRight', Algebraic, Solve
  PROVE  Promise!Learn \/ Promise!Answer
<1>1. OnAlgebra /\ Next /\ UNCHANGED <<original, config, donated>> /\ Algebraic'
  BY OnlyNext, SolveFrame
<1>2. pc # "done"
  BY <1>1, NextGoes DEF OnAlgebra, SolverSound, ControlRight, InFixpoint
<1>3. /\ DOMAIN Known = Assigned /\ Known = [x \in Assigned |-> original[x]]
      /\ DOMAIN Known' = Assigned' /\ Assigned' \subseteq Cells
      /\ Known' = [x \in Assigned' |-> original[x]]
  <2>1. KnownSound /\ KnownSound'
    BY KnownOf, PTL
  <2>2. QED BY <1>1, <2>1 DEF KnownSound
<1>4. KnownNow = Known /\ KnownNow' = Known' /\ AnswerNow = "none"
  BY <1>1, <1>2 DEF KnownNow, AnswerNow, Answer
<1>5. CASE Verify
  <2>1. pc' = "done"
    BY <1>1, <1>5, NextEnds
  <2>2. /\ cellState' = cellState
        /\ result'.bhVerified = (cellState = original)
    BY <1>5 DEF Verify, system, SolverSound, SystemTyped, Results
  <2>3. cellState = original <=> Assigned = Cells
    <3>1. /\ original \in Matrices /\ cellState \in CellStates /\ RightOf(original, cellState)
      BY <1>1, AlgebraFacts
    <3>2. ASSUME Assigned = Cells PROVE cellState = original
      <4>1. \A x \in Cells : cellState[x] = original[x]
        BY <3>1, <3>2 DEF RightOf, Assigned
      <4>2. QED BY <3>1, <4>1 DEF Matrices, CellStates
    <3>3. ASSUME cellState = original PROVE Assigned = Cells
      BY <3>1, <3>3 DEF Matrices, Assigned, Unassigned
    <3>4. QED BY <3>2, <3>3
  <2>4. AnswerNow' = IF DOMAIN Known = Cells THEN "complete" ELSE "partial"
    BY <1>1, <1>3, <2>1, <2>2, <2>3 DEF AnswerNow, Answer
  <2>5. Known' = Known
    <3>1. Assigned' = Assigned
      BY <2>2 DEF Assigned
    <3>2. QED BY <1>3, <3>1
  <2>6. QED BY <1>1, <1>4, <2>4, <2>5 DEF Promise!Answer, KnownNow, AnswerNow
<1>6. CASE ~Verify
  <2>1. pc' # "done"
    BY <1>1, <1>6, NextEnds
  <2>2. AnswerNow' = "none"
    BY <1>1, <2>1 DEF AnswerNow, Answer
  <2>3. Assigned \subseteq Assigned'
    <3>1. CASE UNCHANGED cellState
      BY <3>1 DEF Assigned
    <3>2. CASE \E new : Values(new) /\ DOMAIN new \subseteq Unset(cellState) /\ AssignCells(new)
      BY <3>2, LearnOf DEF SolverSound, SystemTyped
    <3>3. QED BY <1>1, <3>1, <3>2, NextGrows
  <2>4. QED BY <1>1, <1>3, <1>4, <2>2, <2>3 DEF Promise!Learn, KnownNow, AnswerNow
<1>7. QED BY <1>5, <1>6

LEMMA BlockKeepsPromise ==
  ASSUME SolverSound, NextBlock, SolverSound', AlgebraRight' PROVE Promise!Begin
<1>1. original' \in Matrices /\ Assigned' = {} /\ pc' = "ready" /\ pc = "done"
  BY NextBlockAlgebra DEF NextBlock
<1>2. DOMAIN KnownNow' = {}
  <2>1. KnownSound'
    BY KnownOf, PTL
  <2>2. DOMAIN Known' = {}
    BY <1>1, <2>1 DEF KnownSound
  <2>3. QED BY <2>2 DEF KnownNow
<1>3. AnswerNow' = "none"
  BY <1>1 DEF AnswerNow, Answer
<1>4. AnswerNow # "none" \/ DOMAIN KnownNow = {}
  <2>1. CASE Algebraic
    BY <1>1, <2>1 DEF AnswerNow, Answer
  <2>2. CASE ~Algebraic
    BY <2>2 DEF KnownNow
  <2>3. QED BY <2>1, <2>2
<1>5. QED BY <1>1, <1>2, <1>3, <1>4 DEF Promise!Begin, KnownNow, AnswerNow, Matrices

LEMMA CommandKeepsPromise ==
  ASSUME SolverSound, AllExact, AlgebraRight, SolverSound', AlgebraRight', [CommandNext]_commandVars
  PROVE  [Promise!Learn \/ Promise!Answer \/ Promise!Begin]_Promise!vars
<1>1. CASE NextBlock
  BY <1>1, BlockKeepsPromise
<1>2. CASE Algebraic /\ Solve
  BY <1>2, StepKeepsPromise
<1>3. CASE ~Algebraic /\ Solve
  <2>1. original' = original /\ ~Algebraic'
    BY <1>3, SolveFrame
  <2>2. QED BY <1>3, <2>1 DEF Promise!vars
<1>4. CASE UNCHANGED commandVars
  <2>1. UNCHANGED <<original, cellState, result, pc>> /\ (Algebraic' <=> Algebraic)
    BY <1>4, SolveFrame DEF commandVars, hybridVars, vars, input, system
  <2>2. QED BY <2>1 DEF Promise!vars, Known, Restrict, Assigned, Answer
<1>5. QED BY <1>1, <1>2, <1>3, <1>4 DEF CommandNext, Exit

\* MonotoneReduction: "No DFS. No search. Purely algebraic monotone reduction." Without
\* solveHybrid and from right cells, each step of solve and solveCascade only adds
\* cells with the block's own values, and the block passes for solved exactly when
\* all cells are known: they implement the abstract Deduction, but for cascades that
\* are given cells and have partitions.
THEOREM ReductionIsMonotone == NothingOverlooked /\ Spec => MonotoneReduction
<1>1. CommandInit /\ NothingOverlooked => SolverSound /\ AllExact /\ AlgebraRight
  BY InitSound, InitExact, InitAlgebra
<1>2. SolverSound /\ AllExact /\ [CommandNext]_commandVars => AllExact'
  BY CommandExact
<1>3. SolverSound /\ AllExact /\ AlgebraRight /\ [CommandNext]_commandVars => AlgebraRight'
  BY CommandAlgebra
<1>4. CommandInit /\ NothingOverlooked => Promise!Init
  <2> SUFFICES ASSUME CommandInit, NothingOverlooked PROVE Promise!Init
    OBVIOUS
  <2>1. original \in Matrices /\ Assigned = {} /\ pc = "ready" /\ AlgebraRight /\ SolverSound
    BY InitAlgebra, InitSound
  <2>2. DOMAIN Known = {}
    BY <2>1, KnownOf DEF KnownSound
  <2>3. DOMAIN KnownNow = {} /\ AnswerNow = "none"
    BY <2>1, <2>2 DEF KnownNow, AnswerNow, Answer
  <2>4. QED BY <2>1, <2>3 DEF Promise!Init, KnownNow, AnswerNow, Matrices
<1>5. /\ SolverSound /\ AllExact /\ AlgebraRight /\ SolverSound' /\ AlgebraRight'
      /\ [CommandNext]_commandVars
      => [Promise!Learn \/ Promise!Answer \/ Promise!Begin]_Promise!vars
  BY CommandKeepsPromise
<1>6. QED BY <1>1, <1>2, <1>3, <1>4, <1>5, SolverStaysSound, PTL DEF Spec, MonotoneReduction, Promise!Spec
===============================================================================
