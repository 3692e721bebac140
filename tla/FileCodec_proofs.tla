---------------------------- MODULE FileCodec_proofs ----------------------------
(***************************************************************************)
(* What compress and decompress promise, and what the runners that start   *)
(* them may conclude, for every side of a block, every file, environment,  *)
(* set of searched matrices and limit.  First the data: a value packed     *)
(* into as many bits as its line needs is read back, line by line; the     *)
(* tables of a process, shuffled or loaded, agree with themselves.  Then   *)
(* the states: FileInv for the two commands, RunnerRight for where a       *)
(* runner is and what it may rely on there.                                *)
(***************************************************************************)
EXTENDS TestRunners, Induction_proofs, FiniteSetTheorems, SequenceTheorems, FunctionTheorems

-------------------------------------------------------------------------------
\* Shifting to the right.
LEMMA ShiftedUnfolds ==
  ASSUME NEW v \in Nat
  PROVE  /\ Shifted(v) \in [Nat -> Nat]
         /\ Shifted(v)[0] = v
         /\ \A i \in Nat : Shifted(v)[i + 1] = Shifted(v)[i] \div 2
<1> DEFINE step == [p \in Nat \X Nat |-> p[2] \div 2]
           IsShift(f) == f = [i \in Nat |-> IF i = 0 THEN v ELSE f[i - 1] \div 2]
<1>1. step \in [Nat \X Nat -> Nat]
  OBVIOUS
<1>2. PICK f \in AllRuns(Nat, v, step) : TRUE
  BY <1>1, Recurrence
<1>3. IsShift(f)
  <2>1. ASSUME NEW i \in Nat PROVE f[i] = IF i = 0 THEN v ELSE f[i - 1] \div 2
    <3>1. CASE i = 0
      BY <1>2, <3>1 DEF AllRuns
    <3>2. CASE i # 0
      <4>1. i - 1 \in Nat /\ f[i - 1] \in Nat /\ f[i] = step[<<i, f[i - 1]>>]
        BY <1>2, <3>2 DEF AllRuns
      <4>2. QED BY <3>2, <4>1
    <3>3. QED BY <3>1, <3>2
  <2>2. f = [i \in Nat |-> f[i]]
    BY <1>2 DEF AllRuns
  <2>3. QED BY <2>1, <2>2
<1>4. Shifted(v) = CHOOSE g : IsShift(g)
  BY DEF Shifted
<1>5. IsShift(Shifted(v))
  <2> HIDE DEF IsShift
  <2> QED BY <1>3, <1>4
<1>6. \A i \in Nat : Shifted(v)[i + 1] = Shifted(v)[i] \div 2
  BY <1>5
<1>7. Shifted(v)[0] = v /\ Shifted(v) = [i \in Nat |-> Shifted(v)[i]]
  BY <1>5
<1>8. \A i \in Nat : Shifted(v)[i] \in Nat
  <2> DEFINE G == {i \in Nat : Shifted(v)[i] \in Nat}
  <2>1. 0 \in G
    BY <1>7
  <2>2. ASSUME NEW i \in G PROVE i + 1 \in G
    BY <1>6
  <2>3. G \in SUBSET Nat
    OBVIOUS
  <2> HIDE DEF G
  <2>4. G = Nat
    BY <2>1, <2>2, <2>3, Induction
  <2>5. QED BY <2>4 DEF G
<1>9. QED BY <1>6, <1>7, <1>8

\* Halving keeps the order, and so does shifting.
LEMMA Halving == \A x, y \in Nat : x <= y => x \div 2 <= y \div 2
OBVIOUS

LEMMA ShiftMonotone ==
  ASSUME NEW v \in Nat, NEW w \in Nat, v <= w, NEW n \in Nat
  PROVE  Shifted(v)[n] <= Shifted(w)[n]
<1> DEFINE G == {i \in Nat : Shifted(v)[i] <= Shifted(w)[i]}
<1>1. 0 \in G
  BY ShiftedUnfolds
<1>2. ASSUME NEW i \in G PROVE i + 1 \in G
  <2>1. Shifted(v)[i] \in Nat /\ Shifted(w)[i] \in Nat /\ Shifted(v)[i] <= Shifted(w)[i]
    BY ShiftedUnfolds
  <2>2. Shifted(v)[i] \div 2 <= Shifted(w)[i] \div 2
    BY <2>1, Halving
  <2>3. QED BY <2>2, ShiftedUnfolds
<1>3. G \in SUBSET Nat
  OBVIOUS
<1> HIDE DEF G
<1>4. G = Nat
  BY <1>1, <1>2, <1>3, Induction
<1>5. QED BY <1>4 DEF G

\* A number as wide as BitWidth says is shifted out by as many places.
LEMMA WidthRight ==
  ASSUME NEW n \in Nat
  PROVE  BitWidth(n) \in 0..n /\ Shifted(n)[BitWidth(n)] = 0
<1> DEFINE G == {i \in Nat : i <= n => Shifted(n)[i] <= n - i}
<1>1. 0 \in G
  <2>1. Shifted(n)[0] = n /\ n <= n - 0
    BY ShiftedUnfolds
  <2>2. QED BY <2>1
<1>2. ASSUME NEW i \in G PROVE i + 1 \in G
  <2>1. ASSUME i + 1 <= n PROVE Shifted(n)[i + 1] <= n - (i + 1)
    <3>1. PICK s \in Nat : s = Shifted(n)[i]
      BY ShiftedUnfolds
    <3>2. s <= n - i /\ Shifted(n)[i + 1] = s \div 2
      BY <2>1, <3>1, ShiftedUnfolds
    <3>3. QED BY <2>1, <3>2
  <2>2. QED BY <2>1
<1>3. G \in SUBSET Nat
  OBVIOUS
<1> HIDE DEF G
<1>4. G = Nat
  BY <1>1, <1>2, <1>3, Induction
<1>5. Shifted(n)[n] \in Nat /\ Shifted(n)[n] <= n - n
  <2>1. n \in G /\ n <= n
    BY <1>4
  <2>2. QED BY <2>1, ShiftedUnfolds DEF G
<1> DEFINE T == {i \in Nat : Shifted(n)[i] = 0}
<1>6. n \in T
  BY <1>5
<1>7. PICK w \in T : \A i \in T : w <= i
  <2>1. T \subseteq Nat /\ T # {}
    BY <1>6
  <2> HIDE DEF T
  <2>2. QED BY <2>1, Least
<1>8. w \in 0..n /\ Shifted(n)[w] = 0 /\ \A i \in 0..(w - 1) : Shifted(n)[i] # 0
  BY <1>6, <1>7
<1>9. QED BY <1>8 DEF BitWidth

\* What unpackBits has read after so many bits.
LEMMA ReadingUnfolds ==
  ASSUME NEW bits \in Seq(Bit)
  PROVE  /\ Reading(bits)[0] = 0
         /\ \A i \in 1..Len(bits) : Reading(bits)[i] = 2 * Reading(bits)[i - 1] + bits[i]
<1> DEFINE step == [p \in Nat \X Nat |-> IF p[1] \in 1..Len(bits) THEN 2 * p[2] + bits[p[1]] ELSE 0]
           IsReading(f) == f = [i \in 0..Len(bits) |-> IF i = 0 THEN 0 ELSE 2 * f[i - 1] + bits[i]]
<1>1. step \in [Nat \X Nat -> Nat]
  <2>1. \A i \in 1..Len(bits) : bits[i] \in Nat
    BY DEF Bit
  <2>2. QED BY <2>1
<1>2. PICK n \in Nat : n = Len(bits)
  OBVIOUS
<1>3. PICK f \in Runs(Nat, 0, step, n) : TRUE
  <2>1. 0 \in Nat /\ n \in Nat
    OBVIOUS
  <2> HIDE DEF step
  <2>2. Runs(Nat, 0, step, n) # {}
    BY ONLY <1>1, <2>1, IterationUpTo, Zenon
  <2>3. QED BY ONLY <2>2, Zenon
<1>4. IsReading(f)
  <2>1. ASSUME NEW i \in 0..Len(bits) PROVE f[i] = IF i = 0 THEN 0 ELSE 2 * f[i - 1] + bits[i]
    <3>1. CASE i = 0
      BY <1>3, <3>1 DEF Runs
    <3>2. CASE i # 0
      <4>1. i \in 1..n /\ i \in Nat /\ i - 1 \in 0..n
        BY <1>2, <3>2
      <4>2. f[i - 1] \in Nat /\ f[i] = step[<<i, f[i - 1]>>]
        <5> HIDE DEF step
        <5> QED BY <1>3, <4>1 DEF Runs
      <4>3. QED BY <1>2, <3>2, <4>1, <4>2
    <3>3. QED BY <3>1, <3>2
  <2>2. f = [i \in 0..Len(bits) |-> f[i]]
    BY <1>2, <1>3 DEF Runs
  <2>3. QED BY <2>1, <2>2
<1>5. Reading(bits) = CHOOSE g : IsReading(g)
  BY DEF Reading
<1>6. IsReading(Reading(bits))
  <2> HIDE DEF IsReading
  <2> QED BY <1>4, <1>5
<1>7. \A i \in 0..Len(bits) : Reading(bits)[i] = IF i = 0 THEN 0 ELSE 2 * Reading(bits)[i - 1] + bits[i]
  BY <1>6
<1>8. QED BY <1>2, <1>7

\* A value is written in bits, as many as asked for.
LEMMA PackedTyped ==
  ASSUME NEW v \in Nat, NEW n \in Nat
  PROVE  packBits(v, n) \in Seq(Bit) /\ Len(packBits(v, n)) = n
<1>1. \A i \in 1..n : Shifted(v)[n - i] % 2 \in Bit
  <2>1. \A i \in 1..n : Shifted(v)[n - i] \in Nat
    BY ShiftedUnfolds
  <2>2. \A x \in Nat : x % 2 \in Bit
    BY DEF Bit
  <2>3. QED BY <2>1, <2>2
<1>2. packBits(v, n) \in [1..n -> Bit]
  BY <1>1 DEF packBits
<1>3. QED BY <1>2

\* What packBits writes in enough bits, unpackBits reads.
LEMMA Unpacked ==
  ASSUME NEW v \in Nat, NEW n \in Nat, Shifted(v)[n] = 0
  PROVE  unpackBits(packBits(v, n)) = v
<1> DEFINE bits == packBits(v, n)
<1>1. bits \in Seq(Bit) /\ Len(bits) = n
  BY PackedTyped
<1>2. ASSUME NEW i \in 1..n PROVE bits[i] = Shifted(v)[n - i] % 2
  BY DEF packBits
<1> HIDE DEF bits
<1> DEFINE G == {i \in Nat : i <= n => Reading(bits)[i] = Shifted(v)[n - i]}
<1>3. 0 \in G
  BY <1>1, ReadingUnfolds
<1>4. ASSUME NEW i \in G PROVE i + 1 \in G
  <2>1. ASSUME i + 1 <= n PROVE Reading(bits)[i + 1] = Shifted(v)[n - (i + 1)]
    <3>1. PICK j \in Nat : j = n - (i + 1) /\ n - i = j + 1
      BY <2>1
    <3>2. PICK s \in Nat : s = Shifted(v)[j]
      BY ShiftedUnfolds
    <3>3. Reading(bits)[i] = s \div 2
      BY <2>1, <3>1, <3>2, ShiftedUnfolds
    <3>4. bits[i + 1] = s % 2
      BY <1>2, <2>1, <3>1, <3>2
    <3>5. Reading(bits)[i + 1] = 2 * Reading(bits)[i] + bits[i + 1]
      <4>1. i + 1 \in 1..Len(bits) /\ (i + 1) - 1 = i
        BY <1>1, <2>1
      <4>2. QED BY <1>1, <4>1, ReadingUnfolds
    <3>6. QED BY <3>1, <3>2, <3>3, <3>4, <3>5
  <2>2. QED BY <2>1
<1>5. G \in SUBSET Nat
  OBVIOUS
<1> HIDE DEF G
<1>6. G = Nat
  BY <1>3, <1>4, <1>5, Induction
<1>7. Reading(bits)[n] = Shifted(v)[n - n]
  BY <1>6 DEF G
<1>8. n - n = 0 /\ Shifted(v)[0] = v
  BY ShiftedUnfolds
<1>9. QED BY <1>1, <1>7, <1>8 DEF unpackBits, bits

-------------------------------------------------------------------------------
\* What a sequence holds.
Has(s, y) == \E i \in 1..Len(s) : s[i] = y

LEMMA HasConcat ==
  ASSUME NEW S, NEW s \in Seq(S), NEW t \in Seq(S)
  PROVE  s \o t \in Seq(S) /\ \A y : Has(s \o t, y) <=> Has(s, y) \/ Has(t, y)
<1>1. PICK m \in Nat, n \in Nat : m = Len(s) /\ n = Len(t) /\ Len(s \o t) = m + n
  OBVIOUS
<1>2. s \o t \in Seq(S)
  OBVIOUS
<1>3. \A i \in 1..m : (s \o t)[i] = s[i]
  BY <1>1
<1>4. \A i \in 1..n : (s \o t)[m + i] = t[i] /\ m + i \in 1..(m + n)
  BY <1>1
<1>5. \A i \in 1..(m + n) : i \in 1..m \/ (i - m \in 1..n /\ i = m + (i - m))
  OBVIOUS
<1>6. ASSUME NEW y, Has(s \o t, y) PROVE Has(s, y) \/ Has(t, y)
  <2>1. PICK i \in 1..(m + n) : (s \o t)[i] = y
    BY <1>1, <1>6 DEF Has
  <2>2. CASE i \in 1..m
    BY <1>1, <1>3, <2>1, <2>2 DEF Has
  <2>3. CASE i - m \in 1..n /\ i = m + (i - m)
    <3>1. t[i - m] = y
      BY <1>4, <2>1, <2>3
    <3>2. QED BY <1>1, <2>3, <3>1 DEF Has
  <2>4. QED BY <1>5, <2>2, <2>3
<1>7. ASSUME NEW y, Has(s, y) \/ Has(t, y) PROVE Has(s \o t, y)
  <2>1. CASE Has(s, y)
    <3>1. PICK i \in 1..m : s[i] = y
      BY <1>1, <2>1 DEF Has
    <3>2. i \in 1..(m + n) /\ (s \o t)[i] = y
      BY <1>1, <1>3, <3>1
    <3>3. QED BY <1>1, <3>2 DEF Has
  <2>2. CASE Has(t, y)
    <3>1. PICK i \in 1..n : t[i] = y
      BY <1>1, <2>2 DEF Has
    <3>2. m + i \in 1..(m + n) /\ (s \o t)[m + i] = y
      BY <1>4, <3>1
    <3>3. QED BY <1>1, <3>2 DEF Has
  <2>3. QED BY <1>7, <2>1, <2>2
<1>8. QED BY <1>2, <1>6, <1>7

UniformNames == {"lsm", "vsm", "ltp1sm", "ltp2sm"}
DiagonalNames == {"dsm", "xsm"}
Entries ==
  {<<name, k, BitWidth(kS)>> : name \in UniformNames, k \in Index}
    \cup {<<name, k, diagBits(k)>> : name \in DiagonalNames, k \in 0..(kDiagCount - 1)}

\* The entries of one kind of line.
LEMMA UniformEntries ==
  ASSUME NEW name \in UniformNames, NEW s, s = [k \in 1..kS |-> <<name, k - 1, BitWidth(kS)>>]
  PROVE  s \in Seq(Entries) /\ \A k \in Index : Has(s, <<name, k, BitWidth(kS)>>)
<1>1. kS \in Nat
  BY kSAssumption
<1>2. ASSUME NEW k \in 1..kS PROVE s[k] \in Entries
  <2>1. k - 1 \in Index
    BY <1>1 DEF Index
  <2>2. QED BY <2>1 DEF Entries
<1>3. s \in Seq(Entries) /\ Len(s) = kS
  BY <1>1, <1>2
<1>4. ASSUME NEW k \in Index PROVE Has(s, <<name, k, BitWidth(kS)>>)
  <2>1. k + 1 \in 1..kS /\ (k + 1) - 1 = k
    BY <1>1 DEF Index
  <2>2. s[k + 1] = <<name, k, BitWidth(kS)>>
    BY <2>1
  <2>3. QED BY <1>3, <2>1, <2>2 DEF Has
<1>5. QED BY <1>3, <1>4

LEMMA DiagonalEntries ==
  ASSUME NEW name \in DiagonalNames, NEW s, s = [k \in 1..kDiagCount |-> <<name, k - 1, diagBits(k - 1)>>]
  PROVE  s \in Seq(Entries) /\ \A k \in 0..(kDiagCount - 1) : Has(s, <<name, k, diagBits(k)>>)
<1>1. kDiagCount \in Nat
  BY kSAssumption DEF kDiagCount
<1>2. ASSUME NEW k \in 1..kDiagCount PROVE s[k] \in Entries
  <2>1. k - 1 \in 0..(kDiagCount - 1)
    BY <1>1
  <2>2. QED BY <2>1 DEF Entries
<1>3. s \in Seq(Entries) /\ Len(s) = kDiagCount
  BY <1>1, <1>2
<1>4. ASSUME NEW k \in 0..(kDiagCount - 1) PROVE Has(s, <<name, k, diagBits(k)>>)
  <2>1. k + 1 \in 1..kDiagCount /\ (k + 1) - 1 = k
    BY <1>1
  <2>2. s[k + 1] = <<name, k, diagBits(k)>>
    BY <2>1
  <2>3. QED BY <1>3, <2>1, <2>2 DEF Has
<1>5. QED BY <1>3, <1>4

\* The entries of a packed block: each line of each family has one.
LEMMA VectorsHold ==
  /\ Vectors \in Seq(Entries)
  /\ \A name \in UniformNames, k \in Index : Has(Vectors, <<name, k, BitWidth(kS)>>)
  /\ \A name \in DiagonalNames, k \in 0..(kDiagCount - 1) : Has(Vectors, <<name, k, diagBits(k)>>)
<1> DEFINE u(name) == [k \in 1..kS |-> <<name, k - 1, BitWidth(kS)>>]
           d(name) == [k \in 1..kDiagCount |-> <<name, k - 1, diagBits(k - 1)>>]
<1>1. Vectors = u("lsm") \o u("vsm") \o d("dsm") \o d("xsm") \o u("ltp1sm") \o u("ltp2sm")
  BY DEF Vectors
<1>2. \A name \in UniformNames :
        u(name) \in Seq(Entries) /\ \A k \in Index : Has(u(name), <<name, k, BitWidth(kS)>>)
  BY UniformEntries
<1>3. \A name \in DiagonalNames :
        d(name) \in Seq(Entries) /\ \A k \in 0..(kDiagCount - 1) : Has(d(name), <<name, k, diagBits(k)>>)
  BY DiagonalEntries
<1> HIDE DEF u, d
<1>4. PICK s1, s2, s3, s4, s5 :
        /\ s1 = u("lsm") \o u("vsm") /\ s2 = s1 \o d("dsm") /\ s3 = s2 \o d("xsm")
        /\ s4 = s3 \o u("ltp1sm") /\ s5 = s4 \o u("ltp2sm")
  OBVIOUS
<1>5. {"lsm", "vsm", "ltp1sm", "ltp2sm"} = UniformNames /\ {"dsm", "xsm"} = DiagonalNames
  BY DEF UniformNames, DiagonalNames
<1>6. /\ u("lsm") \in Seq(Entries) /\ u("vsm") \in Seq(Entries) /\ u("ltp1sm") \in Seq(Entries)
      /\ u("ltp2sm") \in Seq(Entries) /\ d("dsm") \in Seq(Entries) /\ d("xsm") \in Seq(Entries)
  BY <1>2, <1>3, <1>5
<1>7. s1 \in Seq(Entries) /\ \A y : Has(s1, y) <=> Has(u("lsm"), y) \/ Has(u("vsm"), y)
  BY <1>4, <1>6, HasConcat
<1>8. s2 \in Seq(Entries) /\ \A y : Has(s2, y) <=> Has(s1, y) \/ Has(d("dsm"), y)
  <2>1. s1 \in Seq(Entries) /\ d("dsm") \in Seq(Entries) /\ s2 = s1 \o d("dsm")
    BY <1>4, <1>6, <1>7
  <2>2. QED BY <2>1, HasConcat
<1>9. s3 \in Seq(Entries) /\ \A y : Has(s3, y) <=> Has(s2, y) \/ Has(d("xsm"), y)
  BY <1>4, <1>6, <1>8, HasConcat
<1>10. s4 \in Seq(Entries) /\ \A y : Has(s4, y) <=> Has(s3, y) \/ Has(u("ltp1sm"), y)
  BY <1>4, <1>6, <1>9, HasConcat
<1>11. s5 \in Seq(Entries) /\ \A y : Has(s5, y) <=> Has(s4, y) \/ Has(u("ltp2sm"), y)
  BY <1>4, <1>6, <1>10, HasConcat
<1>12. s5 = Vectors
  BY <1>1, <1>4
<1>13. ASSUME NEW name \in UniformNames, NEW y, Has(u(name), y) PROVE Has(Vectors, y)
  BY <1>5, <1>7, <1>8, <1>9, <1>10, <1>11, <1>12, <1>13
<1>14. ASSUME NEW name \in DiagonalNames, NEW y, Has(d(name), y) PROVE Has(Vectors, y)
  BY <1>5, <1>8, <1>9, <1>10, <1>11, <1>12, <1>14
<1>15. QED BY <1>2, <1>3, <1>11, <1>12, <1>13, <1>14

LEMMA DiagonalLength ==
  ASSUME NEW k \in 0..(kDiagCount - 1)
  PROVE  diagLen(k) \in Nat /\ diagLen(k) \in {k + 1, kS, kDiagCount - k}
<1> DEFINE T == {k + 1, kS, kDiagCount - k}
<1>1. T \subseteq Nat /\ T # {}
  BY kSAssumption DEF kDiagCount
<1>2. PICK x \in T : \A y \in T : x <= y
  <2> HIDE DEF T
  <2> QED BY <1>1, Least
<1>3. diagLen(k) = CHOOSE z \in T : \A y \in T : z <= y
  BY DEF diagLen, Min
<1>4. diagLen(k) \in T
  <2> HIDE DEF T
  <2> QED BY <1>2, <1>3
<1>5. QED BY <1>1, <1>4

\* Every entry has a width, wherever its bits start.
LEMMA EntryWidth ==
  ASSUME NEW v \in Entries
  PROVE  v[3] \in Nat
<1>1. kS \in Nat /\ BitWidth(kS) \in Nat
  BY kSAssumption, WidthRight
<1>2. \A k \in 0..(kDiagCount - 1) : diagBits(k) \in Nat
  BY DiagonalLength, WidthRight DEF diagBits
<1>3. QED BY <1>1, <1>2 DEF Entries

LEMMA OffsetsUnfold ==
  /\ BitOffset[0] = 0
  /\ \A i \in 1..Len(Vectors) : BitOffset[i] = BitOffset[i - 1] + Vectors[i][3]
  /\ \A i \in 0..Len(Vectors) : BitOffset[i] \in Nat
<1>1. PICK n \in Nat : n = Len(Vectors)
  BY VectorsHold
<1>2. \A i \in 1..n : Vectors[i][3] \in Nat
  BY <1>1, VectorsHold, EntryWidth
<1> DEFINE step == [p \in Nat \X Nat |-> IF p[1] \in 1..n THEN p[2] + Vectors[p[1]][3] ELSE 0]
           IsOffset(f) == f = [i \in 0..Len(Vectors) |-> IF i = 0 THEN 0 ELSE f[i - 1] + Vectors[i][3]]
<1>3. step \in [Nat \X Nat -> Nat]
  BY <1>2
<1>4. PICK f \in Runs(Nat, 0, step, n) : TRUE
  <2>1. 0 \in Nat /\ n \in Nat
    OBVIOUS
  <2> HIDE DEF step
  <2>2. Runs(Nat, 0, step, n) # {}
    BY ONLY <1>3, <2>1, IterationUpTo, Zenon
  <2>3. QED BY ONLY <2>2, Zenon
<1>5. IsOffset(f)
  <2>1. ASSUME NEW i \in 0..n PROVE f[i] = IF i = 0 THEN 0 ELSE f[i - 1] + Vectors[i][3]
    <3>1. CASE i = 0
      BY <1>4, <3>1 DEF Runs
    <3>2. CASE i # 0
      <4>1. i \in 1..n /\ i \in Nat /\ i - 1 \in 0..n
        BY <1>1, <3>2
      <4>2. f[i - 1] \in Nat /\ f[i] = step[<<i, f[i - 1]>>]
        <5> HIDE DEF step
        <5> QED BY <1>4, <4>1 DEF Runs
      <4>3. QED BY <3>2, <4>1, <4>2
    <3>3. QED BY <3>1, <3>2
  <2>2. f = [i \in 0..n |-> f[i]]
    BY <1>4 DEF Runs
  <2>3. QED BY <1>1, <2>1, <2>2
<1>6. BitOffset = CHOOSE g : IsOffset(g)
  BY DEF BitOffset
<1>7. IsOffset(BitOffset)
  <2> HIDE DEF IsOffset
  <2> QED BY <1>5, <1>6
<1>8. \A i \in 0..n : BitOffset[i] = IF i = 0 THEN 0 ELSE BitOffset[i - 1] + Vectors[i][3]
  BY <1>1, <1>7
<1>9. 0 \in 0..n /\ \A i \in 1..n : i \in 0..n /\ i # 0
  OBVIOUS
<1>10. BitOffset[0] = 0 /\ \A i \in 1..n : BitOffset[i] = BitOffset[i - 1] + Vectors[i][3]
  BY <1>8, <1>9
<1> DEFINE G == {i \in Nat : i <= n => BitOffset[i] \in Nat}
<1>11. 0 \in G
  BY <1>10
<1>12. ASSUME NEW i \in G PROVE i + 1 \in G
  <2>1. ASSUME i + 1 <= n PROVE BitOffset[i + 1] \in Nat
    <3>1. i + 1 \in 1..n /\ (i + 1) - 1 = i /\ BitOffset[i] \in Nat
      BY <2>1
    <3>2. BitOffset[i + 1] = BitOffset[i] + Vectors[i + 1][3]
      BY <1>10, <3>1
    <3>3. QED BY <1>2, <3>1, <3>2
  <2>2. QED BY <2>1
<1>13. G \in SUBSET Nat
  OBVIOUS
<1> HIDE DEF G
<1>14. G = Nat
  BY <1>11, <1>12, <1>13, Induction
<1>15. \A i \in 0..n : BitOffset[i] \in Nat
  BY <1>14 DEF G
<1>16. QED BY <1>1, <1>10, <1>15

-------------------------------------------------------------------------------
\* Every sum fits into the bits of its entry.
Value(sums, v) == sums[v[1]][v[2]]
Fitting(sums) == \A v \in Entries : Value(sums, v) \in Nat /\ Shifted(Value(sums, v))[v[3]] = 0

EntryBits(sums, i) == packBits(Value(sums, Vectors[i]), Vectors[i][3])

LEMMA EntryBitsTyped ==
  ASSUME NEW sums, Fitting(sums), NEW i \in 1..Len(Vectors)
  PROVE  EntryBits(sums, i) \in Seq(Bit) /\ Len(EntryBits(sums, i)) = Vectors[i][3] /\ Vectors[i][3] \in Nat
<1>1. Vectors[i] \in Entries
  BY VectorsHold
<1>2. Vectors[i][3] \in Nat /\ Value(sums, Vectors[i]) \in Nat
  BY <1>1, EntryWidth DEF Fitting
<1>3. QED BY <1>2, PackedTyped DEF EntryBits

\* The bits of the first entries, entry by entry.
LEMMA PackingUnfolds ==
  ASSUME NEW sums, Fitting(sums)
  PROVE  /\ Packing(sums)[0] = <<>>
         /\ \A i \in 1..Len(Vectors) : Packing(sums)[i] = Packing(sums)[i - 1] \o EntryBits(sums, i)
         /\ \A i \in 0..Len(Vectors) : Packing(sums)[i] \in Seq(Bit) /\ Len(Packing(sums)[i]) = BitOffset[i]
<1>1. PICK n \in Nat : n = Len(Vectors)
  BY VectorsHold
<1> DEFINE step == [p \in Nat \X Seq(Bit) |-> IF p[1] \in 1..n THEN p[2] \o EntryBits(sums, p[1]) ELSE <<>>]
           IsPacking(f) ==
             f = [i \in 0..Len(Vectors) |-> IF i = 0 THEN <<>> ELSE f[i - 1] \o EntryBits(sums, i)]
<1>2. \A i \in 1..n : EntryBits(sums, i) \in Seq(Bit) /\ Len(EntryBits(sums, i)) = Vectors[i][3]
  BY <1>1, EntryBitsTyped
<1>3. step \in [Nat \X Seq(Bit) -> Seq(Bit)]
  BY <1>2
<1>4. PICK f \in Runs(Seq(Bit), <<>>, step, n) : TRUE
  <2>1. <<>> \in Seq(Bit) /\ n \in Nat
    OBVIOUS
  <2> HIDE DEF step
  <2>2. Runs(Seq(Bit), <<>>, step, n) # {}
    BY ONLY <1>3, <2>1, IterationUpTo, Zenon
  <2>3. QED BY ONLY <2>2, Zenon
<1>5. IsPacking(f)
  <2>1. ASSUME NEW i \in 0..n PROVE f[i] = IF i = 0 THEN <<>> ELSE f[i - 1] \o EntryBits(sums, i)
    <3>1. CASE i = 0
      BY <1>4, <3>1 DEF Runs
    <3>2. CASE i # 0
      <4>1. i \in 1..n /\ i \in Nat /\ i - 1 \in 0..n
        BY <1>1, <3>2
      <4>2. f[i - 1] \in Seq(Bit) /\ f[i] = step[<<i, f[i - 1]>>]
        <5> HIDE DEF step
        <5> QED BY <1>4, <4>1 DEF Runs
      <4>3. QED BY <3>2, <4>1, <4>2
    <3>3. QED BY <3>1, <3>2
  <2>2. f = [i \in 0..n |-> f[i]]
    BY <1>4 DEF Runs
  <2>3. QED BY <1>1, <2>1, <2>2
<1>6. Packing(sums) = CHOOSE g : IsPacking(g)
  BY DEF Packing, EntryBits, Value
<1>7. IsPacking(Packing(sums))
  <2> HIDE DEF IsPacking
  <2> QED BY <1>5, <1>6
<1>8. \A i \in 0..n : Packing(sums)[i] = IF i = 0 THEN <<>> ELSE Packing(sums)[i - 1] \o EntryBits(sums, i)
  BY <1>1, <1>7
<1>9. 0 \in 0..n /\ \A i \in 1..n : i \in 0..n /\ i # 0
  OBVIOUS
<1>10. Packing(sums)[0] = <<>> /\ \A i \in 1..n : Packing(sums)[i] = Packing(sums)[i - 1] \o EntryBits(sums, i)
  BY <1>8, <1>9
<1> DEFINE G == {i \in Nat : i <= n => Packing(sums)[i] \in Seq(Bit) /\ Len(Packing(sums)[i]) = BitOffset[i]}
<1>11. 0 \in G
  <2>1. Packing(sums)[0] \in Seq(Bit) /\ Len(Packing(sums)[0]) = 0
    BY <1>10
  <2>2. QED BY <2>1, OffsetsUnfold
<1>12. ASSUME NEW i \in G PROVE i + 1 \in G
  <2>1. ASSUME i + 1 <= n
        PROVE  Packing(sums)[i + 1] \in Seq(Bit) /\ Len(Packing(sums)[i + 1]) = BitOffset[i + 1]
    <3>1. i + 1 \in 1..n /\ (i + 1) - 1 = i /\ Packing(sums)[i] \in Seq(Bit) /\ Len(Packing(sums)[i]) = BitOffset[i]
      BY <2>1
    <3>2. Packing(sums)[i + 1] = Packing(sums)[i] \o EntryBits(sums, i + 1)
      BY <1>10, <3>1
    <3>3. BitOffset[i + 1] = BitOffset[i] + Vectors[i + 1][3]
      BY <1>1, <3>1, OffsetsUnfold
    <3>4. EntryBits(sums, i + 1) \in Seq(Bit) /\ Len(EntryBits(sums, i + 1)) = Vectors[i + 1][3]
      BY <1>2, <3>1
    <3>5. \A s, t \in Seq(Bit) : s \o t \in Seq(Bit) /\ Len(s \o t) = Len(s) + Len(t)
      OBVIOUS
    <3>6. QED BY <3>1, <3>2, <3>3, <3>4, <3>5
  <2>2. QED BY <2>1
<1>13. G \in SUBSET Nat
  OBVIOUS
<1> HIDE DEF G
<1>14. G = Nat
  BY <1>11, <1>12, <1>13, Induction
<1>15. \A i \in 0..n : Packing(sums)[i] \in Seq(Bit) /\ Len(Packing(sums)[i]) = BitOffset[i]
  BY <1>14 DEF G
<1>16. QED BY <1>1, <1>10, <1>15

\* However many entries follow, the bits of an entry stay where BitOffset says.
LEMMA EntryStays ==
  ASSUME NEW sums, Fitting(sums), NEW i \in 1..Len(Vectors), NEW j \in i..Len(Vectors)
  PROVE  /\ BitOffset[i] <= BitOffset[j]
         /\ \A p \in 1..Vectors[i][3] : Packing(sums)[j][BitOffset[i - 1] + p] = EntryBits(sums, i)[p]
<1>1. PICK n \in Nat : n = Len(Vectors)
  BY VectorsHold
<1>2. PICK w \in Nat, o \in Nat, e \in Seq(Bit) :
        w = Vectors[i][3] /\ o = BitOffset[i - 1] /\ e = EntryBits(sums, i) /\ Len(e) = w
  <2>1. i - 1 \in 0..Len(Vectors)
    BY <1>1
  <2>2. QED BY <2>1, EntryBitsTyped, OffsetsUnfold
<1>3. BitOffset[i] = o + w
  BY <1>2, OffsetsUnfold
<1> DEFINE Stays(k) == BitOffset[k] >= o + w /\ \A p \in 1..w : Packing(sums)[k][o + p] = e[p]
           G == {k \in Nat : k \in i..n => Stays(k)}
<1>4. \A s, t \in Seq(Bit) :
        /\ \A p \in 1..Len(s) : (s \o t)[p] = s[p]
        /\ \A p \in 1..Len(t) : (s \o t)[Len(s) + p] = t[p]
  OBVIOUS
<1>5. Stays(i)
  <2>1. PICK s \in Seq(Bit) : s = Packing(sums)[i - 1] /\ Len(s) = o
    <3>1. i - 1 \in 0..Len(Vectors)
      BY <1>1
    <3>2. QED BY <1>2, <3>1, PackingUnfolds
  <2>2. Packing(sums)[i] = s \o e
    BY <1>2, <2>1, PackingUnfolds
  <2>3. \A p \in 1..w : (s \o e)[o + p] = e[p]
    <3>1. Len(s) = o /\ Len(e) = w
      BY <1>2, <2>1
    <3>2. QED BY <1>4, <3>1
  <2>4. BitOffset[i] >= o + w
    <3>1. o + w >= o + w
      OBVIOUS
    <3>2. QED BY <1>3, <3>1
  <2>5. QED BY <2>2, <2>3, <2>4
<1>6. ASSUME NEW k \in i..n, Stays(k), k + 1 <= n PROVE Stays(k + 1)
  <2>1. k \in 0..n /\ k + 1 \in 1..n /\ (k + 1) - 1 = k
    BY <1>1, <1>6
  <2>2. PICK s \in Seq(Bit), t \in Seq(Bit), u \in Nat, v \in Nat :
          /\ s = Packing(sums)[k] /\ t = EntryBits(sums, k + 1)
          /\ Len(s) = u /\ u = BitOffset[k] /\ v = Vectors[k + 1][3]
    <3>1. k \in 0..Len(Vectors) /\ k + 1 \in 1..Len(Vectors)
      BY <1>1, <2>1
    <3>2. Packing(sums)[k] \in Seq(Bit) /\ Len(Packing(sums)[k]) = BitOffset[k]
      BY <3>1, PackingUnfolds
    <3>3. BitOffset[k] \in Nat
      BY <3>1, OffsetsUnfold
    <3>4. EntryBits(sums, k + 1) \in Seq(Bit) /\ Vectors[k + 1][3] \in Nat
      BY <3>1, EntryBitsTyped
    <3>5. QED BY ONLY <3>2, <3>3, <3>4, Zenon
  <2>3. Packing(sums)[k + 1] = s \o t /\ BitOffset[k + 1] = u + v
    BY <1>1, <2>1, <2>2, PackingUnfolds, OffsetsUnfold
  <2>4. u >= o + w
    BY <1>6, <2>2
  <2>5. \A p \in 1..w : s[o + p] = e[p] /\ o + p \in 1..u
    <3>1. \A p \in 1..w : s[o + p] = e[p]
      BY <1>6, <2>2
    <3>2. \A p \in 1..w : o + p \in 1..u
      BY <2>4
    <3>3. QED BY <3>1, <3>2
  <2>6. \A p \in 1..w : (s \o t)[o + p] = e[p]
    <3>1. Len(s) = u
      BY <2>2
    <3>2. \A q \in 1..u : (s \o t)[q] = s[q]
      BY <1>4, <3>1
    <3>3. QED BY <2>5, <3>2
  <2>7. u + v >= o + w
    BY <2>4
  <2>8. BitOffset[k + 1] >= o + w
    BY <2>3, <2>7
  <2>9. QED BY <2>3, <2>6, <2>8
<1> HIDE DEF Stays
<1>7. 0 \in G
  BY <1>1
<1>8. ASSUME NEW k \in G PROVE k + 1 \in G
  <2>1. ASSUME k + 1 \in i..n PROVE Stays(k + 1)
    <3>1. CASE k + 1 = i
      BY <1>5, <3>1
    <3>2. CASE k + 1 # i
      <4>1. k \in i..n /\ k + 1 <= n
        BY <1>1, <2>1, <3>2
      <4>2. Stays(k)
        BY <4>1
      <4>3. QED BY <1>6, <4>1, <4>2
    <3>3. QED BY <3>1, <3>2
  <2>2. QED BY <2>1
<1>9. G \in SUBSET Nat
  OBVIOUS
<1> HIDE DEF G
<1>10. G = Nat
  BY <1>7, <1>8, <1>9, Induction
<1>11. j \in Nat /\ j \in i..n
  BY <1>1
<1>12. Stays(j)
  BY <1>10, <1>11 DEF G
<1>13. BitOffset[j] \in Nat /\ BitOffset[i] = o + w
  <2>1. j \in 0..Len(Vectors)
    BY <1>1, <1>11
  <2>2. QED BY <1>3, <2>1, OffsetsUnfold
<1>14. QED BY <1>2, <1>12, <1>13 DEF Stays

\* What deserializeBlock cuts out for an entry is what was packed for it.
LEMMA EntryFound ==
  ASSUME NEW sums, Fitting(sums), NEW i \in 1..Len(Vectors)
  PROVE  unpackBits(SubSeq(Packing(sums)[Len(Vectors)], BitOffset[i - 1] + 1, BitOffset[i])) = Value(sums, Vectors[i])
<1>1. PICK n \in Nat : n = Len(Vectors)
  BY VectorsHold
<1>2. PICK w \in Nat, o \in Nat, e \in Seq(Bit) :
        w = Vectors[i][3] /\ o = BitOffset[i - 1] /\ e = EntryBits(sums, i) /\ Len(e) = w
  <2>1. i - 1 \in 0..Len(Vectors)
    BY <1>1
  <2>2. QED BY <2>1, EntryBitsTyped, OffsetsUnfold
<1>3. BitOffset[i] = o + w
  BY <1>2, OffsetsUnfold
<1>4. PICK s \in Seq(Bit), m \in Nat : s = Packing(sums)[n] /\ Len(s) = m /\ o + w <= m
  <2>1. n \in 0..Len(Vectors) /\ n \in i..Len(Vectors)
    BY <1>1
  <2>2. BitOffset[i] <= BitOffset[n] /\ BitOffset[n] \in Nat
    BY <2>1, EntryStays, OffsetsUnfold
  <2>3. QED BY <1>3, <2>1, <2>2, PackingUnfolds
<1>5. \A p \in 1..w : s[o + p] = e[p]
  <2>1. n \in i..Len(Vectors)
    BY <1>1
  <2>2. \A p \in 1..Vectors[i][3] : Packing(sums)[n][BitOffset[i - 1] + p] = EntryBits(sums, i)[p]
    BY <2>1, EntryStays
  <2>3. QED BY <1>2, <1>4, <2>2
<1>6. SubSeq(s, o + 1, o + w) = e
  <2>1. PICK t : t = SubSeq(s, o + 1, o + w)
    OBVIOUS
  <2>2. t \in Seq(Bit) /\ Len(t) = w /\ \A p \in 1..w : t[p] = s[o + p]
    <3>1. t = [p \in 1..w |-> s[o + p]]
      BY <1>4, <2>1
    <3>2. \A p \in 1..w : s[o + p] \in Bit
      BY <1>4
    <3>3. QED BY <3>1, <3>2
  <2>3. Len(e) = w
    BY <1>2
  <2>4. t = e
    BY <1>5, <2>2, <2>3
  <2>5. QED BY <2>1, <2>4
<1>7. unpackBits(e) = Value(sums, Vectors[i])
  <2>1. Vectors[i] \in Entries
    BY VectorsHold
  <2>2. Value(sums, Vectors[i]) \in Nat /\ Shifted(Value(sums, Vectors[i]))[Vectors[i][3]] = 0
    BY <2>1 DEF Fitting
  <2>3. QED BY <1>2, <2>2, Unpacked DEF EntryBits
<1>8. QED BY <1>1, <1>2, <1>3, <1>4, <1>6, <1>7

-------------------------------------------------------------------------------
\* A set of cells is no larger than the interval an injection of it goes to.
LEMMA LineBound ==
  ASSUME NEW L, NEW f, NEW a \in Int, NEW b \in Int, a <= b + 1,
         \A x \in L : f[x] \in a..b, \A x, y \in L : f[x] = f[y] => x = y
  PROVE  Cardinality(L) \in Nat /\ Cardinality(L) <= b - a + 1
<1> DEFINE g == [x \in L |-> f[x]]
<1>1. g \in Injection(L, a..b)
  <2>1. g \in [L -> a..b]
    OBVIOUS
  <2>2. \A x, y \in L : g[x] = g[y] => x = y
    OBVIOUS
  <2>3. QED BY <2>1, <2>2 DEF Injection, IsInjective
<1>2. IsFiniteSet(a..b) /\ Cardinality(a..b) = b - a + 1
  <2>1. CASE a = b + 1
    <3>1. a..b = {} /\ b - a + 1 = 0
      BY <2>1
    <3>2. QED BY <3>1, FS_EmptySet
  <2>2. CASE a <= b
    <3>1. ~(a > b)
      BY <2>2
    <3>2. QED BY <3>1, FS_Interval
  <2>3. QED BY <2>1, <2>2
<1> HIDE DEF g
<1>3. IsFiniteSet(L) /\ Cardinality(L) <= Cardinality(a..b)
  BY <1>1, <1>2, FS_Injection
<1>4. QED BY <1>2, <1>3, FS_CardinalityType

\* A value of at most n fits into as many bits as n needs.
LEMMA ValueFits ==
  ASSUME NEW v \in Nat, NEW n \in Nat, v <= n
  PROVE  Shifted(v)[BitWidth(n)] = 0
<1>1. BitWidth(n) \in Nat /\ Shifted(n)[BitWidth(n)] = 0
  BY WidthRight
<1>2. Shifted(v)[BitWidth(n)] <= 0 /\ Shifted(v)[BitWidth(n)] \in Nat
  BY <1>1, ShiftMonotone, ShiftedUnfolds
<1>3. QED BY <1>2

LEMMA CellParts ==
  /\ kS \in Nat \ {0}
  /\ \A x \in Cells : x[1] \in 0..(kS - 1) /\ x[2] \in 0..(kS - 1)
  /\ \A x, y \in Cells : x[1] = y[1] /\ x[2] = y[2] => x = y
BY kSAssumption DEF Cells, Index

\* No line has more ones than cells.
LEMMA RowColumnBound ==
  ASSUME NEW O \in SUBSET Cells, NEW k \in Index
  PROVE  /\ Cardinality({x \in O : x[1] = k}) \in Nat /\ Cardinality({x \in O : x[1] = k}) <= kS
         /\ Cardinality({x \in O : x[2] = k}) \in Nat /\ Cardinality({x \in O : x[2] = k}) <= kS
<1>1. kS - 1 \in Int /\ 0 <= (kS - 1) + 1 /\ (kS - 1) - 0 + 1 = kS
  BY CellParts
<1>2. PICK f, g : f = [x \in Cells |-> x[1]] /\ g = [x \in Cells |-> x[2]]
  OBVIOUS
<1>3. PICK R, C : R = {x \in O : x[1] = k} /\ C = {x \in O : x[2] = k}
  OBVIOUS
<1>4. /\ \A x \in R : g[x] \in 0..(kS - 1)
      /\ \A x \in C : f[x] \in 0..(kS - 1)
  BY <1>2, <1>3, CellParts
<1>5. /\ \A x, y \in R : g[x] = g[y] => x = y
      /\ \A x, y \in C : f[x] = f[y] => x = y
  BY <1>2, <1>3, CellParts
<1>6. Cardinality(R) \in Nat /\ Cardinality(R) <= (kS - 1) - 0 + 1
  BY <1>1, <1>4, <1>5, LineBound
<1>7. Cardinality(C) \in Nat /\ Cardinality(C) <= (kS - 1) - 0 + 1
  BY <1>1, <1>4, <1>5, LineBound
<1>8. QED BY <1>1, <1>3, <1>6, <1>7

LEMMA DiagonalBound ==
  ASSUME NEW O \in SUBSET Cells, NEW k \in 0..(kDiagCount - 1)
  PROVE  Cardinality({x \in O : x[2] - x[1] + kS - 1 = k}) \in 0..diagLen(k)
<1>1. PICK D : D = {x \in O : x[2] - x[1] + kS - 1 = k}
  OBVIOUS
<1>2. PICK f : f = [x \in Cells |-> x[1]]
  OBVIOUS
<1>3. k \in Nat /\ kS \in Nat \ {0} /\ kDiagCount = 2 * kS - 1 /\ k <= 2 * kS - 2
  BY kSAssumption DEF kDiagCount
<1>4. \A x \in D : f[x] \in 0..(kS - 1) /\ f[x] \in (kS - 1 - k)..(kS - 1) /\ f[x] \in 0..(2 * kS - 2 - k)
  <2>1. ASSUME NEW x \in D
        PROVE  f[x] \in 0..(kS - 1) /\ f[x] \in (kS - 1 - k)..(kS - 1) /\ f[x] \in 0..(2 * kS - 2 - k)
    <3>1. x \in Cells /\ x[2] - x[1] + kS - 1 = k /\ f[x] = x[1]
      BY <1>1, <1>2, <2>1
    <3>2. x[1] \in 0..(kS - 1) /\ x[2] \in 0..(kS - 1)
      BY <3>1, CellParts
    <3>3. QED BY <1>3, <3>1, <3>2
  <2>2. QED BY <2>1
<1>5. \A x, y \in D : f[x] = f[y] => x = y
  <2>1. ASSUME NEW x \in D, NEW y \in D, f[x] = f[y] PROVE x = y
    <3>1. x \in Cells /\ y \in Cells /\ x[1] = y[1] /\ x[2] - x[1] + kS - 1 = k /\ y[2] - y[1] + kS - 1 = k
      BY <1>1, <1>2, <2>1
    <3>2. PICK r \in Int, b \in Int, c \in Int : r = x[1] /\ r = y[1] /\ b = x[2] /\ c = y[2]
      BY <3>1, CellParts
    <3>3. b = c
      BY <1>3, <3>1, <3>2
    <3>4. QED BY <3>1, <3>2, <3>3, CellParts
  <2>2. QED BY <2>1
<1>6. Cardinality(D) \in Nat /\ Cardinality(D) <= kS
  <2>1. PICK a \in Int, b \in Int : a = 0 /\ b = kS - 1 /\ a <= b + 1
    BY <1>3
  <2>2. \A x \in D : f[x] \in a..b
    BY <1>4, <2>1
  <2>3. Cardinality(D) \in Nat /\ Cardinality(D) <= b - a + 1
    BY <1>5, <2>1, <2>2, LineBound
  <2>4. QED BY <1>3, <2>1, <2>3
<1>7. Cardinality(D) <= k + 1
  <2>1. PICK a \in Int, b \in Int : a = kS - 1 - k /\ b = kS - 1 /\ a <= b + 1
    BY <1>3
  <2>2. \A x \in D : f[x] \in a..b
    BY <1>4, <2>1
  <2>3. Cardinality(D) \in Nat /\ Cardinality(D) <= b - a + 1
    BY <1>5, <2>1, <2>2, LineBound
  <2>4. QED BY <1>3, <2>1, <2>3
<1>8. Cardinality(D) <= kDiagCount - k
  <2>1. PICK a \in Int, b \in Int : a = 0 /\ b = 2 * kS - 2 - k /\ a <= b + 1
    BY <1>3
  <2>2. \A x \in D : f[x] \in a..b
    BY <1>4, <2>1
  <2>3. Cardinality(D) \in Nat /\ Cardinality(D) <= b - a + 1
    BY <1>5, <2>1, <2>2, LineBound
  <2>4. QED BY <1>3, <2>1, <2>3
<1>9. Cardinality(D) \in 0..diagLen(k)
  BY <1>6, <1>7, <1>8, DiagonalLength
<1>10. QED BY <1>1, <1>9

LEMMA AntidiagonalBound ==
  ASSUME NEW O \in SUBSET Cells, NEW k \in 0..(kDiagCount - 1)
  PROVE  Cardinality({x \in O : x[1] + x[2] = k}) \in 0..diagLen(k)
<1>1. PICK D : D = {x \in O : x[1] + x[2] = k}
  OBVIOUS
<1>2. PICK f : f = [x \in Cells |-> x[1]]
  OBVIOUS
<1>3. k \in Nat /\ kS \in Nat \ {0} /\ kDiagCount = 2 * kS - 1 /\ k <= 2 * kS - 2
  BY kSAssumption DEF kDiagCount
<1>4. \A x \in D : f[x] \in 0..(kS - 1) /\ f[x] \in 0..k /\ f[x] \in (k - kS + 1)..(kS - 1)
  <2>1. ASSUME NEW x \in D
        PROVE  f[x] \in 0..(kS - 1) /\ f[x] \in 0..k /\ f[x] \in (k - kS + 1)..(kS - 1)
    <3>1. x \in Cells /\ x[1] + x[2] = k /\ f[x] = x[1]
      BY <1>1, <1>2, <2>1
    <3>2. x[1] \in 0..(kS - 1) /\ x[2] \in 0..(kS - 1)
      BY <3>1, CellParts
    <3>3. QED BY <1>3, <3>1, <3>2
  <2>2. QED BY <2>1
<1>5. \A x, y \in D : f[x] = f[y] => x = y
  <2>1. ASSUME NEW x \in D, NEW y \in D, f[x] = f[y] PROVE x = y
    <3>1. x \in Cells /\ y \in Cells /\ x[1] = y[1] /\ x[1] + x[2] = k /\ y[1] + y[2] = k
      BY <1>1, <1>2, <2>1
    <3>2. PICK r \in Int, b \in Int, c \in Int : r = x[1] /\ r = y[1] /\ b = x[2] /\ c = y[2]
      BY <3>1, CellParts
    <3>3. b = c
      BY <1>3, <3>1, <3>2
    <3>4. QED BY <3>1, <3>2, <3>3, CellParts
  <2>2. QED BY <2>1
<1>6. Cardinality(D) \in Nat /\ Cardinality(D) <= kS
  <2>1. PICK a \in Int, b \in Int : a = 0 /\ b = kS - 1 /\ a <= b + 1
    BY <1>3
  <2>2. \A x \in D : f[x] \in a..b
    BY <1>4, <2>1
  <2>3. Cardinality(D) \in Nat /\ Cardinality(D) <= b - a + 1
    BY <1>5, <2>1, <2>2, LineBound
  <2>4. QED BY <1>3, <2>1, <2>3
<1>7. Cardinality(D) <= k + 1
  <2>1. PICK a \in Int, b \in Int : a = 0 /\ b = k /\ a <= b + 1
    BY <1>3
  <2>2. \A x \in D : f[x] \in a..b
    BY <1>4, <2>1
  <2>3. Cardinality(D) \in Nat /\ Cardinality(D) <= b - a + 1
    BY <1>5, <2>1, <2>2, LineBound
  <2>4. QED BY <1>3, <2>1, <2>3
<1>8. Cardinality(D) <= kDiagCount - k
  <2>1. PICK a \in Int, b \in Int : a = k - kS + 1 /\ b = kS - 1 /\ a <= b + 1
    BY <1>3
  <2>2. \A x \in D : f[x] \in a..b
    BY <1>4, <2>1
  <2>3. Cardinality(D) \in Nat /\ Cardinality(D) <= b - a + 1
    BY <1>5, <2>1, <2>2, LineBound
  <2>4. QED BY <1>3, <2>1, <2>3
<1>9. Cardinality(D) \in 0..diagLen(k)
  BY <1>6, <1>7, <1>8, DiagonalLength
<1>10. QED BY <1>1, <1>9

\* A table's two views of a line agree, and a line is a list of cells.
TablesSound(t) ==
  \A s \in DOMAIN t.fwd : TableConsistent(t, s) /\ \A k \in Index : t.csr[s][k] \in Seq(Cells)

LEMMA PartitionBound ==
  ASSUME NEW t, TablesSound(t), NEW s \in DOMAIN t.fwd, NEW O \in SUBSET Cells, NEW k \in Index
  PROVE  Cardinality({x \in O : t.fwd[s][x] = k}) \in 0..kS
<1>1. PICK c \in Seq(Cells) : c = t.csr[s][k]
  BY DEF TablesSound
<1>2. Range(c) = {x \in Cells : t.fwd[s][x] = k} /\ Len(c) = kS
  BY <1>1 DEF TablesSound, TableConsistent
<1>3. kS \in Nat /\ IsFiniteSet(1..kS) /\ Cardinality(1..kS) = kS
  <2>1. kS \in Nat /\ 1 \in Int /\ kS \in Int /\ ~(1 > kS) /\ kS - 1 + 1 = kS
    BY kSAssumption
  <2>2. QED BY <2>1, FS_Interval
<1>4. c \in Surjection(1..kS, Range(c))
  <2>1. c \in [1..kS -> Range(c)]
    BY <1>2 DEF Range
  <2>2. QED BY <1>2, <2>1 DEF Surjection, Range
<1>5. IsFiniteSet(Range(c)) /\ Cardinality(Range(c)) <= kS
  BY <1>3, <1>4, FS_Surjection
<1>6. PICK L : L = {x \in O : t.fwd[s][x] = k}
  OBVIOUS
<1>7. L \in SUBSET Range(c)
  BY <1>2, <1>6
<1>8. IsFiniteSet(L) /\ Cardinality(L) <= Cardinality(Range(c))
  BY <1>5, <1>7, FS_Subset
<1>9. Cardinality(L) \in Nat /\ Cardinality(Range(c)) \in Nat
  BY <1>5, <1>8, FS_CardinalityType
<1>10. Cardinality(L) \in 0..kS
  BY <1>3, <1>5, <1>8, <1>9
<1>11. QED BY <1>6, <1>10

\* The sums of a matrix, kind by kind.
SumsShape(sums, r, c, d, a, p, q) ==
  /\ sums = [lsm |-> r, vsm |-> c, dsm |-> d, xsm |-> a, ltp1sm |-> p, ltp2sm |-> q]
  /\ r \in [Index -> 0..kS] /\ c \in [Index -> 0..kS]
  /\ p \in [Index -> 0..kS] /\ q \in [Index -> 0..kS]
  /\ d = [k \in 0..(kDiagCount - 1) |-> d[k]] /\ \A k \in 0..(kDiagCount - 1) : d[k] \in 0..diagLen(k)
  /\ a = [k \in 0..(kDiagCount - 1) |-> a[k]] /\ \A k \in 0..(kDiagCount - 1) : a[k] \in 0..diagLen(k)

LEMMA SumsParts ==
  ASSUME NEW t, TablesSound(t), NEW m
  PROVE  \E r, c, d, a, p, q : SumsShape(SumsOf(t, m), r, c, d, a, p, q)
<1>1. PICK O \in SUBSET Cells : O = {x \in Cells : m[x] = 1}
  OBVIOUS
<1> DEFINE r == [k \in Index |-> Cardinality({x \in O : x[1] = k})]
           c == [k \in Index |-> Cardinality({x \in O : x[2] = k})]
           d == [k \in 0..(kDiagCount - 1) |-> Cardinality({x \in O : x[2] - x[1] + kS - 1 = k})]
           a == [k \in 0..(kDiagCount - 1) |-> Cardinality({x \in O : x[1] + x[2] = k})]
           p(s) == IF s \in DOMAIN t.fwd THEN [k \in Index |-> Cardinality({x \in O : t.fwd[s][x] = k})]
                   ELSE [k \in Index |-> 0]
<1>2. SumsOf(t, m) = [lsm |-> r, vsm |-> c, dsm |-> d, xsm |-> a, ltp1sm |-> p(1), ltp2sm |-> p(2)]
  BY <1>1 DEF SumsOf, Index
<1>3. r \in [Index -> 0..kS] /\ c \in [Index -> 0..kS]
  <2>1. \A n \in Nat : n <= kS => n \in 0..kS
    BY kSAssumption
  <2>2. \A k \in Index : Cardinality({x \in O : x[1] = k}) \in 0..kS /\ Cardinality({x \in O : x[2] = k}) \in 0..kS
    BY <2>1, RowColumnBound
  <2>3. QED BY <2>2
<1>4. \A s : p(s) \in [Index -> 0..kS]
  <2>1. ASSUME NEW s PROVE p(s) \in [Index -> 0..kS]
    <3>1. CASE s \in DOMAIN t.fwd
      BY <3>1, PartitionBound
    <3>2. CASE s \notin DOMAIN t.fwd
      BY <3>2, kSAssumption
    <3>3. QED BY <3>1, <3>2
  <2>2. QED BY <2>1
<1>5. /\ d = [k \in 0..(kDiagCount - 1) |-> d[k]] /\ \A k \in 0..(kDiagCount - 1) : d[k] \in 0..diagLen(k)
      /\ a = [k \in 0..(kDiagCount - 1) |-> a[k]] /\ \A k \in 0..(kDiagCount - 1) : a[k] \in 0..diagLen(k)
  BY DiagonalBound, AntidiagonalBound
<1> HIDE DEF r, c, d, a, p
<1>6. SumsShape(SumsOf(t, m), r, c, d, a, p(1), p(2))
  BY <1>2, <1>3, <1>4, <1>5 DEF SumsShape
<1>7. QED BY <1>6

\* Every sum of a block fits the width its entry is given.
LEMMA SumsFit ==
  ASSUME NEW t, TablesSound(t), NEW m
  PROVE  Fitting(SumsOf(t, m))
<1>1. PICK r, c, d, a, p, q : SumsShape(SumsOf(t, m), r, c, d, a, p, q)
  BY SumsParts
<1>2. SUFFICES ASSUME NEW v \in Entries
               PROVE  Value(SumsOf(t, m), v) \in Nat /\ Shifted(Value(SumsOf(t, m), v))[v[3]] = 0
  BY DEF Fitting
<1>3. \A n \in Nat : \A w \in 0..n : w \in Nat /\ Shifted(w)[BitWidth(n)] = 0
  BY ValueFits
<1>4. CASE \E name \in UniformNames, k \in Index : v = <<name, k, BitWidth(kS)>>
  <2>1. PICK name \in UniformNames, k \in Index : v = <<name, k, BitWidth(kS)>>
    BY <1>4
  <2>2. Value(SumsOf(t, m), v) \in 0..kS
    <3>1. SumsOf(t, m)[name][k] \in 0..kS
      <4>1. CASE name = "lsm"
        BY <1>1, <4>1 DEF SumsShape
      <4>2. CASE name = "vsm"
        BY <1>1, <4>2 DEF SumsShape
      <4>3. CASE name = "ltp1sm"
        BY <1>1, <4>3 DEF SumsShape
      <4>4. CASE name = "ltp2sm"
        BY <1>1, <4>4 DEF SumsShape
      <4>5. QED BY <4>1, <4>2, <4>3, <4>4 DEF UniformNames
    <3>2. v[1] = name /\ v[2] = k
      BY <2>1
    <3>3. QED BY <3>1, <3>2 DEF Value
  <2>3. kS \in Nat /\ v[3] = BitWidth(kS)
    BY <2>1, kSAssumption
  <2>4. QED BY <1>3, <2>2, <2>3
<1>5. CASE \E name \in DiagonalNames, k \in 0..(kDiagCount - 1) : v = <<name, k, diagBits(k)>>
  <2>1. PICK name \in DiagonalNames, k \in 0..(kDiagCount - 1) : v = <<name, k, diagBits(k)>>
    BY <1>5
  <2>2. Value(SumsOf(t, m), v) \in 0..diagLen(k)
    <3>1. SumsOf(t, m)[name][k] \in 0..diagLen(k)
      <4>1. CASE name = "dsm"
        BY <1>1, <4>1 DEF SumsShape
      <4>2. CASE name = "xsm"
        BY <1>1, <4>2 DEF SumsShape
      <4>3. QED BY <4>1, <4>2 DEF DiagonalNames
    <3>2. v[1] = name /\ v[2] = k
      BY <2>1
    <3>3. QED BY <3>1, <3>2 DEF Value
  <2>3. diagLen(k) \in Nat /\ v[3] = BitWidth(diagLen(k))
    BY <2>1, DiagonalLength DEF diagBits
  <2>4. QED BY <1>3, <2>2, <2>3
<1>6. QED BY <1>4, <1>5 DEF Entries

\* Packing and unpacking keeps a block's description.
LEMMA RoundTrip ==
  ASSUME NEW t, TablesSound(t), NEW m, NEW di
  PROVE  deserializeBlock(serializeBlock(PayloadOf(t, m), di)) = PayloadOf(t, m)
<1> DEFINE sums == SumsOf(t, m)
           bits == Packing(sums)[Len(Vectors)]
           at(name, k) == CHOOSE n \in DOMAIN Vectors : Vectors[n][1] = name /\ Vectors[n][2] = k
           entry(name, k) == unpackBits(SubSeq(bits, BitOffset[at(name, k) - 1] + 1, BitOffset[at(name, k)]))
           vector(name, n) == [k \in 0..(n - 1) |-> entry(name, k)]
<1>1. Fitting(sums)
  BY SumsFit
<1>2. deserializeBlock(serializeBlock(PayloadOf(t, m), di))
        = [sums |-> [lsm |-> vector("lsm", kS), vsm |-> vector("vsm", kS),
                     dsm |-> vector("dsm", kDiagCount), xsm |-> vector("xsm", kDiagCount),
                     ltp1sm |-> vector("ltp1sm", kS), ltp2sm |-> vector("ltp2sm", kS)],
           lh |-> computeLH(m), bh |-> m]
  BY DEF deserializeBlock, serializeBlock, PayloadOf
<1>3. ASSUME NEW name, NEW k, NEW w, Has(Vectors, <<name, k, w>>) PROVE entry(name, k) = sums[name][k]
  <2>1. DOMAIN Vectors = 1..Len(Vectors)
    BY VectorsHold
  <2>2. \E n \in DOMAIN Vectors : Vectors[n][1] = name /\ Vectors[n][2] = k
    BY <1>3, <2>1 DEF Has
  <2>3. PICK i \in 1..Len(Vectors) : i = at(name, k) /\ Vectors[i][1] = name /\ Vectors[i][2] = k
    BY <2>1, <2>2
  <2>4. unpackBits(SubSeq(bits, BitOffset[i - 1] + 1, BitOffset[i])) = Value(sums, Vectors[i])
    <3> HIDE DEF sums
    <3> QED BY <1>1, EntryFound
  <2> HIDE DEF bits, at
  <2>5. QED BY <2>3, <2>4 DEF Value
<1> HIDE DEF entry
<1>4. \A name \in UniformNames, k \in Index : entry(name, k) = sums[name][k]
  BY <1>3, VectorsHold
<1>5. \A name \in DiagonalNames, k \in 0..(kDiagCount - 1) : entry(name, k) = sums[name][k]
  BY <1>3, VectorsHold
<1>6. PICK r, c, d, a, p, q : SumsShape(sums, r, c, d, a, p, q)
  BY SumsParts
<1> HIDE DEF sums, bits, vector
<1>7. \A name, f : name \in UniformNames /\ f \in [Index -> 0..kS] /\ sums[name] = f => vector(name, kS) = f
  <2>1. ASSUME NEW name \in UniformNames, NEW f \in [Index -> 0..kS], sums[name] = f PROVE vector(name, kS) = f
    <3>1. \A k \in Index : entry(name, k) = f[k]
      BY <1>4, <2>1
    <3>2. vector(name, kS) = [k \in Index |-> entry(name, k)]
      BY DEF vector, Index
    <3>3. QED BY <3>1, <3>2
  <2>2. QED BY <2>1
<1>8. \A name, f : name \in DiagonalNames /\ f = [k \in 0..(kDiagCount - 1) |-> f[k]] /\ sums[name] = f
                      => vector(name, kDiagCount) = f
  <2>1. ASSUME NEW name \in DiagonalNames, NEW f, f = [k \in 0..(kDiagCount - 1) |-> f[k]], sums[name] = f
        PROVE  vector(name, kDiagCount) = f
    <3>1. \A k \in 0..(kDiagCount - 1) : entry(name, k) = f[k]
      BY <1>5, <2>1
    <3>2. vector(name, kDiagCount) = [k \in 0..(kDiagCount - 1) |-> entry(name, k)]
      BY DEF vector
    <3>3. QED BY <2>1, <3>1, <3>2
  <2>2. QED BY <2>1
<1>9. /\ vector("lsm", kS) = r /\ vector("vsm", kS) = c
      /\ vector("ltp1sm", kS) = p /\ vector("ltp2sm", kS) = q
  <2>1. {"lsm", "vsm", "ltp1sm", "ltp2sm"} = UniformNames
    BY DEF UniformNames
  <2>2. sums["lsm"] = r /\ sums["vsm"] = c /\ sums["ltp1sm"] = p /\ sums["ltp2sm"] = q
    BY <1>6 DEF SumsShape
  <2>3. QED BY <1>6, <1>7, <2>1, <2>2 DEF SumsShape
<1>10. vector("dsm", kDiagCount) = d /\ vector("xsm", kDiagCount) = a
  <2>1. {"dsm", "xsm"} = DiagonalNames
    BY DEF DiagonalNames
  <2>2. sums["dsm"] = d /\ sums["xsm"] = a
    BY <1>6 DEF SumsShape
  <2>3. QED BY <1>6, <1>8, <2>1, <2>2 DEF SumsShape
<1>11. PayloadOf(t, m) = [sums |-> sums, lh |-> computeLH(m), bh |-> m]
  BY DEF PayloadOf, sums
<1>12. QED BY <1>2, <1>6, <1>9, <1>10, <1>11 DEF SumsShape

-------------------------------------------------------------------------------
\* A place in the pool belongs to one place of one line.
LEMMA Places ==
  /\ kS \in Nat \ {0} /\ kN \in Nat \ {0} /\ Index = 0..(kS - 1)
  /\ \A k \in Index, j \in 0..(kS - 1) : k * kS + j \in 0..(kN - 1)
  /\ \A p \in 0..(kN - 1) : \E k \in Index, j \in 0..(kS - 1) : k = p \div kS /\ j = p % kS /\ p = k * kS + j
  /\ \A k, l \in Index, i, j \in 0..(kS - 1) : k * kS + i = l * kS + j => k = l /\ i = j
<1>1. kS \in Nat \ {0} /\ Index = 0..(kS - 1)
  BY kSAssumption DEF Index
<1>2. kN = kS * kS /\ kN \in Nat \ {0}
  BY <1>1 DEF kN
<1>3. /\ \A k, j \in 0..(kS - 1) : k * kS + j \in 0..(kS * kS - 1)
      /\ \A p \in 0..(kS * kS - 1) : \E k, j \in 0..(kS - 1) :
           k = p \div kS /\ j = p % kS /\ p = k * kS + j
      /\ \A k, l, i, j \in 0..(kS - 1) : k * kS + i = l * kS + j => k = l /\ i = j
  BY ONLY <1>1, SquarePlaces, Zenon
<1>4. QED BY ONLY <1>1, <1>2, <1>3, Zenon

\* The numbers of the cells.
LEMMA CellNumbers ==
  /\ \A n \in 0..(kN - 1) : CellAt(n) \in Cells
  /\ \A n, m \in 0..(kN - 1) : CellAt(n) = CellAt(m) => n = m
  /\ \A x \in Cells : Flat(x) \in 0..(kN - 1) /\ CellAt(Flat(x)) = x
<1>1. ASSUME NEW n \in 0..(kN - 1)
      PROVE  \E k \in Index, j \in Index : CellAt(n) = <<k, j>> /\ n = k * kS + j
  <2>1. PICK k \in Index, j \in Index : k = n \div kS /\ j = n % kS /\ n = k * kS + j
    BY Places
  <2>2. CellAt(n) = <<k, j>>
    BY <2>1 DEF CellAt
  <2>3. QED BY <2>1, <2>2
<1>2. ASSUME NEW n \in 0..(kN - 1), NEW m \in 0..(kN - 1), CellAt(n) = CellAt(m) PROVE n = m
  <2>1. PICK k \in Index, j \in Index : CellAt(n) = <<k, j>> /\ n = k * kS + j
    BY <1>1
  <2>2. PICK l \in Index, i \in Index : CellAt(m) = <<l, i>> /\ m = l * kS + i
    BY <1>1
  <2>3. k = l /\ j = i
    <3>1. <<k, j>> = <<l, i>>
      BY ONLY <1>2, <2>1, <2>2, Zenon
    <3>2. QED BY <3>1
  <2>4. QED BY <2>1, <2>2, <2>3
<1>3. ASSUME NEW x \in Cells PROVE Flat(x) \in 0..(kN - 1) /\ CellAt(Flat(x)) = x
  <2>1. PICK r \in Index, c \in Index : x = <<r, c>>
    BY DEF Cells
  <2>2. Flat(x) = r * kS + c
    BY <2>1 DEF Flat
  <2>3. r \in Nat /\ c \in 0..(kS - 1) /\ kS \in Nat \ {0}
    BY Places
  <2>4. (r * kS + c) \div kS = r /\ (r * kS + c) % kS = c
    BY <2>3, QuotientUnique
  <2>5. r * kS + c \in 0..(kN - 1)
    BY <2>3, Places
  <2>6. CellAt(Flat(x)) = x
    BY <2>1, <2>2, <2>4 DEF CellAt
  <2>7. QED BY <2>2, <2>5, <2>6
<1>4. ASSUME NEW n \in 0..(kN - 1) PROVE CellAt(n) \in Cells
  BY <1>1 DEF Cells
<1>5. QED BY <1>2, <1>3, <1>4

-------------------------------------------------------------------------------
\* The pool is a permutation of the numbers of the cells, however it is shuffled.
PoolNumbers == 0..(kN - 1)
Pools == {p \in [PoolNumbers -> PoolNumbers] :
            /\ \A i, j \in PoolNumbers : p[i] = p[j] => i = j
            /\ \A v \in PoolNumbers : \E i \in PoolNumbers : p[i] = v}

LEMMA SwapKeeps ==
  ASSUME NEW p \in Pools, NEW i \in PoolNumbers, NEW j \in PoolNumbers
  PROVE  Swap(p, i, j) \in Pools
<1> DEFINE q == [x \in PoolNumbers |-> IF x = j THEN p[i] ELSE IF x = i THEN p[j] ELSE p[x]]
           turn(x) == IF x = j THEN i ELSE IF x = i THEN j ELSE x
<1>1. p \in [PoolNumbers -> PoolNumbers]
  BY DEF Pools
<1>2. Swap(p, i, j) = q
  BY <1>1 DEF Swap
<1>3. \A x \in PoolNumbers : turn(x) \in PoolNumbers /\ q[x] = p[turn(x)] /\ turn(turn(x)) = x
  OBVIOUS
<1> HIDE DEF q, turn
<1>4. q \in [PoolNumbers -> PoolNumbers]
  <2>1. q = [x \in PoolNumbers |-> q[x]]
    BY DEF q
  <2>2. \A x \in PoolNumbers : q[x] \in PoolNumbers
    BY <1>1, <1>3
  <2>3. QED BY <2>1, <2>2
<1>5. ASSUME NEW x \in PoolNumbers, NEW y \in PoolNumbers, q[x] = q[y] PROVE x = y
  <2>1. turn(x) = turn(y)
    BY <1>3, <1>5 DEF Pools
  <2>2. QED BY <1>3, <2>1
<1>6. ASSUME NEW v \in PoolNumbers PROVE \E x \in PoolNumbers : q[x] = v
  <2>1. PICK x \in PoolNumbers : p[x] = v
    BY DEF Pools
  <2>2. turn(x) \in PoolNumbers /\ q[turn(x)] = v
    BY <1>3, <2>1
  <2>3. QED BY <2>2
<1>7. QED BY <1>2, <1>4, <1>5, <1>6 DEF Pools

States == [state : Nat, pool : Pools]

ShuffleStep(n, before) ==
  LET state == (before.state * kLcgA + kLcgC) % kLcgM
      i     == kN - n
  IN  [state |-> state, pool |-> Swap(before.pool, i, state % (i + 1))]

LEMMA ShuffleStepTyped ==
  ASSUME NEW n \in 1..(kN - 1), NEW before \in States
  PROVE  ShuffleStep(n, before) \in States
<1>1. kN \in Nat \ {0} /\ kLcgM \in Nat \ {0} /\ kLcgA \in Nat /\ kLcgC \in Nat
  BY Places, LcgAssumption
<1>2. PICK s \in Nat : s = before.state
  BY DEF States
<1>3. PICK p \in Pools : p = before.pool
  BY DEF States
<1>4. PICK i \in 1..(kN - 1) : i = kN - n
  BY <1>1
<1>5. PICK t \in Nat : t = (s * kLcgA + kLcgC) % kLcgM
  <2>1. s * kLcgA \in Nat
    BY <1>1
  <2>2. s * kLcgA + kLcgC \in Nat
    BY <1>1, <2>1
  <2>3. QED BY <1>1, <2>2, Quotient
<1>6. PICK j \in PoolNumbers : j = t % (i + 1)
  <2>1. i + 1 \in Nat \ {0}
    BY <1>4
  <2>2. PICK r \in 0..((i + 1) - 1) : r = t % (i + 1)
    BY <2>1, Quotient
  <2>3. r \in PoolNumbers
    BY <1>1, <1>4, <2>2 DEF PoolNumbers
  <2>4. QED BY <2>2, <2>3
<1>7. i \in PoolNumbers
  BY <1>1 DEF PoolNumbers
<1>8. Swap(p, i, j) \in Pools
  BY <1>7, SwapKeeps
<1>9. ShuffleStep(n, before) = [state |-> t, pool |-> Swap(p, i, j)]
  BY <1>2, <1>3, <1>4, <1>5, <1>6 DEF ShuffleStep
<1>10. QED BY <1>8, <1>9 DEF States

LEMMA ShufflingUnfolds ==
  ASSUME NEW pool \in Pools, NEW seed \in Nat
  PROVE  /\ Shuffling(pool, seed)[0] = [state |-> seed, pool |-> pool]
         /\ \A n \in 1..(kN - 1) : Shuffling(pool, seed)[n] = ShuffleStep(n, Shuffling(pool, seed)[n - 1])
<1> DEFINE b == [state |-> seed, pool |-> pool]
           step == [p \in Nat \X States |-> IF p[1] \in 1..(kN - 1) THEN ShuffleStep(p[1], p[2]) ELSE p[2]]
           IsShuffling(f) == f = [n \in PoolNumbers |-> IF n = 0 THEN b ELSE ShuffleStep(n, f[n - 1])]
<1>0. kN \in Nat \ {0} /\ b \in States
  BY Places DEF States
<1>1. step \in [Nat \X States -> States]
  <2>1. \A n \in Nat, s \in States : (IF n \in 1..(kN - 1) THEN ShuffleStep(n, s) ELSE s) \in States
    BY ShuffleStepTyped
  <2>2. QED BY <2>1
<1>2. PICK m \in Nat : m = kN - 1
  BY <1>0
<1>3. PICK f \in Runs(States, b, step, m) : TRUE
  <2>1. m \in Nat /\ b \in States
    BY <1>0
  <2> HIDE DEF step, b
  <2>2. Runs(States, b, step, m) # {}
    BY ONLY <1>1, <2>1, IterationUpTo, Zenon
  <2>3. QED BY ONLY <2>2, Zenon
<1>4. IsShuffling(f)
  <2>1. ASSUME NEW n \in PoolNumbers PROVE f[n] = IF n = 0 THEN b ELSE ShuffleStep(n, f[n - 1])
    <3> HIDE DEF b
    <3>1. CASE n = 0
      BY <1>3, <3>1 DEF Runs
    <3>2. CASE n # 0
      <4>1. n \in 1..m /\ n \in 1..(kN - 1) /\ n \in Nat /\ n - 1 \in 0..m
        BY <1>2, <3>2 DEF PoolNumbers
      <4>2. f[n - 1] \in States /\ f[n] = step[<<n, f[n - 1]>>]
        <5> HIDE DEF step
        <5> QED BY <1>3, <4>1 DEF Runs
      <4>3. QED BY <3>2, <4>1, <4>2
    <3>3. QED BY <3>1, <3>2
  <2>2. f = [n \in PoolNumbers |-> f[n]]
    BY <1>2, <1>3 DEF Runs, PoolNumbers
  <2> HIDE DEF b
  <2>3. QED BY <2>1, <2>2
<1>5. Shuffling(pool, seed) = CHOOSE g : IsShuffling(g)
  BY DEF Shuffling, ShuffleStep, PoolNumbers
<1>6. IsShuffling(Shuffling(pool, seed))
  <2> HIDE DEF IsShuffling
  <2> QED BY <1>4, <1>5
<1> HIDE DEF b
<1>7. \A n \in PoolNumbers : Shuffling(pool, seed)[n] = IF n = 0 THEN b ELSE ShuffleStep(n, Shuffling(pool, seed)[n - 1])
  BY <1>6
<1>8. 0 \in PoolNumbers /\ \A n \in 1..(kN - 1) : n \in PoolNumbers /\ n # 0
  BY <1>0 DEF PoolNumbers
<1>9. QED BY <1>7, <1>8 DEF b

\* However often values are exchanged, each stays in the pool once.
LEMMA ShuffledRight ==
  ASSUME NEW pool \in Pools, NEW seed \in Nat
  PROVE  Shuffled(pool, seed) \in Pools
<1> DEFINE G == {n \in Nat : n <= kN - 1 => Shuffling(pool, seed)[n] \in States}
<1>1. kN \in Nat \ {0}
  BY Places
<1>2. 0 \in G /\ G \in SUBSET Nat
  <2>1. Shuffling(pool, seed)[0] = [state |-> seed, pool |-> pool]
    BY ShufflingUnfolds
  <2>2. Shuffling(pool, seed)[0] \in States
    BY <2>1 DEF States
  <2>3. QED BY <2>2
<1>3. ASSUME NEW n \in G PROVE n + 1 \in G
  <2>1. ASSUME n + 1 <= kN - 1 PROVE Shuffling(pool, seed)[n + 1] \in States
    <3>1. n + 1 \in 1..(kN - 1) /\ (n + 1) - 1 = n /\ Shuffling(pool, seed)[n] \in States
      BY <1>1, <2>1
    <3>2. Shuffling(pool, seed)[n + 1] = ShuffleStep(n + 1, Shuffling(pool, seed)[n])
      <4>1. Shuffling(pool, seed)[n + 1] = ShuffleStep(n + 1, Shuffling(pool, seed)[(n + 1) - 1])
        BY <3>1, ShufflingUnfolds
      <4>2. QED BY <3>1, <4>1
    <3>3. ShuffleStep(n + 1, Shuffling(pool, seed)[n]) \in States
      BY <3>1, ShuffleStepTyped
    <3>4. QED BY <3>2, <3>3
  <2>2. QED BY <2>1
<1> HIDE DEF G
<1>4. G = Nat
  BY <1>2, <1>3, Induction
<1>5. kN - 1 \in G
  BY <1>1, <1>4
<1>6. Shuffling(pool, seed)[kN - 1] \in States
  BY <1>1, <1>5 DEF G
<1>7. QED BY <1>6 DEF Shuffled, States

\* The lines of a pool: chunks of kS places.
LEMMA TableOfRight ==
  ASSUME NEW pool \in Pools, NEW k \in Index
  PROVE  /\ TableOf(pool).csr[k] \in Seq(Cells)
         /\ Len(TableOf(pool).csr[k]) = kS
         /\ IsInjective(TableOf(pool).csr[k])
         /\ Range(TableOf(pool).csr[k]) = {x \in Cells : TableOf(pool).fwd[x] = k}
<1> DEFINE csr == [l \in Index |-> [j \in 1..kS |-> CellAt(pool[l * kS + j - 1])]]
           fwd == [x \in Cells |-> CHOOSE l \in Index : x \in Range(csr[l])]
           Holds(x, l, j) == x = CellAt(pool[l * kS + j])
<1>1. TableOf(pool).csr = csr /\ TableOf(pool).fwd = fwd
  BY DEF TableOf
<1>2. kS \in Nat \ {0} /\ kN \in Nat \ {0} /\ Index = 0..(kS - 1)
  BY Places
<1>3. pool \in [PoolNumbers -> PoolNumbers]
  BY DEF Pools
<1>4. ASSUME NEW l \in Index, NEW j \in 0..(kS - 1)
      PROVE  l * kS + j \in PoolNumbers /\ CellAt(pool[l * kS + j]) \in Cells
  <2>1. l * kS + j \in PoolNumbers
    BY Places DEF PoolNumbers
  <2>2. pool[l * kS + j] \in PoolNumbers
    BY <1>3, <2>1
  <2>3. QED BY <2>1, <2>2, CellNumbers DEF PoolNumbers
<1>5. ASSUME NEW l \in Index
      PROVE  csr[l] \in Seq(Cells) /\ Len(csr[l]) = kS /\ \A j \in 0..(kS - 1) : csr[l][j + 1] = CellAt(pool[l * kS + j])
  <2>1. ASSUME NEW j \in 0..(kS - 1)
        PROVE  csr[l][j + 1] = CellAt(pool[l * kS + j])
    <3>1. PICK b \in Nat : b = l * kS
      BY <1>2
    <3>2. j + 1 \in 1..kS /\ b + (j + 1) - 1 = b + j
      BY <1>2
    <3>3. csr[l] = [i \in 1..kS |-> CellAt(pool[b + i - 1])]
      BY <3>1
    <3>4. csr[l][j + 1] = CellAt(pool[b + (j + 1) - 1])
      BY <3>2, <3>3
    <3>5. QED BY <3>1, <3>2, <3>4
  <2>2. ASSUME NEW i \in 1..kS PROVE csr[l][i] \in Cells
    <3>1. PICK j \in 0..(kS - 1) : i = j + 1
      <4>1. i - 1 \in 0..(kS - 1) /\ i = (i - 1) + 1
        BY <1>2
      <4>2. QED BY <4>1
    <3>2. QED BY <1>4, <2>1, <3>1
  <2>3. csr[l] = [i \in 1..kS |-> csr[l][i]]
    OBVIOUS
  <2> HIDE DEF csr
  <2>4. csr[l] \in [1..kS -> Cells]
    BY <2>2, <2>3
  <2>5. csr[l] \in Seq(Cells) /\ Len(csr[l]) = kS
    BY <1>2, <2>4
  <2>6. QED BY <2>1, <2>5
<1> HIDE DEF csr
<1>6. ASSUME NEW l \in Index, NEW i \in 0..(kS - 1), NEW m \in Index, NEW j \in 0..(kS - 1),
             CellAt(pool[l * kS + i]) = CellAt(pool[m * kS + j])
      PROVE  l = m /\ i = j
  <2>1. pool[l * kS + i] \in PoolNumbers /\ pool[m * kS + j] \in PoolNumbers
    BY <1>3, <1>4
  <2>2. pool[l * kS + i] = pool[m * kS + j]
    BY <1>6, <2>1, CellNumbers DEF PoolNumbers
  <2>3. l * kS + i = m * kS + j
    BY <1>4, <2>2 DEF Pools
  <2>4. QED BY <2>3, Places
<1>7. ASSUME NEW l \in Index PROVE \A x : x \in Range(csr[l]) <=> \E j \in 0..(kS - 1) : x = CellAt(pool[l * kS + j])
  <2>1. DOMAIN csr[l] = 1..kS
    BY <1>2, <1>5
  <2>2. ASSUME NEW x \in Range(csr[l]) PROVE \E j \in 0..(kS - 1) : x = CellAt(pool[l * kS + j])
    <3>1. PICK i \in 1..kS : x = csr[l][i]
      BY <2>1 DEF Range
    <3>2. PICK j \in 0..(kS - 1) : i = j + 1
      <4>1. i - 1 \in 0..(kS - 1) /\ i = (i - 1) + 1
        BY <1>2
      <4>2. QED BY <4>1
    <3>3. QED BY <1>5, <3>1, <3>2
  <2>3. ASSUME NEW x, NEW j \in 0..(kS - 1), x = CellAt(pool[l * kS + j]) PROVE x \in Range(csr[l])
    <3>1. j + 1 \in 1..kS /\ x = csr[l][j + 1]
      BY <1>2, <1>5, <2>3
    <3>2. QED BY <2>1, <3>1 DEF Range
  <2>4. QED BY <2>2, <2>3
<1>8. ASSUME NEW x \in Cells PROVE \E l \in Index : x \in Range(csr[l])
  <2>1. Flat(x) \in PoolNumbers /\ CellAt(Flat(x)) = x
    BY CellNumbers DEF PoolNumbers
  <2>2. PICK p \in PoolNumbers : pool[p] = Flat(x)
    BY <2>1 DEF Pools
  <2>3. PICK l \in Index, j \in 0..(kS - 1) : p = l * kS + j
    <3>1. p \in 0..(kN - 1)
      BY DEF PoolNumbers
    <3>2. PICK l \in Index, j \in 0..(kS - 1) : l = p \div kS /\ j = p % kS /\ p = l * kS + j
      BY <3>1, Places
    <3>3. QED BY <3>2
  <2>4. x = CellAt(pool[l * kS + j])
    BY <2>1, <2>2, <2>3
  <2>5. QED BY <1>7, <2>4
<1>9. ASSUME NEW x, NEW l \in Index, NEW m \in Index, x \in Range(csr[l]), x \in Range(csr[m]) PROVE l = m
  <2>1. PICK i \in 0..(kS - 1) : x = CellAt(pool[l * kS + i])
    BY <1>7, <1>9
  <2>2. PICK j \in 0..(kS - 1) : x = CellAt(pool[m * kS + j])
    BY <1>7, <1>9
  <2>3. QED BY <1>6, <2>1, <2>2
<1>10. ASSUME NEW x \in Cells PROVE fwd[x] \in Index /\ x \in Range(csr[fwd[x]])
  BY <1>8
<1>11. Range(csr[k]) = {x \in Cells : fwd[x] = k}
  <2> HIDE DEF fwd
  <2>1. ASSUME NEW x \in Range(csr[k]) PROVE x \in Cells /\ fwd[x] = k
    <3>1. x \in Cells
      <4>1. PICK j \in 0..(kS - 1) : x = CellAt(pool[k * kS + j])
        BY <1>7
      <4>2. QED BY <1>4, <4>1
    <3>2. QED BY <1>9, <1>10, <3>1
  <2>2. ASSUME NEW x \in Cells, fwd[x] = k PROVE x \in Range(csr[k])
    BY <1>10, <2>2
  <2>3. QED BY <2>1, <2>2
<1>12. IsInjective(csr[k])
  <2>1. DOMAIN csr[k] = 1..kS
    BY <1>2, <1>5
  <2>2. ASSUME NEW a \in 1..kS, NEW b \in 1..kS, csr[k][a] = csr[k][b] PROVE a = b
    <3>1. PICK i \in 0..(kS - 1) : a = i + 1
      <4>1. a - 1 \in 0..(kS - 1) /\ a = (a - 1) + 1
        BY <1>2
      <4>2. QED BY <4>1
    <3>2. PICK j \in 0..(kS - 1) : b = j + 1
      <4>1. b - 1 \in 0..(kS - 1) /\ b = (b - 1) + 1
        BY <1>2
      <4>2. QED BY <4>1
    <3>3. CellAt(pool[k * kS + i]) = CellAt(pool[k * kS + j])
      BY <1>5, <2>2, <3>1, <3>2
    <3>4. QED BY <1>6, <3>1, <3>2, <3>3
  <2>3. QED BY <2>1, <2>2 DEF IsInjective
<1> HIDE DEF fwd
<1>13. QED BY <1>1, <1>5, <1>11, <1>12

-------------------------------------------------------------------------------
\* A table that is entered cell by cell.
LEMMA InjectiveCount ==
  ASSUME NEW S, NEW s \in Seq(S), IsInjective(s) PROVE Cardinality(Range(s)) = Len(s)
<1>1. \A i, j \in 1..Len(s) : s[i] = s[j] => i = j
  BY DEF IsInjective
<1>2. Range(s) = {s[i] : i \in 1..Len(s)}
  BY DEF Range
<1>3. QED BY <1>1, <1>2, SeqCount

Lists == Seq(Cells)
TableLines == [Index -> Lists]

FillStep(a, n, lines) == LET x == CellAt(n - 1) IN [lines EXCEPT ![a[x]] = Append(@, x)]

LEMMA FillStepTyped ==
  ASSUME NEW a, \A x \in Cells : a[x] \in Index, NEW n \in 1..kN, NEW lines \in TableLines
  PROVE  /\ FillStep(a, n, lines) \in TableLines
         /\ CellAt(n - 1) \in Cells
         /\ FillStep(a, n, lines) =
              [k \in Index |-> IF k = a[CellAt(n - 1)] THEN Append(lines[k], CellAt(n - 1)) ELSE lines[k]]
<1>1. n - 1 \in 0..(kN - 1)
  BY Places
<1>2. PICK x \in Cells : x = CellAt(n - 1)
  BY <1>1, CellNumbers
<1>3. FillStep(a, n, lines) = [k \in Index |-> IF k = a[x] THEN Append(lines[k], x) ELSE lines[k]]
  BY <1>2 DEF FillStep, TableLines
<1>4. \A k \in Index : lines[k] \in Lists /\ Append(lines[k], x) \in Lists
  BY DEF TableLines, Lists
<1>5. [k \in Index |-> IF k = a[x] THEN Append(lines[k], x) ELSE lines[k]] \in TableLines
  BY <1>4 DEF TableLines
<1>6. QED BY <1>2, <1>3, <1>5

LEMMA FillingUnfolds ==
  ASSUME NEW a, \A x \in Cells : a[x] \in Index
  PROVE  /\ Filling(a)[0] = [k \in Index |-> <<>>]
         /\ \A n \in 1..kN : Filling(a)[n] = FillStep(a, n, Filling(a)[n - 1])
<1> DEFINE b == [k \in Index |-> <<>>]
           step == [p \in Nat \X TableLines |-> IF p[1] \in 1..kN THEN FillStep(a, p[1], p[2]) ELSE p[2]]
           IsFilling(f) == f = [n \in 0..kN |-> IF n = 0 THEN b ELSE FillStep(a, n, f[n - 1])]
<1>0. b \in TableLines
  BY DEF TableLines, Lists
<1>1. step \in [Nat \X TableLines -> TableLines]
  <2>1. \A n \in Nat, s \in TableLines : (IF n \in 1..kN THEN FillStep(a, n, s) ELSE s) \in TableLines
    BY FillStepTyped
  <2>2. QED BY <2>1
<1>2. PICK m \in Nat : m = kN
  BY Places
<1>3. PICK f \in Runs(TableLines, b, step, m) : TRUE
  <2>1. m \in Nat /\ b \in TableLines
    BY <1>0
  <2> HIDE DEF step, b
  <2>2. Runs(TableLines, b, step, m) # {}
    BY ONLY <1>1, <2>1, IterationUpTo, Zenon
  <2>3. QED BY ONLY <2>2, Zenon
<1>4. IsFilling(f)
  <2>1. ASSUME NEW n \in 0..m PROVE f[n] = IF n = 0 THEN b ELSE FillStep(a, n, f[n - 1])
    <3> HIDE DEF b
    <3>1. CASE n = 0
      BY <1>3, <3>1 DEF Runs
    <3>2. CASE n # 0
      <4>1. n \in 1..m /\ n \in 1..kN /\ n \in Nat /\ n - 1 \in 0..m
        BY <1>2, <3>2
      <4>2. f[n - 1] \in TableLines /\ f[n] = step[<<n, f[n - 1]>>]
        <5> HIDE DEF step
        <5> QED BY <1>3, <4>1 DEF Runs
      <4>3. QED BY <3>2, <4>1, <4>2
    <3>3. QED BY <3>1, <3>2
  <2>2. f = [n \in 0..m |-> f[n]]
    BY <1>3 DEF Runs
  <2> HIDE DEF b
  <2>3. QED BY <1>2, <2>1, <2>2
<1>5. Filling(a) = CHOOSE g : IsFilling(g)
  BY DEF Filling, FillStep
<1>6. IsFilling(Filling(a))
  <2> HIDE DEF IsFilling
  <2> QED BY <1>4, <1>5
<1> HIDE DEF b
<1>7. \A n \in 0..m : Filling(a)[n] = IF n = 0 THEN b ELSE FillStep(a, n, Filling(a)[n - 1])
  BY <1>2, <1>6
<1>8. 0 \in 0..m /\ \A n \in 1..m : n \in 0..m /\ n # 0
  BY <1>2
<1>9. QED BY <1>2, <1>7, <1>8 DEF b

\* Appending a value that is not there.
LEMMA AppendFresh ==
  ASSUME NEW S, NEW s \in Seq(S), NEW x \in S, IsInjective(s), x \notin Range(s)
  PROVE  IsInjective(Append(s, x)) /\ Range(Append(s, x)) = Range(s) \cup {x}
<1>1. PICK n \in Nat : n = Len(s)
  OBVIOUS
<1>2. PICK t \in Seq(S) : t = Append(s, x) /\ Len(t) = n + 1 /\ t[n + 1] = x /\ \A i \in 1..n : t[i] = s[i]
  <2>1. Append(s, x) \in Seq(S) /\ Len(Append(s, x)) = n + 1
    BY <1>1
  <2>2. Append(s, x)[n + 1] = x /\ \A i \in 1..n : Append(s, x)[i] = s[i]
    BY <1>1
  <2>3. QED BY <2>1, <2>2
<1>3. DOMAIN s = 1..n /\ DOMAIN t = 1..(n + 1)
  BY <1>1, <1>2
<1>4. \A i \in 1..(n + 1) : i \in 1..n \/ i = n + 1
  OBVIOUS
<1>5. \A i \in 1..n : s[i] # x /\ i \in 1..(n + 1)
  BY <1>3 DEF Range
<1>6. IsInjective(t)
  <2>1. ASSUME NEW i \in 1..(n + 1), NEW j \in 1..(n + 1), t[i] = t[j] PROVE i = j
    <3>1. CASE i \in 1..n /\ j \in 1..n
      BY <1>2, <1>3, <2>1, <3>1 DEF IsInjective
    <3>2. CASE i = n + 1 /\ j = n + 1
      BY <3>2
    <3>3. CASE i \in 1..n /\ j = n + 1
      BY <1>2, <1>5, <2>1, <3>3
    <3>4. CASE i = n + 1 /\ j \in 1..n
      BY <1>2, <1>5, <2>1, <3>4
    <3>5. QED BY <1>4, <3>1, <3>2, <3>3, <3>4
  <2>2. QED BY <1>3, <2>1 DEF IsInjective
<1>7. Range(t) = Range(s) \cup {x}
  <2>1. ASSUME NEW y \in Range(t) PROVE y \in Range(s) \cup {x}
    <3>1. PICK i \in 1..(n + 1) : y = t[i]
      BY <1>3 DEF Range
    <3>2. CASE i \in 1..n
      BY <1>2, <1>3, <3>1, <3>2 DEF Range
    <3>3. QED BY <1>2, <1>4, <3>1, <3>2
  <2>2. ASSUME NEW y \in Range(s) PROVE y \in Range(t)
    <3>1. PICK i \in 1..n : y = s[i]
      BY <1>3 DEF Range
    <3>2. i \in 1..(n + 1) /\ y = t[i]
      BY <1>2, <1>5, <3>1
    <3>3. QED BY <1>3, <3>2 DEF Range
  <2>3. x \in Range(t)
    <3>1. n + 1 \in 1..(n + 1)
      OBVIOUS
    <3>2. QED BY <1>2, <1>3, <3>1 DEF Range
  <2>4. QED BY <2>1, <2>2, <2>3
<1>8. QED BY <1>2, <1>6, <1>7

FilledRight(a, n) ==
  /\ Filling(a)[n] \in TableLines
  /\ \A k \in Index : /\ IsInjective(Filling(a)[n][k])
                      /\ Range(Filling(a)[n][k]) = {x \in Cells : Flat(x) < n /\ a[x] = k}

LEMMA FilledKept ==
  ASSUME NEW a, \A x \in Cells : a[x] \in Index, NEW n \in 0..(kN - 1), FilledRight(a, n)
  PROVE  FilledRight(a, n + 1)
<1>1. kN \in Nat \ {0} /\ n \in Nat /\ n + 1 \in 1..kN /\ (n + 1) - 1 = n
  BY Places
<1>2. PICK x \in Cells : x = CellAt(n) /\ Flat(x) = n
  <2>1. CellAt(n) \in Cells
    BY CellNumbers
  <2>2. Flat(CellAt(n)) \in 0..(kN - 1) /\ CellAt(Flat(CellAt(n))) = CellAt(n)
    BY <2>1, CellNumbers
  <2>3. Flat(CellAt(n)) = n
    BY <2>2, CellNumbers
  <2>4. QED BY <2>1, <2>3
<1>3. PICK before \in TableLines : before = Filling(a)[n]
  BY DEF FilledRight
<1>4. PICK after \in TableLines :
        /\ after = Filling(a)[n + 1]
        /\ \A k \in Index : after[k] = IF k = a[x] THEN Append(before[k], x) ELSE before[k]
  <2>1. Filling(a)[n + 1] = FillStep(a, n + 1, Filling(a)[(n + 1) - 1])
    BY <1>1, FillingUnfolds
  <2>2. Filling(a)[n + 1] = FillStep(a, n + 1, before)
    BY <1>1, <1>3, <2>1
  <2>3. FillStep(a, n + 1, before) \in TableLines
    BY <1>1, FillStepTyped
  <2>4. PICK i \in 1..kN : i = n + 1 /\ CellAt(i - 1) = x
    BY <1>1, <1>2
  <2>5. FillStep(a, n + 1, before) = [k \in Index |-> IF k = a[x] THEN Append(before[k], x) ELSE before[k]]
    <3>1. FillStep(a, i, before) =
            [k \in Index |-> IF k = a[CellAt(i - 1)] THEN Append(before[k], CellAt(i - 1)) ELSE before[k]]
      BY FillStepTyped
    <3>2. QED BY <2>4, <3>1
  <2>6. \A k \in Index : FillStep(a, n + 1, before)[k] = IF k = a[x] THEN Append(before[k], x) ELSE before[k]
    BY <2>5
  <2>7. QED BY <2>2, <2>3, <2>6
<1>5. \A y \in Cells : Flat(y) \in Nat /\ (Flat(y) = n <=> y = x)
  <2>1. \A y \in Cells : Flat(y) \in 0..(kN - 1) /\ CellAt(Flat(y)) = y
    BY CellNumbers
  <2>2. QED BY <1>1, <1>2, <2>1
<1>6. \A y \in Cells : Flat(y) < n + 1 <=> Flat(y) < n \/ y = x
  BY <1>1, <1>5
<1>7. ASSUME NEW k \in Index
      PROVE  IsInjective(after[k]) /\ Range(after[k]) = {y \in Cells : Flat(y) < n + 1 /\ a[y] = k}
  <2>1. IsInjective(before[k]) /\ Range(before[k]) = {y \in Cells : Flat(y) < n /\ a[y] = k}
    BY <1>3 DEF FilledRight
  <2>2. CASE k = a[x]
    <3>1. before[k] \in Seq(Cells)
      BY DEF TableLines, Lists
    <3>2. x \notin Range(before[k])
      BY <1>1, <1>2, <2>1
    <3>3. IsInjective(Append(before[k], x)) /\ Range(Append(before[k], x)) = Range(before[k]) \cup {x}
      BY <2>1, <3>1, <3>2, AppendFresh
    <3>4. after[k] = Append(before[k], x)
      BY <1>4, <2>2
    <3>5. Range(before[k]) \cup {x} = {y \in Cells : Flat(y) < n + 1 /\ a[y] = k}
      BY <1>6, <2>1, <2>2
    <3>6. QED BY <3>3, <3>4, <3>5
  <2>3. CASE k # a[x]
    <3>1. after[k] = before[k]
      BY <1>4, <2>3
    <3>2. Range(before[k]) = {y \in Cells : Flat(y) < n + 1 /\ a[y] = k}
      BY <1>6, <2>1, <2>3
    <3>3. QED BY <2>1, <3>1, <3>2
  <2>4. QED BY <2>2, <2>3
<1>8. QED BY <1>4, <1>7 DEF FilledRight

\* A file that gives every line kS cells gives a sound table.
LEMMA TableFromRight ==
  ASSUME NEW a, \A x \in Cells : a[x] \in Index, NEW k \in Index,
         Cardinality({x \in Cells : a[x] = k}) = kS
  PROVE  /\ TableFrom(a)[k] \in Seq(Cells)
         /\ Len(TableFrom(a)[k]) = kS
         /\ IsInjective(TableFrom(a)[k])
         /\ Range(TableFrom(a)[k]) = {x \in Cells : a[x] = k}
<1>1. PICK m \in Nat : m = kN
  BY Places
<1>2. \A x \in Cells : Flat(x) \in Nat /\ Flat(x) < m
  <2>1. \A x \in Cells : Flat(x) \in 0..(kN - 1)
    BY CellNumbers
  <2>2. QED BY <1>1, <2>1
<1>3. FilledRight(a, 0)
  <2>1. Filling(a)[0] = [l \in Index |-> <<>>]
    BY FillingUnfolds
  <2>2. Filling(a)[0] \in TableLines
    BY <2>1 DEF TableLines, Lists
  <2>3. ASSUME NEW l \in Index
        PROVE  IsInjective(Filling(a)[0][l]) /\ Range(Filling(a)[0][l]) = {x \in Cells : Flat(x) < 0 /\ a[x] = l}
    <3>1. Filling(a)[0][l] = <<>> /\ DOMAIN <<>> = {}
      BY <2>1
    <3>2. {x \in Cells : Flat(x) < 0 /\ a[x] = l} = {}
      BY <1>2
    <3>3. IsInjective(<<>>) /\ Range(<<>>) = {}
      BY DEF IsInjective, Range
    <3>4. QED BY <3>1, <3>2, <3>3
  <2>4. QED BY <2>2, <2>3 DEF FilledRight
<1>4. FilledRight(a, m)
  <2> DEFINE G == {n \in Nat : FilledRight(a, n)}
  <2>1. 0 \in G
    BY <1>3
  <2>2. ASSUME NEW n \in 0..(m - 1), n \in G PROVE n + 1 \in G
    <3>1. FilledRight(a, n) /\ n \in 0..(kN - 1) /\ n + 1 \in Nat
      BY <1>1, <2>2
    <3>2. FilledRight(a, n + 1)
      BY <3>1, FilledKept
    <3>3. QED BY <3>1, <3>2
  <2> HIDE DEF G
  <2>3. \A n \in 0..m : n \in G
    BY <2>1, <2>2, InductionUpTo
  <2>4. m \in G
    BY <2>3
  <2>5. QED BY <2>4 DEF G
<1>5. TableFrom(a) = Filling(a)[m]
  BY <1>1 DEF TableFrom
<1>6. TableFrom(a)[k] \in Seq(Cells)
  BY <1>4, <1>5 DEF FilledRight, TableLines, Lists
<1>7. IsInjective(TableFrom(a)[k]) /\ Range(TableFrom(a)[k]) = {x \in Cells : Flat(x) < m /\ a[x] = k}
  BY <1>4, <1>5 DEF FilledRight
<1>8. {x \in Cells : Flat(x) < m /\ a[x] = k} = {x \in Cells : a[x] = k}
  BY <1>2
<1>9. Len(TableFrom(a)[k]) = kS
  BY <1>6, <1>7, <1>8, InjectiveCount
<1>10. QED BY <1>6, <1>7, <1>8, <1>9

-------------------------------------------------------------------------------
\* The tables of a process.
LEMMA BuiltSound ==
  ASSUME NEW seeds, seeds[1] \in Nat, seeds[2] \in Nat
  PROVE  TablesSound(buildAllPartitions(seeds))
<1> DEFINE identity == [i \in PoolNumbers |-> i]
<1>1. identity \in Pools
  BY DEF Pools
<1> HIDE DEF identity
<1>2. PICK first \in Pools : first = Shuffled(identity, seeds[1])
  BY <1>1, ShuffledRight
<1>3. PICK second \in Pools : second = Shuffled(first, seeds[2])
  BY ShuffledRight
<1>4. PICK t : t = buildAllPartitions(seeds)
  OBVIOUS
<1>5. /\ t.fwd = <<TableOf(first).fwd, TableOf(second).fwd>>
      /\ t.csr = <<TableOf(first).csr, TableOf(second).csr>>
  BY <1>2, <1>3, <1>4 DEF buildAllPartitions, identity, PoolNumbers
<1>6. ASSUME NEW s \in {1, 2}, NEW pool \in Pools, t.fwd[s] = TableOf(pool).fwd, t.csr[s] = TableOf(pool).csr
      PROVE  TableConsistent(t, s) /\ \A k \in Index : t.csr[s][k] \in Seq(Cells)
  <2>1. ASSUME NEW k \in Index
        PROVE  /\ t.csr[s][k] \in Seq(Cells)
               /\ Len(t.csr[s][k]) = kS
               /\ IsInjective(t.csr[s][k])
               /\ Range(t.csr[s][k]) = {x \in Cells : t.fwd[s][x] = k}
    BY <1>6, TableOfRight
  <2>2. QED BY <2>1 DEF TableConsistent
<1>7. DOMAIN t.fwd = {1, 2}
  BY <1>5
<1>8. TableConsistent(t, 1) /\ \A k \in Index : t.csr[1][k] \in Seq(Cells)
  BY <1>5, <1>6
<1>9. TableConsistent(t, 2) /\ \A k \in Index : t.csr[2][k] \in Seq(Cells)
  BY <1>5, <1>6
<1>10. TablesSound(t)
  BY <1>7, <1>8, <1>9 DEF TablesSound
<1>11. QED BY <1>4, <1>10

LEMMA LoadedSound ==
  ASSUME NEW assign, DOMAIN assign \subseteq 1..2, Len(assign) = 1 \/ Len(assign) = 2, DOMAIN assign = 1..Len(assign),
         buildFromAssignment(assign) # NoTables
  PROVE  TablesSound(buildFromAssignment(assign))
<1>1. ValidAssignment(assign)
  BY DEF buildFromAssignment
<1>2. PICK t : t = buildFromAssignment(assign)
  OBVIOUS
<1>3. /\ t.fwd = assign
      /\ t.csr = [s \in 1..2 |-> IF s <= Len(assign) THEN TableFrom(assign[s])
                                 ELSE [k \in Index |-> [j \in 1..kS |-> <<0, 0>>]]]
  BY <1>1, <1>2 DEF buildFromAssignment
<1>4. ASSUME NEW s \in DOMAIN t.fwd
      PROVE  TableConsistent(t, s) /\ \A k \in Index : t.csr[s][k] \in Seq(Cells)
  <2>1. PICK a : a = assign[s]
    OBVIOUS
  <2>2. s \in 1..2 /\ s <= Len(assign) /\ s \in DOMAIN assign
    BY <1>3
  <2>3. t.fwd[s] = a /\ t.csr[s] = TableFrom(a)
    BY <1>3, <2>1, <2>2
  <2>4. \A x \in Cells : a[x] \in Index
    BY <1>1, <2>1, <2>2 DEF ValidAssignment
  <2>5. ASSUME NEW k \in Index
        PROVE  /\ t.csr[s][k] \in Seq(Cells)
               /\ Len(t.csr[s][k]) = kS
               /\ IsInjective(t.csr[s][k])
               /\ Range(t.csr[s][k]) = {x \in Cells : t.fwd[s][x] = k}
    <3>1. Cardinality({x \in Cells : a[x] = k}) = kS
      BY <1>1, <2>1, <2>2 DEF ValidAssignment
    <3>2. QED BY <2>3, <2>4, <3>1, TableFromRight
  <2>6. QED BY <2>5 DEF TableConsistent
<1>5. TablesSound(t)
  BY <1>4 DEF TablesSound
<1>6. QED BY <1>2, <1>5

\* Whatever the environment says, both commands get tables whose views agree.
LEMMA LtpSound ==
  ASSUME NEW env,
         \A s \in 1..2 : env.seeds[s] \in Nat \cup {Unset, Unparseable},
         env.file # Unset => env.file.assign \in Seq([Cells -> Nat])
  PROVE  TablesSound(getLtpData(env))
<1> DEFINE seeds == [s \in 1..2 |-> parseOptEnvSeed(env.seeds[s], DefaultSeeds[s])]
           built == buildAllPartitions(seeds)
<1>1. ASSUME NEW s \in 1..2 PROVE seeds[s] \in Nat
  <2>1. DefaultSeeds[s] \in Nat
    <3>1. PICK d \in Seq(Nat) : d = DefaultSeeds /\ Len(d) = 2
      BY SeedsAssumption
    <3>2. s \in 1..Len(d)
      BY <3>1
    <3>3. d[s] \in Nat
      BY ONLY <3>2
    <3>4. QED BY <3>1, <3>3
  <2>2. QED BY <2>1 DEF parseOptEnvSeed
<1>2. TablesSound(built)
  <2>1. seeds[1] \in Nat /\ seeds[2] \in Nat
    BY <1>1
  <2> HIDE DEF seeds
  <2>2. QED BY <2>1, BuiltSound
<1> HIDE DEF seeds
<1>3. PICK b : b = built
  OBVIOUS
<1>4. CASE env.file = Unset
  <2>1. getLtpData(env) = built
    BY <1>4 DEF getLtpData, seeds
  <2>2. QED BY <1>2, <2>1
<1>5. CASE env.file # Unset
  <2>1. PICK assign \in Seq([Cells -> Nat]) : assign = env.file.assign
    BY <1>5
  <2>2. PICK loaded : loaded = tryLoadFromFile(env.file)
    OBVIOUS
  <2>3. getLtpData(env) = IF loaded = NoTables THEN built ELSE loaded
    BY <1>5, <2>2 DEF getLtpData, seeds
  <2>4. CASE loaded = NoTables
    BY <1>2, <2>3, <2>4
  <2>5. CASE loaded # NoTables
    <3>1. env.file.numSub \in 1..2 /\ Len(assign) = env.file.numSub /\ loaded = buildFromAssignment(assign)
      BY <2>1, <2>2, <2>5 DEF tryLoadFromFile
    <3>2. DOMAIN assign = 1..Len(assign) /\ Len(assign) \in {1, 2}
      BY <2>1, <3>1
    <3>3. DOMAIN assign \subseteq 1..2
      BY <3>2
    <3>4. TablesSound(loaded)
      BY <2>5, <3>1, <3>2, <3>3, LoadedSound
    <3>5. QED BY <2>3, <2>5, <3>4
  <2>6. QED BY <2>4, <2>5
<1>6. QED BY <1>4, <1>5

-------------------------------------------------------------------------------
\* The state of the two commands.
VecBits == Bytes(kBlockBits) * ByteBits

InEnumeration(b, di) ==
  LET p == PayloadOf(ltp, OriginalOf(b)) IN di < Len(Candidates(p)) /\ Candidates(p)[di + 1] = OriginalOf(b)

Restores(b, bits, di) == di > 0 => bits = vec(OriginalOf(b))

Describes(b, p) == p = PayloadOf(ltp, OriginalOf(b))

\* What a block of the packed file is, for the block of the source it stands for.
BlockRight(b, blk) ==
  /\ blk \in PackedBlocks
  /\ Describes(b, deserializeBlock(blk))
  /\ IF disableDI THEN blk.di = 0 ELSE InEnumeration(b, blk.di)

IsWhole == ~packed.torn /\ Len(packed.blocks) = BlockCount(source)

InputRight == IsFile(source) /\ TablesSound(ltp) /\ disableDI \in BOOLEAN

PackedRight ==
  packed \in {NoFile, Foreign} \/
    /\ packed \in PackedFiles
    /\ packed.header = [size |-> Len(source) \div ByteBits, blockCount |-> BlockCount(source)]
    /\ \A b \in 1..Len(packed.blocks) : BlockRight(b, packed.blocks[b])

CompressRight ==
  /\ pc \in {"compress", "discoverDI", "write"} =>
       /\ packed \in PackedFiles /\ restored = NoFile
       /\ ~bad => ~packed.torn /\ Len(packed.blocks) = block
  /\ pc \in {"discoverDI", "write"} =>
       /\ block < BlockCount(source)
       /\ \E b, p : b = block + 1 /\ p = payload /\ Describes(b, p)
       /\ position < DILimit
       /\ disableDI => position = 0
  /\ pc = "discoverDI" => ~disableDI
  /\ pc = "write" /\ ~disableDI => \E b, di : b = block + 1 /\ di = position /\ InEnumeration(b, di)

\* Bits first to last of block b in the buffer of decompress.
Part(bits, b) == SubSeq(bits, (b - 1) * VecBits + 1, b * VecBits)

DecompressRight ==
  /\ pc \in {"decompress", "row_decomposed", "lex_enumeration"} =>
       /\ packed \in PackedFiles /\ IsWhole
       /\ Len(buffer) = block * VecBits
       /\ \A b \in 1..block : \E bits, di : bits = Part(buffer, b) /\ di = packed.blocks[b].di /\ Restores(b, bits, di)
  /\ pc \in {"row_decomposed", "lex_enumeration"} =>
       /\ block < BlockCount(source)
       /\ \E b, p : b = block + 1 /\ p = payload /\ Describes(b, p)
       /\ pc = "lex_enumeration" <=> packed.blocks[block + 1].di # 0

RestoredRight ==
  restored # NoFile => packed \in PackedFiles /\ IsWhole /\ Len(restored.bits) = Len(source)

ShellRight == pc = "shell" /\ exit = "ok" /\ packed \in PackedFiles => IsWhole

\* The invariant of the two commands.
FileInv ==
  /\ TypeOK /\ InputRight /\ PackedRight /\ CompressRight /\ DecompressRight /\ RestoredRight /\ ShellRight

-------------------------------------------------------------------------------
\* Sizes.
LEMMA Sizes ==
  /\ kBlockBits \in Nat \ {0} /\ VecBits \in Nat /\ kBlockBits <= VecBits
  /\ kBlockPayloadBytes \in Nat /\ kBlockPayloadBytes > 1
<1>1. kBlockBits \in Nat \ {0}
  BY Places DEF kBlockBits, kN
<1>2. ASSUME NEW n \in Nat PROVE Bytes(n) \in Nat /\ n <= Bytes(n) * ByteBits
  <2>1. PICK q \in Nat, r \in 0..7 : q = (n + 7) \div 8 /\ n + 7 = q * 8 + r
    BY Quotient
  <2>2. Bytes(n) = q
    BY <2>1 DEF Bytes, ByteBits
  <2>3. QED BY <2>1, <2>2 DEF ByteBits
<1>3. VecBits \in Nat /\ kBlockBits <= VecBits
  <2>1. PICK q \in Nat : q = Bytes(kBlockBits) /\ kBlockBits <= q * 8
    BY <1>1, <1>2 DEF ByteBits
  <2>2. VecBits = q * 8
    BY <2>1 DEF VecBits, ByteBits
  <2>3. QED BY <2>1, <2>2
<1>4. kBlockPayloadBytes \in Nat /\ kBlockPayloadBytes > 1
  <2>1. PICK q \in Nat : q = Bytes(BitOffset[Len(Vectors)])
    <3>1. BitOffset[Len(Vectors)] \in Nat
      BY OffsetsUnfold, VectorsHold
    <3>2. QED BY <1>2, <3>1
  <2>2. PICK h \in Nat : h = kS * kLHDigestBytes
    BY kSAssumption DEF kLHDigestBytes
  <2>3. kBlockPayloadBytes = h + 32 + 1 + q
    BY <2>1, <2>2 DEF kBlockPayloadBytes, kBHDigestBytes
  <2>4. QED BY <2>3
<1>5. QED BY <1>1, <1>3, <1>4

LEMMA FileSizes ==
  ASSUME NEW f, IsFile(f)
  PROVE  /\ Len(f) \in Nat /\ BlockCount(f) \in Nat
         /\ Len(f) <= BlockCount(f) * kBlockBits
         /\ Len(f) \div ByteBits \in Nat /\ (Len(f) \div ByteBits) * ByteBits = Len(f)
         /\ BlockCount(f) = Ceil(Len(f), kBlockBits)
<1>1. PICK n \in Nat : n = Len(f)
  BY DEF IsFile
<1>2. PICK w \in Nat \ {0} : w = kBlockBits
  BY Sizes
<1>3. PICK q \in Nat, r \in 0..(w - 1) : q = (n + w - 1) \div w /\ n + w - 1 = q * w + r
  <2>1. n + w - 1 \in Nat
    OBVIOUS
  <2>2. QED BY <2>1, Quotient
<1>4. BlockCount(f) = q /\ n <= q * w
  <2>1. BlockCount(f) = q
    BY <1>1, <1>2, <1>3 DEF BlockCount
  <2>2. PICK e \in Nat : e = q * w
    OBVIOUS
  <2>3. n <= e
    BY <1>3, <2>2
  <2>4. QED BY <2>1, <2>2, <2>3
<1>5. PICK s \in Nat, u \in 0..7 : s = n \div 8 /\ u = n % 8 /\ n = s * 8 + u
  BY Quotient
<1>6. u = 0
  BY <1>1, <1>5 DEF IsFile, ByteBits
<1>7. Len(f) \div ByteBits = s
  BY <1>1, <1>5 DEF ByteBits
<1>8. (Len(f) \div ByteBits) * ByteBits = Len(f)
  BY <1>1, <1>5, <1>6, <1>7 DEF ByteBits
<1>9. BlockCount(f) = Ceil(Len(f), kBlockBits)
  BY DEF BlockCount, Ceil
<1>10. QED BY <1>1, <1>2, <1>4, <1>7, <1>8, <1>9

\* A file has the size its header says exactly when it is whole.
LEMMA SizeTells ==
  ASSUME NEW file \in PackedFiles
  PROVE  FileSize(file) = kHeaderBytes + file.header.blockCount * kBlockPayloadBytes
           <=> ~file.torn /\ Len(file.blocks) = file.header.blockCount
<1>1. PICK n \in Nat, m \in Nat, w \in Nat, t \in BOOLEAN :
        n = Len(file.blocks) /\ m = file.header.blockCount /\ w = kBlockPayloadBytes /\ t = file.torn
  <2>1. file.blocks \in Seq(PackedBlocks) /\ file.header.blockCount \in Nat /\ file.torn \in BOOLEAN
    BY DEF PackedFiles
  <2>2. Len(file.blocks) \in Nat
    BY <2>1
  <2>3. QED BY <2>1, <2>2, Sizes
<1>2. w > 1
  BY <1>1, Sizes
<1>3. PICK e \in 0..1 : e = (IF t THEN 1 ELSE 0) /\ (e = 0 <=> ~t)
  OBVIOUS
<1>4. PICK x \in Nat, y \in Nat : x = n * w /\ y = m * w
  OBVIOUS
<1>5. FileSize(file) = 28 + x + e
  BY <1>1, <1>3, <1>4 DEF FileSize, kHeaderBytes
<1>6. x + e = y <=> e = 0 /\ n = m
  <2>1. ASSUME n < m PROVE x + e < y
    <3>1. PICK d \in Nat : m = n + 1 + d
      <4>1. m - n - 1 \in Nat /\ m = n + 1 + (m - n - 1)
        BY <2>1
      <4>2. QED BY <4>1
    <3>2. y = x + w + d * w /\ d * w \in Nat
      BY <1>4, <3>1
    <3>3. QED BY <1>2, <3>2
  <2>2. ASSUME m < n PROVE y < x + e
    <3>1. PICK d \in Nat : n = m + 1 + d
      <4>1. n - m - 1 \in Nat /\ n = m + 1 + (n - m - 1)
        BY <2>2
      <4>2. QED BY <4>1
    <3>2. x = y + w + d * w /\ d * w \in Nat
      BY <1>4, <3>1
    <3>3. QED BY <1>2, <3>2
  <2>3. ASSUME n = m PROVE x = y
    BY <1>4, <2>3
  <2>4. QED BY <2>1, <2>2, <2>3
<1>7. FileSize(file) = kHeaderBytes + file.header.blockCount * kBlockPayloadBytes <=> x + e = y
  <2>1. kHeaderBytes + file.header.blockCount * kBlockPayloadBytes = 28 + y
    BY <1>1, <1>4 DEF kHeaderBytes
  <2>2. 28 + x + e = 28 + y <=> x + e = y
    OBVIOUS
  <2>3. QED BY <1>5, <2>1, <2>2
<1>8. QED BY <1>1, <1>3, <1>6, <1>7

LEMMA MinOfTwo ==
  ASSUME NEW a \in Int, NEW b \in Int
  PROVE  Min({a, b}) = (IF a <= b THEN a ELSE b)
<1> DEFINE m == IF a <= b THEN a ELSE b
<1>1. m \in {a, b} /\ \A y \in {a, b} : m <= y
  OBVIOUS
<1>2. \A x \in {a, b} : (\A y \in {a, b} : x <= y) => x = m
  OBVIOUS
<1>3. Min({a, b}) = CHOOSE x \in {a, b} : \A y \in {a, b} : x <= y
  BY DEF Min
<1> HIDE DEF m
<1>4. Min({a, b}) = m
  BY <1>1, <1>2, <1>3
<1>5. QED BY <1>4 DEF m

\* Blocks are matrices, and a matrix is as long a sequence of bits as any.
LEMMA OriginalTyped ==
  ASSUME NEW f, IsFile(f), NEW b \in Nat PROVE loadCsm(BlockBits(f, b)) \in Matrices
<1>1. f \in Seq(Bit)
  BY DEF IsFile
<1>2. PICK n \in Nat : n = Len(f)
  BY <1>1
<1>3. PICK i \in Nat \ {0} : i = b * kBlockBits + 1
  <2>1. b * kBlockBits \in Nat
    BY Sizes
  <2>2. QED BY <2>1
<1>4. PICK j \in 0..n : j = Min({(b + 1) * kBlockBits, Len(f)})
  <2>1. PICK a \in Nat : a = (b + 1) * kBlockBits
    BY Sizes
  <2>2. Min({a, n}) = IF a <= n THEN a ELSE n
    BY MinOfTwo
  <2>3. Min({a, n}) \in 0..n
    BY <2>2
  <2>4. QED BY <1>2, <2>1, <2>3
<1>5. PICK bits \in Seq(Bit) : bits = BlockBits(f, b)
  <2>1. SubSeq(f, i, j) \in Seq(Bit)
    BY <1>1, <1>2, SubSeqProperties
  <2>2. BlockBits(f, b) = SubSeq(f, i, j)
    BY <1>3, <1>4 DEF BlockBits
  <2>3. QED BY <2>1, <2>2
<1>6. \A i2 \in DOMAIN bits : bits[i2] \in Bit
  OBVIOUS
<1>7. loadCsm(bits) \in Matrices
  BY <1>6 DEF loadCsm, Matrices, Bit
<1>8. QED BY <1>5, <1>7

LEMMA VecTyped ==
  ASSUME NEW m \in Matrices PROVE vec(m) \in Seq(Bit) /\ Len(vec(m)) = VecBits
<1>1. PICK n \in Nat : n = VecBits
  BY Sizes
<1>2. \A i \in 1..n : (IF i <= kBlockBits THEN m[CellAt(i - 1)] ELSE 0) \in Bit
  <2>1. ASSUME NEW i \in 1..n, i <= kBlockBits PROVE m[CellAt(i - 1)] \in Bit
    <3>1. i - 1 \in 0..(kN - 1)
      BY <2>1, Places DEF kBlockBits, kN
    <3>2. CellAt(i - 1) \in Cells
      BY <3>1, CellNumbers
    <3>3. QED BY <3>2 DEF Matrices
  <2>2. QED BY <2>1 DEF Bit
<1>3. vec(m) = [i \in 1..n |-> IF i <= kBlockBits THEN m[CellAt(i - 1)] ELSE 0]
  BY <1>1 DEF vec, VecBits
<1>4. vec(m) \in [1..n -> Bit]
  BY <1>2, <1>3
<1>5. QED BY <1>1, <1>4

\* What serializeBlock makes is a block of the format.
LEMMA BlockTyped ==
  ASSUME NEW t, TablesSound(t), NEW m \in Matrices, NEW di \in 0..(DILimit - 1)
  PROVE  serializeBlock(PayloadOf(t, m), di) \in PackedBlocks
<1>1. PICK bits \in Seq(Bit) : bits = Packing(SumsOf(t, m))[Len(Vectors)]
  <2>1. Len(Vectors) \in 0..Len(Vectors)
    BY VectorsHold
  <2>2. Packing(SumsOf(t, m))[Len(Vectors)] \in Seq(Bit)
    BY <2>1, SumsFit, PackingUnfolds
  <2>3. QED BY <2>2
<1>2. computeLH(m) \in [Index -> Digests]
  <2>1. \A r \in Index : RowDigest({c \in Index : m[<<r, c>>] = 1}) \in Digests
    BY DEF Digests
  <2>2. QED BY <2>1 DEF computeLH
<1>3. serializeBlock(PayloadOf(t, m), di) = [lh |-> computeLH(m), bh |-> m, di |-> di, bits |-> bits]
  BY <1>1 DEF serializeBlock, PayloadOf
<1>4. QED BY <1>2, <1>3 DEF PackedBlocks

-------------------------------------------------------------------------------
\* What is said of a block stays as long as the input does.
LEMMA Steady ==
  ASSUME UNCHANGED input, NEW b, NEW v, NEW w
  PROVE  /\ InEnumeration(b, v)' <=> InEnumeration(b, v)
         /\ Restores(b, v, w)' <=> Restores(b, v, w)
         /\ Describes(b, v)' <=> Describes(b, v)
         /\ BlockRight(b, v)' <=> BlockRight(b, v)
<1>1. source' = source /\ ltp' = ltp /\ disableDI' = disableDI
  BY DEF input
<1>2. OriginalOf(b)' = OriginalOf(b)
  BY <1>1 DEF OriginalOf
<1>3. PayloadOf(ltp, OriginalOf(b))' = PayloadOf(ltp, OriginalOf(b))
  BY <1>1 DEF OriginalOf
<1>4. \A p : Candidates(p)' = Candidates(p)
  BY <1>1 DEF Candidates, Fits
<1>5. \A d : InEnumeration(b, d)' <=> InEnumeration(b, d)
  BY <1>1, <1>2, <1>3, <1>4 DEF InEnumeration
<1>6. \A p : Describes(b, p)' <=> Describes(b, p)
  BY <1>3 DEF Describes
<1>7. Restores(b, v, w)' <=> Restores(b, v, w)
  BY <1>2 DEF Restores
<1>8. BlockRight(b, v)' <=> BlockRight(b, v)
  BY <1>1, <1>5, <1>6 DEF BlockRight
<1>9. QED BY <1>5, <1>6, <1>7, <1>8

\* The packed file.
LEMMA PackedStays ==
  ASSUME PackedRight, UNCHANGED <<input, packed>> PROVE PackedRight'
<1>1. UNCHANGED input /\ source' = source /\ packed' = packed
  BY DEF input
<1>2. CASE packed \in {NoFile, Foreign}
  BY <1>1, <1>2 DEF PackedRight
<1>3. CASE packed \notin {NoFile, Foreign}
  <2>1. /\ packed \in PackedFiles
        /\ packed.header = [size |-> Len(source) \div ByteBits, blockCount |-> BlockCount(source)]
        /\ \A b \in 1..Len(packed.blocks) : BlockRight(b, packed.blocks[b])
    BY <1>3 DEF PackedRight
  <2>2. \A b \in 1..Len(packed.blocks) : BlockRight(b, packed.blocks[b])'
    <3>1. ASSUME NEW b \in 1..Len(packed.blocks) PROVE BlockRight(b, packed.blocks[b])'
      <4>1. PICK v : v = packed.blocks[b]
        OBVIOUS
      <4>2. BlockRight(b, v)
        BY <2>1, <4>1
      <4>3. BlockRight(b, v)'
        BY <1>1, <4>2, Steady
      <4>4. QED BY <1>1, <4>1, <4>3 DEF BlockRight, Describes, InEnumeration
    <3>2. QED BY <3>1
  <2>3. QED BY <1>1, <2>1, <2>2 DEF PackedRight
<1>4. QED BY <1>2, <1>3

\* Taking a packed file apart, and putting one together.
LEMMA PackedParts ==
  ASSUME NEW file \in PackedFiles
  PROVE  \E h \in [size : Nat, blockCount : Nat], bs \in Seq(PackedBlocks), t \in BOOLEAN :
           file = [header |-> h, blocks |-> bs, torn |-> t]
BY DEF PackedFiles

LEMMA PackedNow ==
  ASSUME NEW bs \in Seq(PackedBlocks), NEW t \in BOOLEAN, IsFile(source), UNCHANGED input,
         \A b \in 1..Len(bs) : BlockRight(b, bs[b]),
         packed' = [header |-> [size |-> Len(source) \div ByteBits, blockCount |-> BlockCount(source)],
                    blocks |-> bs, torn |-> t]
  PROVE  PackedRight' /\ packed' \in PackedFiles
<1>1. source' = source
  BY DEF input
<1>2. [size |-> Len(source) \div ByteBits, blockCount |-> BlockCount(source)] \in [size : Nat, blockCount : Nat]
  BY FileSizes
<1>3. packed' \in PackedFiles
  BY <1>2 DEF PackedFiles
<1>4. packed'.blocks = bs /\ packed'.header = [size |-> Len(source) \div ByteBits, blockCount |-> BlockCount(source)]
  OBVIOUS
<1>5. ASSUME NEW b \in 1..Len(bs) PROVE BlockRight(b, packed.blocks[b])'
  <2>1. PICK v : v = bs[b] /\ v = packed'.blocks[b]
    BY <1>4
  <2>2. BlockRight(b, v)'
    BY <2>1, Steady
  <2>3. QED BY <2>1, <2>2 DEF BlockRight, Describes, InEnumeration
<1>6. QED BY <1>1, <1>3, <1>4, <1>5 DEF PackedRight

\* The block that is written next.
LEMMA NextBlock ==
  ASSUME FileInv, pc = "write"
  PROVE  /\ serializeBlock(payload, position) \in PackedBlocks
         /\ BlockRight(block + 1, serializeBlock(payload, position))
<1>1. PICK di \in 0..(DILimit - 1) : di = position /\ (disableDI => di = 0)
  BY BoundsAssumption DEF FileInv, TypeOK, CompressRight
<1>2. block \in Nat /\ IsFile(source) /\ TablesSound(ltp) /\ disableDI \in BOOLEAN
  BY DEF FileInv, TypeOK, InputRight
<1>3. PICK b, p : b = block + 1 /\ p = payload /\ Describes(b, p) /\ b \in Nat
  BY <1>2 DEF FileInv, CompressRight
<1>4. PICK m \in Matrices : m = OriginalOf(b)
  <2>1. b - 1 \in Nat
    BY <1>2, <1>3
  <2>2. QED BY <1>2, <2>1, OriginalTyped DEF OriginalOf
<1>5. p = PayloadOf(ltp, m)
  BY <1>3, <1>4 DEF Describes
<1>6. PICK v \in PackedBlocks : v = serializeBlock(p, di) /\ deserializeBlock(v) = p
  BY <1>2, <1>5, BlockTyped, RoundTrip
<1>7. v.di = di
  BY <1>6 DEF serializeBlock
<1>8. ~disableDI => InEnumeration(b, di)
  BY <1>1, <1>3 DEF FileInv, CompressRight
<1>9. BlockRight(b, v)
  BY <1>1, <1>3, <1>6, <1>7, <1>8 DEF BlockRight
<1>10. QED BY <1>1, <1>3, <1>6, <1>9

LEMMA WriteKeeps ==
  ASSUME FileInv, WriteBlock
  PROVE  PackedRight' /\ packed' \in PackedFiles /\ (~bad' => ~packed'.torn /\ Len(packed'.blocks) = block')
<1>1. packed \in PackedFiles /\ (~bad => ~packed.torn /\ Len(packed.blocks) = block) /\ block \in Nat
  BY DEF FileInv, WriteBlock, CompressRight, TypeOK
<1>2. PackedRight /\ IsFile(source) /\ UNCHANGED input
  BY DEF FileInv, WriteBlock, InputRight
<1>3. CASE ~bad /\ packed' = [packed EXCEPT !.blocks = Append(@, serializeBlock(payload, position))] /\ UNCHANGED bad
  <2>1. PICK h \in [size : Nat, blockCount : Nat], bs \in Seq(PackedBlocks), t \in BOOLEAN :
          packed = [header |-> h, blocks |-> bs, torn |-> t]
    BY <1>1, PackedParts
  <2>2. PICK v \in PackedBlocks : v = serializeBlock(payload, position) /\ BlockRight(block + 1, v)
    BY NextBlock DEF WriteBlock
  <2>3. ~t /\ Len(bs) = block
    BY <1>1, <1>3, <2>1
  <2>4. PICK cs \in Seq(PackedBlocks) :
          cs = Append(bs, v) /\ Len(cs) = block + 1 /\ cs[block + 1] = v /\ \A i \in 1..block : cs[i] = bs[i]
    <3>1. Append(bs, v) \in Seq(PackedBlocks) /\ Len(Append(bs, v)) = block + 1
      BY <2>3
    <3>2. Append(bs, v)[block + 1] = v /\ \A i \in 1..block : Append(bs, v)[i] = bs[i]
      BY <2>3
    <3>3. QED BY <3>1, <3>2
  <2>5. h = [size |-> Len(source) \div ByteBits, blockCount |-> BlockCount(source)]
        /\ \A b \in 1..block : BlockRight(b, bs[b])
    BY <1>1, <1>2, <2>1, <2>3, NoFileAssumption DEF PackedRight
  <2>6. packed' = [header |-> h, blocks |-> cs, torn |-> t]
    BY <1>3, <2>1, <2>2, <2>4
  <2>7. ASSUME NEW b \in 1..Len(cs) PROVE BlockRight(b, cs[b])
    <3>1. CASE b = block + 1
      BY <2>2, <2>4, <3>1
    <3>2. CASE b # block + 1
      <4>1. b \in 1..block
        BY <1>1, <2>4, <3>2
      <4>2. QED BY <2>4, <2>5, <4>1
    <3>3. QED BY <3>1, <3>2
  <2>8. PackedRight' /\ packed' \in PackedFiles
    BY <1>2, <2>5, <2>6, <2>7, PackedNow
  <2>9. ~packed'.torn /\ Len(packed'.blocks) = block'
    BY <2>3, <2>4, <2>6 DEF WriteBlock
  <2>10. QED BY <2>8, <2>9
<1>4. CASE packed' = [packed EXCEPT !.torn = TRUE] /\ bad' = TRUE
  <2>1. PICK h \in [size : Nat, blockCount : Nat], bs \in Seq(PackedBlocks), t \in BOOLEAN :
          packed = [header |-> h, blocks |-> bs, torn |-> t]
    BY <1>1, PackedParts
  <2>2. h = [size |-> Len(source) \div ByteBits, blockCount |-> BlockCount(source)]
        /\ \A b \in 1..Len(bs) : BlockRight(b, bs[b])
    BY <1>1, <1>2, <2>1, NoFileAssumption DEF PackedRight
  <2>3. packed' = [header |-> h, blocks |-> bs, torn |-> TRUE]
    BY <1>4, <2>1
  <2>4. QED BY <1>2, <1>4, <2>2, <2>3, PackedNow
<1>5. CASE bad /\ UNCHANGED <<packed, bad>>
  BY <1>1, <1>2, <1>5, PackedStays
<1>6. QED BY <1>3, <1>4, <1>5 DEF WriteBlock

LEMMA KilledKeeps ==
  ASSUME FileInv, CompressKilled PROVE PackedRight'
<1>1. packed \in PackedFiles
  BY DEF FileInv, CompressKilled, CompressRight
<1>2. PackedRight /\ IsFile(source) /\ UNCHANGED input
  BY DEF FileInv, CompressKilled, InputRight
<1>3. CASE packed' = Foreign
  BY <1>3 DEF PackedRight
<1>4. ASSUME NEW n \in 0..Len(packed.blocks),
             packed' = IF n = Len(packed.blocks) THEN packed
                       ELSE [packed EXCEPT !.blocks = SubSeq(@, 1, n), !.torn = TRUE]
      PROVE  PackedRight'
  <2>1. CASE n = Len(packed.blocks)
    BY <1>2, <1>4, <2>1, PackedStays
  <2>2. CASE n # Len(packed.blocks)
    <3>1. PICK h \in [size : Nat, blockCount : Nat], bs \in Seq(PackedBlocks), t \in BOOLEAN :
            packed = [header |-> h, blocks |-> bs, torn |-> t]
      BY <1>1, PackedParts
    <3>2. h = [size |-> Len(source) \div ByteBits, blockCount |-> BlockCount(source)]
          /\ \A b \in 1..Len(bs) : BlockRight(b, bs[b])
      BY <1>1, <1>2, <3>1, NoFileAssumption DEF PackedRight
    <3>3. n \in Nat /\ n <= Len(bs)
      BY <3>1
    <3>4. PICK cs \in Seq(PackedBlocks) : cs = SubSeq(bs, 1, n) /\ Len(cs) = n /\ \A i \in 1..n : cs[i] = bs[i]
      <4>1. SubSeq(bs, 1, n) \in Seq(PackedBlocks) /\ Len(SubSeq(bs, 1, n)) = n
        BY <3>3
      <4>2. \A i \in 1..n : SubSeq(bs, 1, n)[i] = bs[i]
        BY <3>3
      <4>3. QED BY <4>1, <4>2
    <3>5. packed' = [header |-> h, blocks |-> cs, torn |-> TRUE]
      BY <1>4, <2>2, <3>1, <3>4
    <3>6. \A b \in 1..Len(cs) : b \in 1..Len(bs) /\ cs[b] = bs[b]
      BY <3>3, <3>4
    <3>7. QED BY <1>2, <3>2, <3>5, <3>6, PackedNow
  <2>3. QED BY <2>1, <2>2
<1>5. QED BY <1>3, <1>4 DEF CompressKilled

-------------------------------------------------------------------------------
LEMMA PackedNext == ASSUME FileInv, Next PROVE PackedRight'
<1>1. PackedRight /\ IsFile(source)
  BY DEF FileInv, InputRight
<1>2. CASE WriteBlock
  BY <1>2, WriteKeeps
<1>3. CASE CompressKilled
  BY <1>3, KilledKeeps
<1>4. CASE RemovePacked
  BY <1>4 DEF RemovePacked, PackedRight
<1>5. CASE CompressOpen
  <2>1. PICK bs \in Seq(PackedBlocks) : bs = <<>> /\ Len(bs) = 0
    <3>1. <<>> \in Seq(PackedBlocks) /\ Len(<<>>) = 0
      OBVIOUS
    <3>2. QED BY <3>1
  <2>2. \A b \in 1..Len(bs) : BlockRight(b, bs[b])
    BY <2>1
  <2>3. packed' = [header |-> [size |-> Len(source) \div ByteBits, blockCount |-> BlockCount(source)],
                   blocks |-> bs, torn |-> FALSE]
        /\ UNCHANGED input
    BY <1>5, <2>1 DEF CompressOpen
  <2>4. QED BY <1>1, <2>2, <2>3, PackedNow
<1>6. CASE CompressRefused \/ StartBlock \/ FoundDI \/ OtherCandidate \/ DIOverflow \/ DITimeout \/ DINotFound
           \/ CompressClose \/ DecompressRefused \/ DecompressRejected \/ DecompressOpen \/ ReadBlock
           \/ FirstRowSolution \/ DICandidate \/ SkipCandidate \/ DIOutOfRange
           \/ WriteOutput \/ RemoveRestored \/ DecompressKilled
  <2>1. UNCHANGED <<input, packed>>
    BY <1>6 DEF CompressRefused, StartBlock, FoundDI, OtherCandidate, DIOverflow, DITimeout, DINotFound, CompressClose,
       DecompressRefused, DecompressRejected, DecompressOpen, ReadBlock, FirstRowSolution, DICandidate, SkipCandidate,
       DIOutOfRange, WriteOutput, RemoveRestored, DecompressKilled, Emit, files
  <2>2. QED BY <1>1, <2>1, PackedStays
<1>7. QED BY <1>2, <1>3, <1>4, <1>5, <1>6 DEF Next

LEMMA InputNext == ASSUME FileInv, Next PROVE InputRight' /\ UNCHANGED input
<1>1. UNCHANGED input
  BY DEF Next, CompressRefused, CompressOpen, StartBlock, FoundDI, OtherCandidate, DIOverflow, DITimeout, DINotFound,
     WriteBlock, CompressClose, CompressKilled, RemovePacked, DecompressRefused, DecompressRejected, DecompressOpen,
     ReadBlock, FirstRowSolution, DICandidate, SkipCandidate, DIOutOfRange, WriteOutput, RemoveRestored,
     DecompressKilled, Emit
<1>2. InputRight
  BY DEF FileInv
<1>3. QED BY <1>1, <1>2 DEF InputRight, input

\* The description a step of compress computes is that of the block it is at.
LEMMA CompressNext == ASSUME FileInv, Next PROVE CompressRight'
<1>1. InputRight /\ UNCHANGED input /\ source' = source /\ disableDI' = disableDI /\ ltp' = ltp
  BY InputNext DEF FileInv, input
<1>2. TypeOK /\ CompressRight /\ block \in Nat
  BY DEF FileInv, TypeOK
<1>3. CASE CompressOpen
  <2>1. pc' = "compress" /\ restored = NoFile /\ restored' = NoFile
    <3>1. packed \notin PackedFiles
      BY <1>3, NoFileAssumption DEF CompressOpen
    <3>2. QED BY <1>3, <3>1 DEF CompressOpen, FileInv, RestoredRight
  <2>2. packed' \in PackedFiles /\ ~packed'.torn /\ Len(packed'.blocks) = 0 /\ block' = 0
    <3>1. <<>> \in Seq(PackedBlocks) /\ Len(<<>>) = 0
      OBVIOUS
    <3>2. [size |-> Len(source) \div ByteBits, blockCount |-> BlockCount(source)] \in [size : Nat, blockCount : Nat]
      BY <1>1, FileSizes DEF InputRight
    <3>3. QED BY <1>3, <3>1, <3>2 DEF CompressOpen, PackedFiles
  <2>3. QED BY <2>1, <2>2 DEF CompressRight
<1>4. CASE StartBlock
  <2>1. UNCHANGED <<packed, restored, bad, block>> /\ block < BlockCount(source) /\ position' = 0
        /\ pc' = (IF disableDI THEN "write" ELSE "discoverDI")
    BY <1>4 DEF StartBlock, files
  <2>2. packed \in PackedFiles /\ restored = NoFile /\ (~bad => ~packed.torn /\ Len(packed.blocks) = block)
    BY <1>2, <1>4 DEF StartBlock, CompressRight
  <2>3. PICK b, p : b = block + 1 /\ p = payload' /\ Describes(b, p)
    <3>1. PICK b : b = block + 1 /\ b - 1 = block
      BY <1>2
    <3>2. OriginalOf(b) = Original
      BY <3>1 DEF Original, OriginalOf
    <3>3. payload' = PayloadOf(ltp, Original)
      BY <1>4 DEF StartBlock
    <3>4. QED BY <3>1, <3>2, <3>3 DEF Describes
  <2>4. Describes(b, p)'
    BY <1>1, <2>3, Steady
  <2>5. DILimit > 0
    BY BoundsAssumption
  <2>6. QED BY <1>1, <2>1, <2>2, <2>3, <2>4, <2>5 DEF CompressRight, InputRight
<1>5. CASE FoundDI
  <2>1. UNCHANGED <<packed, restored, bad, block, payload, position>> /\ pc = "discoverDI" /\ pc' = "write"
    BY <1>5 DEF FoundDI, files, work
  <2>2. packed \in PackedFiles /\ restored = NoFile /\ (~bad => ~packed.torn /\ Len(packed.blocks) = block)
        /\ block < BlockCount(source) /\ position < DILimit /\ ~disableDI
    BY <1>2, <2>1 DEF CompressRight
  <2>3. PICK b, p : b = block + 1 /\ p = payload /\ Describes(b, p)
    BY <1>2, <2>1 DEF CompressRight
  <2>4. Describes(b, p)'
    BY <1>1, <2>3, Steady
  <2>5. InEnumeration(b, position)
    <3>1. b - 1 = block
      BY <1>2, <2>3
    <3>2. OriginalOf(b) = Original
      BY <3>1 DEF OriginalOf, Original
    <3>3. payload = PayloadOf(ltp, OriginalOf(b))
      BY <2>3 DEF Describes
    <3>4. position < Len(Candidates(payload)) /\ Candidates(payload)[position + 1] = Original
      BY <1>5 DEF FoundDI
    <3>5. QED BY <3>2, <3>3, <3>4 DEF InEnumeration
  <2>6. PICK di : di = position /\ InEnumeration(b, di)
    BY <2>5
  <2>7. InEnumeration(b, di)'
    BY <1>1, <2>6, Steady
  <2>8. QED BY <1>1, <2>1, <2>2, <2>3, <2>4, <2>6, <2>7 DEF CompressRight
<1>6. CASE OtherCandidate
  <2>1. UNCHANGED <<packed, restored, bad, block, payload>> /\ pc = "discoverDI" /\ pc' = "discoverDI"
        /\ position' = position + 1 /\ position + 1 < DILimit
    BY <1>6 DEF OtherCandidate, files
  <2>2. packed \in PackedFiles /\ restored = NoFile /\ (~bad => ~packed.torn /\ Len(packed.blocks) = block)
        /\ block < BlockCount(source) /\ ~disableDI
    BY <1>2, <2>1 DEF CompressRight
  <2>3. PICK b, p : b = block + 1 /\ p = payload /\ Describes(b, p)
    BY <1>2, <2>1 DEF CompressRight
  <2>4. Describes(b, p)'
    BY <1>1, <2>3, Steady
  <2>5. QED BY <1>1, <2>1, <2>2, <2>3, <2>4 DEF CompressRight
<1>7. CASE WriteBlock
  <2>1. packed' \in PackedFiles /\ (~bad' => ~packed'.torn /\ Len(packed'.blocks) = block')
    BY <1>7, WriteKeeps
  <2>2. pc' = "compress" /\ restored' = NoFile
    BY <1>2, <1>7 DEF WriteBlock, CompressRight
  <2>3. QED BY <2>1, <2>2 DEF CompressRight
<1>8. ASSUME pc' \notin {"compress", "discoverDI", "write"} PROVE CompressRight'
  BY <1>8 DEF CompressRight
<1>9. CASE RemovePacked \/ RemoveRestored
  <2>1. pc' \notin {"compress", "discoverDI", "write"}
    BY <1>9 DEF RemovePacked, RemoveRestored
  <2>2. QED BY <1>8, <2>1
<1>10. CASE CompressRefused \/ DIOverflow \/ DITimeout \/ DINotFound \/ CompressClose \/ CompressKilled
            \/ DecompressRefused \/ DecompressRejected \/ DIOutOfRange \/ WriteOutput \/ DecompressKilled
  <2>1. pc' = "shell"
    BY <1>10 DEF CompressRefused, DIOverflow, DITimeout, DINotFound, CompressClose, CompressKilled, DecompressRefused,
       DecompressRejected, DIOutOfRange, WriteOutput, DecompressKilled, Return
  <2>2. QED BY <1>8, <2>1
<1>11. CASE DecompressOpen \/ ReadBlock \/ FirstRowSolution \/ DICandidate \/ SkipCandidate
  <2>1. pc' \in {"decompress", "row_decomposed", "lex_enumeration"}
    BY <1>11 DEF DecompressOpen, ReadBlock, FirstRowSolution, DICandidate, SkipCandidate, Emit
  <2>2. QED BY <1>8, <2>1
<1>12. QED BY <1>3, <1>4, <1>5, <1>6, <1>7, <1>9, <1>10, <1>11 DEF Next

\* Concatenation keeps the parts that were there and adds one.
LEMMA AddPart ==
  ASSUME NEW n \in Nat, NEW bits \in Seq(Bit), Len(bits) = n * VecBits,
         NEW v \in Seq(Bit), Len(v) = VecBits
  PROVE  /\ bits \o v \in Seq(Bit) /\ Len(bits \o v) = (n + 1) * VecBits
         /\ \A b \in 1..n : Part(bits \o v, b) = Part(bits, b)
         /\ Part(bits \o v, n + 1) = v
<1>1. PICK w \in Nat \ {0} : w = VecBits
  BY Sizes
<1>2. PICK l \in Nat : l = n * w /\ Len(bits) = l
  BY <1>1
<1>3. PICK all \in Seq(Bit) :
        all = bits \o v /\ Len(all) = l + w /\ (\A i \in 1..l : all[i] = bits[i]) /\ (\A i \in 1..w : all[l + i] = v[i])
  <2>1. bits \o v \in Seq(Bit) /\ Len(bits \o v) = l + w
    BY <1>1, <1>2
  <2>2. (\A i \in 1..l : (bits \o v)[i] = bits[i]) /\ (\A i \in 1..w : (bits \o v)[l + i] = v[i])
    BY <1>1, <1>2
  <2>3. QED BY <2>1, <2>2
<1>4. (n + 1) * w = l + w
  BY <1>2
<1>5. ASSUME NEW b \in 1..n PROVE Part(all, b) = Part(bits, b)
  <2>1. PICK i \in Nat, j \in Nat : i = (b - 1) * w /\ j = b * w /\ j = i + w
    <3>1. PICK c \in Nat : b = c + 1 /\ b - 1 = c
      <4>1. b - 1 \in Nat /\ b = (b - 1) + 1
        OBVIOUS
      <4>2. QED BY <4>1
    <3>2. c * w \in Nat /\ (c + 1) * w = c * w + w
      OBVIOUS
    <3>3. QED BY <3>1, <3>2
  <2>2. j <= l
    <3>1. PICK d \in Nat : n = b + d
      <4>1. n - b \in Nat /\ n = b + (n - b)
        OBVIOUS
      <4>2. QED BY <4>1
    <3>2. l = j + d * w /\ d * w \in Nat
      BY <1>2, <2>1, <3>1
    <3>3. QED BY <3>2
  <2>3. Part(all, b) = SubSeq(all, i + 1, j) /\ Part(bits, b) = SubSeq(bits, i + 1, j)
    BY <1>1, <2>1 DEF Part
  <2>4. \A s \in Seq(Bit) : j <= Len(s) => SubSeq(s, i + 1, j) = [k \in 1..w |-> s[i + k]]
    <3>1. ASSUME NEW s \in Seq(Bit), j <= Len(s) PROVE SubSeq(s, i + 1, j) = [k \in 1..w |-> s[i + k]]
      <4>1. SubSeq(s, i + 1, j) = [k \in 1..(1 + j - (i + 1)) |-> s[(i + 1) + k - 1]]
        BY <2>1, <3>1
      <4>2. 1 + j - (i + 1) = w /\ \A k \in 1..w : (i + 1) + k - 1 = i + k
        BY <2>1
      <4>3. QED BY <4>1, <4>2
    <3>2. QED BY <3>1
  <2>5. \A k \in 1..w : i + k \in 1..l
    BY <2>1, <2>2
  <2>6. SubSeq(all, i + 1, j) = [k \in 1..w |-> all[i + k]] /\ SubSeq(bits, i + 1, j) = [k \in 1..w |-> bits[i + k]]
    BY <1>2, <1>3, <2>2, <2>4
  <2>7. QED BY <1>3, <2>3, <2>5, <2>6
<1>6. Part(all, n + 1) = v
  <2>1. Part(all, n + 1) = SubSeq(all, l + 1, l + w)
    <3>1. (n + 1) - 1 = n
      OBVIOUS
    <3>2. QED BY <1>1, <1>2, <1>4, <3>1 DEF Part
  <2>2. SubSeq(all, l + 1, l + w) = [k \in 1..w |-> all[l + k]]
    <3>1. SubSeq(all, l + 1, l + w) = [k \in 1..(1 + (l + w) - (l + 1)) |-> all[(l + 1) + k - 1]]
      BY <1>3
    <3>2. 1 + (l + w) - (l + 1) = w /\ \A k \in 1..w : (l + 1) + k - 1 = l + k
      OBVIOUS
    <3>3. QED BY <3>1, <3>2
  <2>3. v = [k \in 1..w |-> v[k]]
    BY <1>1
  <2>4. QED BY <1>3, <2>1, <2>2, <2>3
<1>7. QED BY <1>1, <1>3, <1>4, <1>5, <1>6

\* Decompression.
LEMMA PackedIs ==
  ASSUME FileInv, packed \in PackedFiles
  PROVE  /\ packed.header = [size |-> Len(source) \div ByteBits, blockCount |-> BlockCount(source)]
         /\ \A b \in 1..Len(packed.blocks) : BlockRight(b, packed.blocks[b])
         /\ packed.blocks \in Seq(PackedBlocks)
         /\ FileSizeRight(packed) <=> IsWhole
<1>1. /\ packed.header = [size |-> Len(source) \div ByteBits, blockCount |-> BlockCount(source)]
      /\ \A b \in 1..Len(packed.blocks) : BlockRight(b, packed.blocks[b])
  BY NoFileAssumption DEF FileInv, PackedRight
<1>2. packed.header.blockCount = BlockCount(source)
  BY <1>1
<1>3. FileSizeRight(packed) <=> IsWhole
  BY <1>2, SizeTells, NoFileAssumption DEF FileSizeRight, IsWhole
<1>4. packed.blocks \in Seq(PackedBlocks)
  BY DEF PackedFiles
<1>5. QED BY <1>1, <1>3, <1>4

LEMMA EmitKeeps ==
  ASSUME FileInv, pc \in {"row_decomposed", "lex_enumeration"}, NEW m \in Matrices, Emit(m),
         Restores(block + 1, vec(m), packed.blocks[block + 1].di)
  PROVE  DecompressRight' /\ buffer' \in Seq(Bit) /\ block' <= BlockCount(source) /\ block' \in Nat
<1>1. /\ packed \in PackedFiles /\ IsWhole /\ Len(buffer) = block * VecBits /\ block < BlockCount(source)
      /\ \A b \in 1..block : \E bits, di : bits = Part(buffer, b) /\ di = packed.blocks[b].di /\ Restores(b, bits, di)
  BY DEF FileInv, DecompressRight
<1>2. /\ UNCHANGED input /\ packed' = packed /\ source' = source /\ pc' = "decompress"
      /\ block' = block + 1 /\ buffer' = buffer \o vec(m)
  BY DEF Emit, input, files
<1>3. block \in Nat /\ buffer \in Seq(Bit) /\ BlockCount(source) \in Nat
  BY FileSizes DEF FileInv, TypeOK, InputRight
<1>4. vec(m) \in Seq(Bit) /\ Len(vec(m)) = VecBits
  BY VecTyped
<1>5. /\ buffer' \in Seq(Bit) /\ Len(buffer') = block' * VecBits
      /\ \A b \in 1..block : Part(buffer', b) = Part(buffer, b)
      /\ Part(buffer', block + 1) = vec(m)
  BY <1>1, <1>2, <1>3, <1>4, AddPart
<1>6. ASSUME NEW b \in 1..block'
      PROVE  \E bits, di : bits = Part(buffer', b) /\ di = packed'.blocks[b].di /\ Restores(b, bits, di)'
  <2>1. PICK bits, di : bits = Part(buffer', b) /\ di = packed.blocks[b].di /\ Restores(b, bits, di)
    <3>1. CASE b = block + 1
      BY <1>5, <3>1
    <3>2. CASE b # block + 1
      <4>1. b \in 1..block
        BY <1>2, <1>3, <3>2
      <4>2. QED BY <1>1, <1>5, <4>1
    <3>3. QED BY <3>1, <3>2
  <2>2. Restores(b, bits, di)'
    BY <1>2, <2>1, Steady
  <2>3. di = packed'.blocks[b].di
    BY <1>2, <2>1
  <2>4. QED BY <2>1, <2>2, <2>3
<1>7. IsWhole'
  BY <1>1, <1>2 DEF IsWhole
<1>8. block' <= BlockCount(source) /\ block' \in Nat
  BY <1>1, <1>2, <1>3
<1>9. DecompressRight'
  BY <1>1, <1>2, <1>5, <1>6, <1>7 DEF DecompressRight
<1>10. QED BY <1>5, <1>8, <1>9

\* What is in the buffer stays.
LEMMA BufferStays ==
  ASSUME FileInv, pc \in {"decompress", "row_decomposed", "lex_enumeration"}, UNCHANGED <<input, packed, buffer, block>>
  PROVE  /\ packed' \in PackedFiles /\ IsWhole'
         /\ Len(buffer') = block' * VecBits
         /\ \A b \in 1..block' : \E bits, di : bits = Part(buffer', b) /\ di = packed'.blocks[b].di /\ Restores(b, bits, di)'
<1>1. /\ packed \in PackedFiles /\ IsWhole /\ Len(buffer) = block * VecBits
      /\ \A b \in 1..block : \E bits, di : bits = Part(buffer, b) /\ di = packed.blocks[b].di /\ Restores(b, bits, di)
  BY DEF FileInv, DecompressRight
<1>2. UNCHANGED input /\ packed' = packed /\ source' = source /\ block' = block /\ buffer' = buffer
  BY DEF input
<1>3. IsWhole'
  BY <1>1, <1>2 DEF IsWhole
<1>4. ASSUME NEW b \in 1..block
      PROVE  \E bits, di : bits = Part(buffer', b) /\ di = packed'.blocks[b].di /\ Restores(b, bits, di)'
  <2>1. PICK bits, di : bits = Part(buffer, b) /\ di = packed.blocks[b].di /\ Restores(b, bits, di)
    BY <1>1
  <2>2. Restores(b, bits, di)'
    BY <1>2, <2>1, Steady
  <2>3. di = packed'.blocks[b].di /\ bits = Part(buffer', b)
    BY <1>2, <2>1
  <2>4. QED BY <2>2, <2>3
<1>5. QED BY <1>1, <1>2, <1>3, <1>4

LEMMA EmitTyped ==
  ASSUME FileInv, FirstRowSolution \/ DICandidate
  PROVE  DecompressRight' /\ buffer' \in Seq(Bit) /\ block' <= BlockCount(source) /\ block' \in Nat
<1>1. InputRight /\ TypeOK /\ DecompressRight /\ block \in Nat
  BY DEF FileInv, TypeOK
<1>2. CASE FirstRowSolution
  <2>1. pc = "row_decomposed"
    BY <1>2 DEF FirstRowSolution
  <2>2. PICK m \in Known \cup Mistaken : Emit(m)
    BY <1>2 DEF FirstRowSolution
  <2>3. m \in Matrices
    BY KnownAssumption
  <2>4. packed.blocks[block + 1].di = 0
    BY <1>1, <2>1 DEF DecompressRight
  <2>5. Restores(block + 1, vec(m), packed.blocks[block + 1].di)
    BY <2>4 DEF Restores
  <2>6. QED BY <2>1, <2>2, <2>3, <2>5, EmitKeeps
<1>3. CASE DICandidate
  <2>1. pc = "lex_enumeration" /\ position < Len(Candidates(payload)) /\ position = packed.blocks[block + 1].di
        /\ Emit(Candidates(payload)[position + 1])
    BY <1>3 DEF DICandidate
  <2>2. PICK b, p : b = block + 1 /\ p = payload /\ Describes(b, p)
    BY <1>1, <2>1 DEF DecompressRight
  <2>3. packed \in PackedFiles /\ IsWhole /\ block < BlockCount(source) /\ packed.blocks[b].di # 0
    BY <1>1, <2>1, <2>2 DEF DecompressRight
  <2>4. b \in 1..Len(packed.blocks) /\ b - 1 \in Nat
    BY <1>1, <2>2, <2>3, FileSizes DEF IsWhole, InputRight
  <2>5. BlockRight(b, packed.blocks[b])
    BY <2>3, <2>4, PackedIs
  <2>6. InEnumeration(b, packed.blocks[b].di) /\ packed.blocks[b].di \in 0..(DILimit - 1)
    BY <2>3, <2>5 DEF BlockRight, PackedBlocks
  <2>7. Candidates(payload)[position + 1] = OriginalOf(b)
    <3>1. payload = PayloadOf(ltp, OriginalOf(b))
      BY <2>2 DEF Describes
    <3>2. QED BY <2>1, <2>2, <2>6, <3>1 DEF InEnumeration
  <2>8. PICK m \in Matrices : m = OriginalOf(b)
    BY <1>1, <2>4, OriginalTyped DEF OriginalOf, InputRight
  <2>9. Restores(block + 1, vec(m), packed.blocks[block + 1].di)
    <3>1. packed.blocks[b].di > 0
      BY <2>3, <2>6, BoundsAssumption
    <3>2. QED BY <2>2, <2>8, <3>1 DEF Restores
  <2>10. Emit(m)
    BY <2>1, <2>7, <2>8
  <2>11. QED BY <2>1, <2>8, <2>9, <2>10, EmitKeeps
<1>4. QED BY <1>2, <1>3

LEMMA DecompressNext == ASSUME FileInv, Next PROVE DecompressRight'
<1>1. InputRight /\ UNCHANGED input /\ source' = source /\ TypeOK /\ DecompressRight /\ block \in Nat
  BY InputNext DEF FileInv, input, TypeOK
<1>2. CASE DecompressOpen
  <2>1. packed \in PackedFiles /\ FileSizeRight(packed) /\ packed' = packed
    BY <1>2 DEF DecompressOpen, FileInv, PackedRight, FileSizeRight, files
  <2>2. IsWhole'
    BY <1>1, <2>1, PackedIs DEF IsWhole
  <2>3. pc' = "decompress" /\ block' = 0 /\ Len(buffer') = 0
    BY <1>2 DEF DecompressOpen
  <2>4. 0 * VecBits = 0
    BY Sizes
  <2>5. QED BY <2>1, <2>2, <2>3, <2>4 DEF DecompressRight
<1>3. CASE ReadBlock
  <2>1. UNCHANGED <<input, packed, buffer, block>> /\ pc = "decompress" /\ block < packed.header.blockCount
    BY <1>3 DEF ReadBlock, files
  <2>2. packed \in PackedFiles /\ IsWhole
    BY <1>1, <2>1 DEF DecompressRight
  <2>3. packed.header.blockCount = BlockCount(source) /\ Len(packed.blocks) = BlockCount(source) /\ BlockCount(source) \in Nat
    BY <1>1, <2>2, PackedIs, FileSizes DEF IsWhole, InputRight
  <2>4. PICK b \in 1..Len(packed.blocks) : b = block + 1
    BY <1>1, <2>1, <2>3
  <2>5. BlockRight(b, packed.blocks[b])
    BY <2>2, PackedIs
  <2>6. PICK p : p = payload' /\ Describes(b, p)
    BY <1>3, <2>4, <2>5 DEF ReadBlock, BlockRight
  <2>7. Describes(b, p)'
    BY <2>1, <2>6, Steady
  <2>8. pc' = (IF packed.blocks[block + 1].di = 0 THEN "row_decomposed" ELSE "lex_enumeration")
    BY <1>3 DEF ReadBlock
  <2>9. /\ packed' \in PackedFiles /\ IsWhole'
        /\ Len(buffer') = block' * VecBits
        /\ \A c \in 1..block' : \E bits, di : bits = Part(buffer', c) /\ di = packed'.blocks[c].di /\ Restores(c, bits, di)'
    BY <2>1, BufferStays
  <2>10. /\ block' < BlockCount(source')
         /\ b = block' + 1
         /\ pc' = "lex_enumeration" <=> packed'.blocks[block' + 1].di # 0
    BY <1>1, <2>1, <2>3, <2>4, <2>8
  <2>11. QED BY <2>6, <2>7, <2>9, <2>10 DEF DecompressRight
<1>4. CASE SkipCandidate
  <2>1. UNCHANGED <<input, packed, buffer, block, payload>> /\ pc = "lex_enumeration" /\ pc' = "lex_enumeration"
    BY <1>4 DEF SkipCandidate, files
  <2>2. PICK b, p : b = block + 1 /\ p = payload /\ Describes(b, p)
    BY <1>1, <2>1 DEF DecompressRight
  <2>3. Describes(b, p)'
    BY <2>1, <2>2, Steady
  <2>4. /\ packed' \in PackedFiles /\ IsWhole'
        /\ Len(buffer') = block' * VecBits
        /\ \A c \in 1..block' : \E bits, di : bits = Part(buffer', c) /\ di = packed'.blocks[c].di /\ Restores(c, bits, di)'
    BY <2>1, BufferStays
  <2>5. block < BlockCount(source) /\ packed.blocks[block + 1].di # 0
    BY <1>1, <2>1 DEF DecompressRight
  <2>6. QED BY <1>1, <2>1, <2>2, <2>3, <2>4, <2>5 DEF DecompressRight
<1>5. CASE FirstRowSolution \/ DICandidate
  BY <1>5, EmitTyped
<1>7. ASSUME pc' \notin {"decompress", "row_decomposed", "lex_enumeration"} PROVE DecompressRight'
  BY <1>7 DEF DecompressRight
<1>8. CASE RemovePacked \/ RemoveRestored
  <2>1. pc' \notin {"decompress", "row_decomposed", "lex_enumeration"}
    BY <1>8 DEF RemovePacked, RemoveRestored
  <2>2. QED BY <1>7, <2>1
<1>9. CASE CompressRefused \/ DIOverflow \/ DITimeout \/ DINotFound \/ CompressClose \/ CompressKilled
           \/ DecompressRefused \/ DecompressRejected \/ DIOutOfRange \/ WriteOutput \/ DecompressKilled
  <2>1. pc' = "shell"
    BY <1>9 DEF CompressRefused, DIOverflow, DITimeout, DINotFound, CompressClose, CompressKilled, DecompressRefused,
       DecompressRejected, DIOutOfRange, WriteOutput, DecompressKilled, Return
  <2>2. QED BY <1>7, <2>1
<1>10. CASE CompressOpen \/ StartBlock \/ FoundDI \/ OtherCandidate \/ WriteBlock
  <2>1. pc' \in {"compress", "discoverDI", "write"}
    BY <1>10 DEF CompressOpen, StartBlock, FoundDI, OtherCandidate, WriteBlock
  <2>2. QED BY <1>7, <2>1
<1>11. QED BY <1>2, <1>3, <1>4, <1>5, <1>8, <1>9, <1>10 DEF Next

\* What is restored.
LEMMA RestoredNow ==
  ASSUME FileInv, WriteOutput
  PROVE  /\ packed' \in PackedFiles /\ IsWhole'
         /\ restored' \in RestoredFiles /\ Len(restored'.bits) = Len(source')
<1>1. /\ packed \in PackedFiles /\ IsWhole /\ Len(buffer) = block * VecBits
      /\ block <= BlockCount(source) /\ block >= packed.header.blockCount
      /\ buffer \in Seq(Bit) /\ IsFile(source)
  BY DEF FileInv, WriteOutput, DecompressRight, TypeOK, InputRight
<1>2. packed' = packed /\ source' = source
  BY DEF WriteOutput, input
<1>3. PICK n \in Nat, w \in Nat, k \in Nat, s \in Nat, q \in Nat :
        /\ n = BlockCount(source) /\ w = VecBits /\ k = kBlockBits /\ s = Len(source) /\ q = s \div ByteBits
        /\ s <= n * k /\ k <= w /\ q * ByteBits = s
  BY <1>1, Sizes, FileSizes
<1>4. packed.header.blockCount = n /\ packed.header.size = q
  BY <1>1, <1>3, PackedIs
<1>5. Len(buffer) = n * w
  <2>1. block = n
    BY <1>1, <1>3, <1>4 DEF FileInv, TypeOK
  <2>2. QED BY <1>1, <1>3, <2>1
<1>6. s <= n * w
  <2>1. PICK d \in Nat : w = k + d
    <3>1. w - k \in Nat /\ w = k + (w - k)
      BY <1>3
    <3>2. QED BY <3>1
  <2>2. n * w = n * k + n * d /\ n * k \in Nat /\ n * d \in Nat
    BY <2>1
  <2>3. s <= n * k /\ s \in Nat
    BY <1>3
  <2>4. \A a, b \in Nat : s <= a => s <= a + b
    BY <2>3
  <2>5. s <= n * k + n * d
    BY ONLY <2>2, <2>3, <2>4, Zenon
  <2>6. QED BY ONLY <2>2, <2>5, Zenon
<1>7. PICK l \in Nat : l = n * w /\ Len(buffer) = l /\ s <= l
  BY <1>5, <1>6
<1>8. Truncated = SubSeq(buffer, 1, s)
  <2>1. Min({l, s}) = s
    <3>1. Min({l, s}) = IF l <= s THEN l ELSE s
      BY MinOfTwo
    <3>2. QED BY <1>7, <3>1
  <2>2. packed.header.size * ByteBits = s
    BY <1>3, <1>4
  <2>3. QED BY <1>7, <2>1, <2>2 DEF Truncated
<1>9. Truncated \in Seq(Bit) /\ Len(Truncated) = s
  <2>1. SubSeq(buffer, 1, s) \in Seq(Bit) /\ Len(SubSeq(buffer, 1, s)) = s
    BY <1>1, <1>7
  <2>2. QED BY <1>8, <2>1
<1>10. PICK whole \in BOOLEAN : restored' = [bits |-> Truncated, whole |-> whole]
  BY DEF WriteOutput
<1>11. restored' \in RestoredFiles /\ Len(restored'.bits) = Len(source')
  BY <1>2, <1>3, <1>9, <1>10 DEF RestoredFiles
<1>12. QED BY <1>1, <1>2, <1>11 DEF IsWhole

\* Only a whole packed file is restored, and a command that ends well leaves one.
LEMMA RestoredNext == ASSUME FileInv, Next PROVE RestoredRight'
<1>1. RestoredRight /\ CompressRight /\ source' = source
  BY InputNext DEF FileInv, input
<1>2. CASE WriteOutput
  BY <1>2, RestoredNow DEF RestoredRight
<1>3. CASE RemoveRestored
  BY <1>3 DEF RemoveRestored, RestoredRight
<1>4. CASE WriteBlock \/ CompressKilled
  <2>1. restored' = NoFile
    BY <1>1, <1>4 DEF WriteBlock, CompressKilled, CompressRight
  <2>2. QED BY <2>1 DEF RestoredRight
<1>5. CASE CompressOpen
  <2>1. packed \notin PackedFiles /\ restored' = restored
    BY <1>5, NoFileAssumption DEF CompressOpen
  <2>2. restored' = NoFile
    BY <1>1, <2>1 DEF RestoredRight
  <2>3. QED BY <2>2 DEF RestoredRight
<1>6. CASE RemovePacked
  BY <1>6 DEF RemovePacked, RestoredRight
<1>7. CASE CompressRefused \/ StartBlock \/ FoundDI \/ OtherCandidate \/ DIOverflow \/ DITimeout \/ DINotFound
           \/ CompressClose \/ DecompressRefused \/ DecompressRejected \/ DecompressOpen \/ ReadBlock
           \/ FirstRowSolution \/ DICandidate \/ SkipCandidate \/ DIOutOfRange \/ DecompressKilled
  <2>1. UNCHANGED <<packed, restored>>
    BY <1>7 DEF CompressRefused, StartBlock, FoundDI, OtherCandidate, DIOverflow, DITimeout, DINotFound, CompressClose,
       DecompressRefused, DecompressRejected, DecompressOpen, ReadBlock, FirstRowSolution, DICandidate, SkipCandidate,
       DIOutOfRange, DecompressKilled, Emit, files
  <2>2. QED BY <1>1, <2>1 DEF RestoredRight, IsWhole
<1>8. QED BY <1>2, <1>3, <1>4, <1>5, <1>6, <1>7 DEF Next

LEMMA ShellNext == ASSUME FileInv, Next PROVE ShellRight'
<1>1. ShellRight /\ source' = source /\ InputRight /\ TypeOK
  BY InputNext DEF FileInv, input
<1>2. CASE WriteOutput
  BY <1>2, RestoredNow DEF ShellRight
<1>3. CASE CompressClose
  <2>1. CASE bad
    BY <1>3, <2>1 DEF CompressClose, Return, ShellRight
  <2>2. CASE ~bad
    <3>1. packed' = packed /\ pc = "compress" /\ block >= BlockCount(source)
      BY <1>3 DEF CompressClose, files
    <3>2. ~packed.torn /\ Len(packed.blocks) = block /\ block \in Nat /\ block <= BlockCount(source)
      BY <1>1, <2>2, <3>1 DEF FileInv, CompressRight, TypeOK
    <3>3. BlockCount(source) \in Nat
      BY <1>1, FileSizes DEF InputRight
    <3>4. Len(packed.blocks) = BlockCount(source)
      BY <3>1, <3>2, <3>3
    <3>5. QED BY <1>1, <3>1, <3>2, <3>4 DEF ShellRight, IsWhole
  <2>3. QED BY <1>1, <2>1, <2>2 DEF TypeOK
<1>4. CASE CompressRefused \/ DIOverflow \/ DITimeout \/ DINotFound \/ CompressKilled \/ RemovePacked
           \/ DecompressRefused \/ DecompressRejected \/ DIOutOfRange \/ RemoveRestored \/ DecompressKilled
  <2>1. exit' # "ok"
    BY <1>4 DEF CompressRefused, DIOverflow, DITimeout, DINotFound, CompressKilled, RemovePacked, DecompressRefused,
       DecompressRejected, DIOutOfRange, RemoveRestored, DecompressKilled, Return
  <2>2. QED BY <2>1 DEF ShellRight
<1>5. CASE CompressOpen \/ StartBlock \/ FoundDI \/ OtherCandidate \/ WriteBlock \/ DecompressOpen \/ ReadBlock
           \/ FirstRowSolution \/ DICandidate \/ SkipCandidate
  <2>1. pc' # "shell"
    BY <1>5 DEF CompressOpen, StartBlock, FoundDI, OtherCandidate, WriteBlock, DecompressOpen, ReadBlock,
       FirstRowSolution, DICandidate, SkipCandidate, Emit
  <2>2. QED BY <2>1 DEF ShellRight
<1>6. QED BY <1>2, <1>3, <1>4, <1>5 DEF Next

\* Types.
LEMMA TypeNext == ASSUME FileInv, Next PROVE TypeOK'
<1>1. TypeOK /\ source' = source /\ InputRight /\ UNCHANGED input
  BY InputNext DEF FileInv, input
<1>2. /\ packed \in {NoFile, Foreign} \/ packed \in PackedFiles
      /\ restored = NoFile \/ restored \in RestoredFiles
      /\ bad \in BOOLEAN /\ block \in Nat /\ (pc # "shell" => block <= BlockCount(source))
      /\ position \in Nat /\ buffer \in Seq(Bit) /\ exit \in {"none", "ok"} \cup Failures /\ attempts \in 0..MaxAttempts
      /\ pc \in {"shell", "compress", "discoverDI", "write", "decompress", "row_decomposed", "lex_enumeration"}
  BY <1>1 DEF TypeOK
<1>3. MaxAttempts \in Nat /\ BlockCount(source) \in Nat
  BY <1>1, BoundsAssumption, FileSizes DEF InputRight
<1>4. packed' \in {NoFile, Foreign} \/ packed' \in PackedFiles
  BY PackedNext DEF PackedRight
<1>5. CASE CompressRefused \/ DecompressRefused \/ DecompressRejected
  <2>1. attempts' \in 0..MaxAttempts
    BY <1>2, <1>3, <1>5 DEF CompressRefused, DecompressRefused, DecompressRejected, Started
  <2>2. UNCHANGED <<restored, bad, block, position, buffer>> /\ pc' = "shell" /\ exit' \in Failures
    BY <1>5 DEF CompressRefused, DecompressRefused, DecompressRejected, Return, files, work, Failures
  <2>3. QED BY <1>1, <1>2, <1>4, <2>1, <2>2 DEF TypeOK
<1>6. CASE CompressOpen \/ DecompressOpen
  <2>1. attempts' \in 0..MaxAttempts
    BY <1>2, <1>3, <1>6 DEF CompressOpen, DecompressOpen, Started
  <2>2. UNCHANGED <<restored, position>> /\ bad' = FALSE /\ block' = 0 /\ exit' = "none"
        /\ pc' \in {"compress", "decompress"} /\ (buffer' = buffer \/ buffer' = <<>>)
    BY <1>6 DEF CompressOpen, DecompressOpen, files
  <2>3. buffer' \in Seq(Bit)
    <3>1. <<>> \in Seq(Bit)
      OBVIOUS
    <3>2. QED BY <1>2, <2>2, <3>1
  <2>4. 0 \in Nat /\ (pc' # "shell" => 0 <= BlockCount(source))
    BY <1>3
  <2>5. block' \in Nat /\ (pc' # "shell" => block' <= BlockCount(source'))
    BY <1>1, <2>2, <2>4
  <2>6. /\ restored' = NoFile \/ restored' \in RestoredFiles
        /\ pc' \in {"shell", "compress", "discoverDI", "write", "decompress", "row_decomposed", "lex_enumeration"}
        /\ bad' \in BOOLEAN /\ position' \in Nat /\ exit' \in {"none", "ok"} \cup Failures
    BY <1>2, <2>2
  <2>7. QED BY <1>4, <2>1, <2>3, <2>5, <2>6 DEF TypeOK
<1>7. CASE StartBlock \/ FoundDI \/ OtherCandidate \/ ReadBlock \/ SkipCandidate
  <2>1. UNCHANGED <<restored, bad, block, buffer, exit, attempts>> /\ pc # "shell"
        /\ pc' \in {"discoverDI", "write", "row_decomposed", "lex_enumeration"}
        /\ position' \in {0, position, position + 1}
    BY <1>7 DEF StartBlock, FoundDI, OtherCandidate, ReadBlock, SkipCandidate, files, work
  <2>2. position' \in Nat
    BY <1>2, <2>1
  <2>3. QED BY <1>1, <1>2, <1>4, <2>1, <2>2 DEF TypeOK
<1>8. CASE DIOverflow \/ DITimeout \/ DINotFound \/ CompressClose \/ CompressKilled \/ DIOutOfRange \/ DecompressKilled
  <2>1. UNCHANGED <<restored, bad, block, position, buffer, attempts>> /\ pc' = "shell" /\ exit' \in {"ok"} \cup Failures
    BY <1>8 DEF DIOverflow, DITimeout, DINotFound, CompressClose, CompressKilled, DIOutOfRange, DecompressKilled, Return,
       files, work, Failures
  <2>2. QED BY <1>1, <1>2, <1>4, <2>1 DEF TypeOK
<1>9. CASE RemovePacked \/ RemoveRestored
  <2>1. UNCHANGED <<pc, bad, block, position, buffer, attempts>> /\ exit' = "none" /\ restored' \in {restored, NoFile}
    BY <1>9 DEF RemovePacked, RemoveRestored, work
  <2>2. QED BY <1>1, <1>2, <1>4, <2>1 DEF TypeOK
<1>10. CASE WriteBlock
  <2>1. UNCHANGED <<restored, position, buffer, exit, attempts>> /\ pc = "write" /\ pc' = "compress" /\ block' = block + 1
        /\ bad' \in BOOLEAN
    BY <1>2, <1>10 DEF WriteBlock
  <2>2. block < BlockCount(source)
    BY <2>1 DEF FileInv, CompressRight
  <2>3. block' \in Nat /\ block' <= BlockCount(source)
    BY <1>2, <1>3, <2>1, <2>2
  <2>4. QED BY <1>1, <1>2, <1>4, <2>1, <2>3 DEF TypeOK
<1>11. CASE FirstRowSolution \/ DICandidate
  <2>1. PICK m : Emit(m)
    BY <1>11 DEF FirstRowSolution, DICandidate
  <2>2. UNCHANGED <<restored, bad, position, exit, attempts>> /\ pc' = "decompress"
    BY <2>1 DEF Emit, files
  <2>3. buffer' \in Seq(Bit) /\ block' \in Nat /\ block' <= BlockCount(source)
    BY <1>11, EmitTyped
  <2>4. QED BY <1>1, <1>2, <1>4, <2>2, <2>3 DEF TypeOK
<1>12. CASE WriteOutput
  <2>1. UNCHANGED <<bad, block, position, buffer, attempts>> /\ pc' = "shell" /\ exit' \in {"ok"} \cup Failures
    BY <1>12 DEF WriteOutput, work, Return, Failures
  <2>2. restored' \in RestoredFiles
    BY <1>12, RestoredNow
  <2>3. QED BY <1>1, <1>2, <1>4, <2>1, <2>2 DEF TypeOK
<1>13. QED BY <1>5, <1>7, <1>8, <1>9, <1>10, <1>11, <1>12, <1>6 DEF Next

\* Every step of the two commands keeps their invariant.
LEMMA FileNext == ASSUME FileInv, Next PROVE FileInv'
BY TypeNext, InputNext, PackedNext, CompressNext, DecompressNext, RestoredNext, ShellNext DEF FileInv

-------------------------------------------------------------------------------
\* The steps of the runners that leave the files alone or start anew.
LEMMA FileStutter == ASSUME FileInv, UNCHANGED vars PROVE FileInv'
<1>1. /\ UNCHANGED input /\ source' = source /\ ltp' = ltp /\ disableDI' = disableDI
      /\ packed' = packed /\ restored' = restored /\ pc' = pc /\ bad' = bad /\ block' = block /\ payload' = payload
      /\ position' = position /\ buffer' = buffer /\ exit' = exit /\ attempts' = attempts
  BY DEF vars, input, files, work
<1>2. TypeOK' /\ InputRight' /\ RestoredRight' /\ ShellRight'
  BY <1>1 DEF FileInv, TypeOK, InputRight, RestoredRight, ShellRight, IsWhole
<1>3. PackedRight'
  BY <1>1, PackedStays DEF FileInv
<1>4. CompressRight'
  <2>1. CompressRight
    BY DEF FileInv
  <2>2. ASSUME pc \in {"discoverDI", "write"}
        PROVE  \E b, p : b = block' + 1 /\ p = payload' /\ Describes(b, p)'
    <3>1. PICK b, p : b = block + 1 /\ p = payload /\ Describes(b, p)
      BY <2>1, <2>2 DEF CompressRight
    <3>2. Describes(b, p)'
      BY <1>1, <3>1, Steady
    <3>3. QED BY <1>1, <3>1, <3>2
  <2>3. ASSUME pc = "write", ~disableDI
        PROVE  \E b, di : b = block' + 1 /\ di = position' /\ InEnumeration(b, di)'
    <3>1. PICK b, di : b = block + 1 /\ di = position /\ InEnumeration(b, di)
      BY <2>1, <2>3 DEF CompressRight
    <3>2. InEnumeration(b, di)'
      BY <1>1, <3>1, Steady
    <3>3. QED BY <1>1, <3>1, <3>2
  <2>4. QED BY <1>1, <2>1, <2>2, <2>3 DEF CompressRight
<1>5. DecompressRight'
  <2>1. DecompressRight
    BY DEF FileInv
  <2>2. ASSUME pc \in {"decompress", "row_decomposed", "lex_enumeration"}
        PROVE  /\ packed' \in PackedFiles /\ IsWhole'
               /\ Len(buffer') = block' * VecBits
               /\ \A c \in 1..block' : \E bits, di : bits = Part(buffer', c) /\ di = packed'.blocks[c].di /\ Restores(c, bits, di)'
    BY <1>1, <2>2, BufferStays
  <2>3. ASSUME pc \in {"row_decomposed", "lex_enumeration"}
        PROVE  \E b, p : b = block' + 1 /\ p = payload' /\ Describes(b, p)'
    <3>1. PICK b, p : b = block + 1 /\ p = payload /\ Describes(b, p)
      BY <2>1, <2>3 DEF DecompressRight
    <3>2. Describes(b, p)'
      BY <1>1, <3>1, Steady
    <3>3. QED BY <1>1, <3>1, <3>2
  <2>4. ASSUME pc \in {"row_decomposed", "lex_enumeration"}
        PROVE  block' < BlockCount(source') /\ (pc' = "lex_enumeration" <=> packed'.blocks[block' + 1].di # 0)
    BY <1>1, <2>1, <2>4 DEF DecompressRight
  <2>5. QED BY <1>1, <2>2, <2>3, <2>4 DEF DecompressRight
<1>6. QED BY <1>2, <1>3, <1>4, <1>5 DEF FileInv

LEMMA FreshFiles ==
  ASSUME FileInv, pc = "shell", UNCHANGED <<ltp, disableDI, pc, work, exit>>, packed' = NoFile, restored' = NoFile,
         IsFile(source'), attempts' \in 0..MaxAttempts
  PROVE  FileInv'
<1>1. /\ ltp' = ltp /\ disableDI' = disableDI /\ pc' = "shell" /\ bad' = bad /\ block' = block /\ position' = position
      /\ buffer' = buffer /\ exit' = exit
  BY DEF work
<1>2. TypeOK'
  BY <1>1 DEF FileInv, TypeOK
<1>3. InputRight'
  BY <1>1 DEF FileInv, InputRight
<1>4. PackedRight' /\ CompressRight' /\ DecompressRight' /\ RestoredRight'
  BY <1>1 DEF PackedRight, CompressRight, DecompressRight, RestoredRight
<1>5. ShellRight'
  BY NoFileAssumption DEF ShellRight
<1>6. QED BY <1>2, <1>3, <1>4, <1>5 DEF FileInv

LEMMA FileInit == RunnerInit => FileInv
<1>1. SUFFICES ASSUME RunnerInit PROVE FileInv
  OBVIOUS
<1>2. /\ source \in Sources /\ disableDI \in BOOLEAN /\ packed \in {NoFile, Foreign} /\ restored = NoFile
      /\ pc = "shell" /\ bad = FALSE /\ block = 0 /\ position = 0 /\ buffer = <<>> /\ exit = "none" /\ attempts = 0
  BY <1>1 DEF RunnerInit, Init
<1>3. PICK env \in Environments : ltp = getLtpData(env)
  BY <1>1 DEF RunnerInit, Init
<1>4. IsFile(source) /\ TablesSound(ltp)
  BY <1>2, <1>3, SourcesAssumption, EnvironmentsAssumption, LtpSound
<1>5. <<>> \in Seq(Bit) /\ 0 \in 0..MaxAttempts
  BY BoundsAssumption
<1>6. TypeOK
  BY <1>2, <1>5 DEF TypeOK
<1>7. InputRight
  BY <1>2, <1>4 DEF InputRight
<1>8. PackedRight /\ CompressRight /\ DecompressRight /\ RestoredRight /\ ShellRight
  BY <1>2 DEF PackedRight, CompressRight, DecompressRight, RestoredRight, ShellRight
<1>9. QED BY <1>6, <1>7, <1>8 DEF FileInv

-------------------------------------------------------------------------------
\* Where a runner is, and what it may rely on there.
PackingPcs   == {"compress", "discoverDI", "write"}
UnpackingPcs  == {"decompress", "row_decomposed", "lex_enumeration"}
Waiting    == {"generate", "compress", "validate", "decompress", "evaluate", "main"}
Stages     == Waiting \cup {"compressing", "decompressing", "exited"}
ChildCodes == {"ok", "error", "killed"}

Finished == packed \in PackedFiles /\ IsWhole
Returned == restored.whole /\ restored.bits = source

RunnerRight ==
  /\ program \in {"shell"} \cup Runners /\ round \in Nat
  /\ program = "shell" => stage = "none" /\ code = NoCode
  /\ program # "shell" => stage \in Stages
  /\ stage \in Waiting => pc = "shell"
  /\ stage \notin {"main", "exited"} \/ program = "uselessTest" => thrown = "none"
  /\ stage = "compress" => packed = NoFile
  /\ stage \in {"compress", "compressing", "validate", "decompress"} => restored = NoFile
  /\ stage = "compressing" =>
       /\ (pc \in PackingPcs /\ exit = "none") \/ (pc = "shell" /\ exit \in ChildCodes)
       /\ pc = "shell" /\ exit = "ok" => packed \in PackedFiles
  /\ stage \in {"validate", "decompress"} => Finished
  /\ stage = "decompressing" =>
       /\ (pc \in UnpackingPcs /\ exit = "none") \/ (pc = "shell" /\ exit \in ChildCodes)
       /\ pc = "shell" /\ exit = "ok" => restored.whole
  /\ stage = "evaluate" => restored.whole
  /\ stage = "main" =>
       /\ thrown \in {"none", "CompressNonZeroExit", "DecompressNonZeroExit", "other"}
       /\ thrown = "none" => Returned
       /\ thrown \in {"CompressNonZeroExit", "DecompressNonZeroExit"} => exit \in {"error", "killed"}
  /\ code = 0 /\ program # "testCollisions" => stage = "exited" /\ pc = "shell" /\ Returned

\* The invariant of the runners and their children.
RunnersInv == FileInv /\ RunnerRight

\* A child goes on, or it ends and says how.
LEMMA PackingChild ==
  ASSUME FileInv, ChildStep, pc \in PackingPcs
  PROVE  /\ restored' = restored
         /\ (pc' \in PackingPcs /\ exit' = exit) \/ (pc' = "shell" /\ exit' \in ChildCodes)
         /\ pc' = "shell" /\ exit' = "ok" => packed' \in PackedFiles
<1>1. CASE StartBlock \/ FoundDI \/ OtherCandidate \/ WriteBlock
  <2>1. CASE StartBlock
    BY <2>1 DEF StartBlock, files, PackingPcs
  <2>2. CASE FoundDI \/ OtherCandidate
    BY <2>2 DEF FoundDI, OtherCandidate, files, PackingPcs
  <2>3. CASE WriteBlock
    BY <2>3 DEF WriteBlock, PackingPcs
  <2>4. QED BY <1>1, <2>1, <2>2, <2>3
<1>2. CASE DIOverflow \/ DITimeout \/ DINotFound \/ CompressKilled
  <2>1. restored' = restored /\ pc' = "shell" /\ exit' \in {"error", "killed"}
    BY <1>2 DEF DIOverflow, DITimeout, DINotFound, CompressKilled, Return, files
  <2>2. QED BY <2>1 DEF ChildCodes
<1>3. CASE CompressClose
  <2>1. restored' = restored /\ packed' = packed /\ pc' = "shell" /\ exit' \in ChildCodes
    BY <1>3 DEF CompressClose, Return, files, ChildCodes
  <2>2. packed \in PackedFiles
    BY DEF FileInv, CompressRight, PackingPcs
  <2>3. QED BY <2>1, <2>2
<1>4. CASE ReadBlock \/ FirstRowSolution \/ DICandidate \/ SkipCandidate \/ DIOutOfRange \/ WriteOutput \/ DecompressKilled
  <2>1. pc \in UnpackingPcs
    BY <1>4 DEF ReadBlock, FirstRowSolution, DICandidate, SkipCandidate, DIOutOfRange, WriteOutput, DecompressKilled,
       UnpackingPcs
  <2>2. QED BY <2>1 DEF PackingPcs, UnpackingPcs
<1>5. QED BY <1>1, <1>2, <1>3, <1>4 DEF ChildStep

LEMMA UnpackingChild ==
  ASSUME FileInv, ChildStep, pc \in UnpackingPcs
  PROVE  /\ (pc' \in UnpackingPcs /\ exit' = exit) \/ (pc' = "shell" /\ exit' \in ChildCodes)
         /\ pc' = "shell" /\ exit' = "ok" => restored'.whole
<1>1. CASE ReadBlock \/ FirstRowSolution \/ DICandidate \/ SkipCandidate
  <2>1. CASE ReadBlock
    BY <2>1 DEF ReadBlock, UnpackingPcs
  <2>2. CASE SkipCandidate
    BY <2>2 DEF SkipCandidate, UnpackingPcs
  <2>3. CASE FirstRowSolution \/ DICandidate
    BY <2>3 DEF FirstRowSolution, DICandidate, Emit, UnpackingPcs
  <2>4. QED BY <1>1, <2>1, <2>2, <2>3
<1>2. CASE DIOutOfRange \/ DecompressKilled
  <2>1. pc' = "shell" /\ exit' \in {"error", "killed"}
    BY <1>2 DEF DIOutOfRange, DecompressKilled, Return
  <2>2. QED BY <2>1 DEF ChildCodes
<1>3. CASE WriteOutput
  <2>1. PICK whole \in BOOLEAN : restored' = [bits |-> Truncated, whole |-> whole] /\ Return(IF whole THEN "ok" ELSE "error")
    BY <1>3 DEF WriteOutput
  <2>2. restored'.whole = whole
    BY <2>1
  <2>3. QED BY <2>1, <2>2 DEF Return, ChildCodes
<1>4. CASE StartBlock \/ FoundDI \/ OtherCandidate \/ WriteBlock \/ DIOverflow \/ DITimeout \/ DINotFound
           \/ CompressKilled \/ CompressClose
  <2>1. pc \in PackingPcs
    BY <1>4 DEF StartBlock, FoundDI, OtherCandidate, WriteBlock, DIOverflow, DITimeout, DINotFound, CompressKilled,
       CompressClose, PackingPcs
  <2>2. QED BY <2>1 DEF PackingPcs, UnpackingPcs
<1>5. QED BY <1>1, <1>2, <1>3, <1>4 DEF ChildStep

LEMMA ChildRuns == ASSUME ChildStep PROVE pc # "shell" /\ Next
<1>1. pc # "shell"
  BY DEF ChildStep, StartBlock, FoundDI, OtherCandidate, DIOverflow, DITimeout, DINotFound, WriteBlock, CompressClose,
     CompressKilled, ReadBlock, FirstRowSolution, DICandidate, SkipCandidate, DIOutOfRange, WriteOutput, DecompressKilled
<1>2. Next
  BY DEF ChildStep, Next
<1>3. QED BY <1>1, <1>2

LEMMA ChildKeeps == ASSUME RunnersInv, ChildStep PROVE RunnerRight'
<1>1. FileInv /\ RunnerRight /\ pc # "shell" /\ program # "shell"
  BY ChildRuns DEF RunnersInv, ChildStep
<1>2. /\ program' = program /\ stage' = stage /\ round' = round /\ thrown' = thrown /\ code' = code
  BY DEF ChildStep, runner
<1>3. code # 0 \/ program = "testCollisions"
  BY <1>1 DEF RunnerRight
<1>4. CASE stage = "compressing"
  <2>1. pc \in PackingPcs /\ exit = "none" /\ restored = NoFile
    BY <1>1, <1>4 DEF RunnerRight
  <2>2. QED BY <1>1, <1>2, <1>3, <1>4, <2>1, PackingChild DEF RunnerRight, Waiting
<1>5. CASE stage = "decompressing"
  <2>1. pc \in UnpackingPcs /\ exit = "none"
    BY <1>1, <1>5 DEF RunnerRight
  <2>2. QED BY <1>1, <1>2, <1>3, <1>5, <2>1, UnpackingChild DEF RunnerRight, Waiting
<1>6. CASE stage = "exited"
  BY <1>1, <1>2, <1>3, <1>6 DEF RunnerRight, Waiting
<1>7. stage \in {"compressing", "decompressing", "exited"}
  BY <1>1 DEF RunnerRight, Stages
<1>8. QED BY <1>4, <1>5, <1>6, <1>7

-------------------------------------------------------------------------------
\* The files the runners make.
LEMMA RepeatFile ==
  ASSUME NEW n \in Nat, NEW a \in Bit, NEW b \in Bit PROVE IsFile(Repeat(a, b, n))
<1>1. PICK m \in Nat : m = n * ByteBits /\ m % 8 = 0
  <2>1. n * 8 \in Nat /\ (n * 8) % 8 = 0
    OBVIOUS
  <2>2. QED BY <2>1 DEF ByteBits
<1>2. Repeat(a, b, n) = [i \in 1..m |-> IF i % 2 = 1 THEN a ELSE b]
  BY <1>1 DEF Repeat
<1>3. Repeat(a, b, n) \in [1..m -> Bit]
  BY <1>2
<1>4. Repeat(a, b, n) \in Seq(Bit) /\ Len(Repeat(a, b, n)) = m
  BY <1>2, <1>3
<1>5. QED BY <1>1, <1>4 DEF IsFile, ByteBits

LEMMA SizeTyped ==
  ASSUME NEW p \in PatternRunners, round \in Nat, round < Len(BlockSizes[p])
  PROVE  SizeInBytes(p) \in Nat
<1>1. PICK s \in Seq(Nat), i \in Nat : s = BlockSizes[p] /\ i = round + 1 /\ i \in 1..Len(s)
  <2>1. BlockSizes[p] \in Seq(Nat) /\ round + 1 \in Nat
    BY RunnersAssumption
  <2>2. Len(BlockSizes[p]) \in Nat
    BY <2>1
  <2>3. round + 1 \in 1..Len(BlockSizes[p])
    BY <2>1, <2>2
  <2>4. QED BY <2>1, <2>3
<1>2. PICK n \in Nat : n = BlockSizes[p][round + 1]
  BY <1>1
<1>3. min_bytes_for_n_blocks(n) \in Nat
  <2>1. CASE n = 0
    BY <2>1 DEF min_bytes_for_n_blocks
  <2>2. CASE n # 0
    <3>1. PICK r \in Nat : r = RunnerS
      BY RunnersAssumption
    <3>2. PICK e \in Nat : e = (n - 1) * r * r + 1
      <4>1. n - 1 \in Nat
        BY <2>2
      <4>2. (n - 1) * r \in Nat
        BY <4>1
      <4>3. (n - 1) * r * r \in Nat
        BY <4>2
      <4>4. QED BY <4>3
    <3>3. e + 8 - 1 \in Nat
      OBVIOUS
    <3>4. PICK q \in Nat : q = (e + 8 - 1) \div 8
      BY <3>3, Quotient
    <3>5. min_bytes_for_n_blocks(n) = q
      BY <2>2, <3>1, <3>2, <3>4 DEF min_bytes_for_n_blocks, Ceil, ByteBits
    <3>6. QED BY <3>5
  <2>3. QED BY <2>1, <2>2
<1>4. QED BY <1>2, <1>3 DEF SizeInBytes

\* A fresh input keeps it, whatever the file.
LEMMA MakeKeeps ==
  ASSUME RunnersInv, NEW bits, IsFile(bits), Make(bits),
         (stage' = "compress" /\ thrown' = thrown) \/ (stage' = "main" /\ thrown' = "other" /\ program # "uselessTest")
  PROVE  RunnersInv'
<1>1. /\ stage = "generate" /\ source' = bits /\ packed' = NoFile /\ restored' = NoFile /\ attempts' = 0
      /\ round' = round + 1 /\ program' = program /\ code' = code /\ pc' = pc
      /\ UNCHANGED <<ltp, disableDI, pc, work, exit>>
  BY DEF Make
<1>2. FileInv /\ RunnerRight /\ pc = "shell" /\ program # "shell" /\ thrown = "none" /\ round \in Nat
  BY <1>1 DEF RunnersInv, RunnerRight, Waiting
<1>3. 0 \in 0..MaxAttempts
  BY BoundsAssumption
<1>4. FileInv'
  BY <1>1, <1>2, <1>3, FreshFiles
<1>5. code # 0 \/ program = "testCollisions"
  BY <1>1, <1>2 DEF RunnerRight
<1>6. /\ program' \in {"shell"} \cup Runners /\ program' # "shell" /\ round' \in Nat /\ pc' = "shell"
      /\ code' # 0 \/ program' = "testCollisions"
  BY <1>1, <1>2, <1>5 DEF RunnerRight
<1>7. CASE stage' = "compress" /\ thrown' = thrown
  <2>1. stage' = "compress" /\ thrown' = "none" /\ packed' = NoFile /\ restored' = NoFile /\ "compress" \in Stages
    BY <1>1, <1>2, <1>7 DEF Stages, Waiting
  <2>2. RunnerRight'
    BY <1>6, <2>1 DEF RunnerRight
  <2>3. QED BY <1>4, <2>2 DEF RunnersInv
<1>8. CASE stage' = "main" /\ thrown' = "other" /\ program # "uselessTest"
  <2>1. "main" \in Stages /\ program' # "uselessTest"
    BY <1>1, <1>8 DEF Stages, Waiting
  <2>2. RunnerRight'
    BY <1>6, <1>8, <2>1 DEF RunnerRight
  <2>3. QED BY <1>4, <2>2 DEF RunnersInv
<1>9. QED BY <1>7, <1>8

LEMMA GenerateKeeps ==
  ASSUME RunnersInv,
         GenerateOnes \/ GenerateZeroes \/ GenerateAlternating10 \/ GenerateAlternating01
           \/ GenerateRandom \/ GenerateCollision \/ UseUselessFile
  PROVE  RunnersInv'
<1>1. round \in Nat /\ 0 \in Bit /\ 1 \in Bit
  BY DEF RunnersInv, RunnerRight, Bit
<1>2. CASE GenerateOnes
  <2>1. SizeInBytes("Ones") \in Nat
    BY <1>1, <1>2, SizeTyped DEF GenerateOnes, NextSize, PatternRunners
  <2>2. IsFile(write_one_file(SizeInBytes("Ones")))
    BY <1>1, <2>1, RepeatFile DEF write_one_file
  <2>3. QED BY <1>2, <2>2, MakeKeeps DEF GenerateOnes, make_input
<1>3. CASE GenerateZeroes
  <2>1. SizeInBytes("Zeroes") \in Nat
    BY <1>1, <1>3, SizeTyped DEF GenerateZeroes, NextSize, PatternRunners
  <2>2. IsFile(write_zero_file(SizeInBytes("Zeroes")))
    BY <1>1, <2>1, RepeatFile DEF write_zero_file
  <2>3. QED BY <1>3, <2>2, MakeKeeps DEF GenerateZeroes, make_input
<1>4. CASE GenerateAlternating10
  <2>1. SizeInBytes("Alternating10") \in Nat
    BY <1>1, <1>4, SizeTyped DEF GenerateAlternating10, NextSize, PatternRunners
  <2>2. IsFile(write_alternating10_file(SizeInBytes("Alternating10")))
    BY <1>1, <2>1, RepeatFile DEF write_alternating10_file
  <2>3. QED BY <1>4, <2>2, MakeKeeps DEF GenerateAlternating10, make_input
<1>5. CASE GenerateAlternating01
  <2>1. SizeInBytes("Alternating01") \in Nat
    BY <1>1, <1>5, SizeTyped DEF GenerateAlternating01, NextSize, PatternRunners
  <2>2. PICK bits : bits = write_alternating01_file(SizeInBytes("Alternating01")) /\ IsFile(bits)
    BY <1>1, <2>1, RepeatFile DEF write_alternating01_file
  <2>3. PICK fine \in BOOLEAN : fine = preflight_check_alternating01(bits)
    BY DEF preflight_check_alternating01
  <2>4. Make(bits) /\ stage' = (IF fine THEN "compress" ELSE "main") /\ thrown' = (IF fine THEN thrown ELSE "other")
    BY <1>5, <2>2, <2>3 DEF GenerateAlternating01
  <2>5. program # "uselessTest"
    BY <1>5 DEF GenerateAlternating01, NextSize
  <2>6. QED BY <2>2, <2>4, <2>5, MakeKeeps
<1>6. CASE GenerateRandom
  <2>1. PICK bits \in RandomFiles : make_input(bits)
    BY <1>6 DEF GenerateRandom
  <2>2. QED BY <2>1, RunnersAssumption, MakeKeeps DEF make_input
<1>7. CASE GenerateCollision
  <2>1. PICK bits \in RandomFiles : make_input(bits)
    BY <1>7 DEF GenerateCollision
  <2>2. QED BY <2>1, RunnersAssumption, MakeKeeps DEF make_input
<1>8. CASE UseUselessFile
  BY <1>8, RunnersAssumption, MakeKeeps DEF UseUselessFile, make_input
<1>9. QED BY <1>2, <1>3, <1>4, <1>5, <1>6, <1>7, <1>8

-------------------------------------------------------------------------------
\* What the runners start, and what they make of how it ends.
LEMMA StartKeeps == ASSUME RunnersInv, StartCompress \/ StartDecompress PROVE RunnersInv'
<1>1. FileInv /\ RunnerRight
  BY DEF RunnersInv
<1>2. program' = program /\ round' = round /\ thrown' = thrown /\ code' = code
  BY DEF StartCompress, StartDecompress
<1>3. stage \in {"compress", "decompress"} /\ pc = "shell" /\ program # "shell" /\ restored = NoFile /\ thrown = "none"
      /\ (code # 0 \/ program = "testCollisions")
  BY <1>1 DEF RunnersInv, RunnerRight, Waiting, StartCompress, StartDecompress
<1>4. FileInv'
  BY <1>1, FileNext DEF StartCompress, StartDecompress, Next
<1>5. CASE StartCompress
  <2>1. CompressOpen
    BY <1>1, <1>5 DEF StartCompress, CompressRefused, RunnerRight
  <2>2. pc' \in PackingPcs /\ exit' = "none" /\ restored' = NoFile
    BY <1>3, <2>1 DEF CompressOpen, PackingPcs
  <2>3. stage' = "compressing" /\ "compressing" \in Stages /\ "compressing" \notin Waiting /\ pc' # "shell"
    BY <1>5, <2>2 DEF StartCompress, Stages, Waiting, PackingPcs
  <2>4. RunnerRight'
    BY <1>1, <1>2, <1>3, <2>2, <2>3 DEF RunnerRight
  <2>5. QED BY <1>4, <2>4 DEF RunnersInv
<1>6. CASE StartDecompress
  <2>1. packed \in PackedFiles /\ IsWhole
    BY <1>1, <1>6 DEF StartDecompress, RunnerRight, Finished
  <2>2. FileSizeRight(packed) /\ packed # NoFile
    BY <1>1, <2>1, PackedIs, NoFileAssumption
  <2>3. DecompressOpen
    BY <1>3, <1>6, <2>2 DEF StartDecompress, DecompressRefused, DecompressRejected
  <2>4. pc' \in UnpackingPcs /\ exit' = "none" /\ pc' # "shell"
    BY <2>3 DEF DecompressOpen, UnpackingPcs
  <2>5. stage' = "decompressing" /\ "decompressing" \in Stages /\ "decompressing" \notin Waiting
    BY <1>6 DEF StartDecompress, Stages, Waiting
  <2>6. RunnerRight'
    BY <1>1, <1>2, <1>3, <2>4, <2>5 DEF RunnerRight
  <2>7. QED BY <1>4, <2>6 DEF RunnersInv
<1>7. QED BY <1>5, <1>6

\* A step of a runner alone keeps the invariant if what the new stage relies on
\* holds.
StageRight(to, what, c) ==
  /\ to \in Stages
  /\ to \in Waiting => pc = "shell"
  /\ to \notin {"compress", "compressing", "decompressing"}
  /\ to \in {"validate", "decompress"} => restored = NoFile /\ Finished
  /\ to \notin {"main", "exited"} \/ program = "uselessTest" => what = "none"
  /\ to = "evaluate" => restored.whole
  /\ to = "main" =>
       /\ what \in {"none", "CompressNonZeroExit", "DecompressNonZeroExit", "other"}
       /\ what = "none" => Returned
       /\ what \in {"CompressNonZeroExit", "DecompressNonZeroExit"} => exit \in {"error", "killed"}
  /\ c = 0 /\ program # "testCollisions" => to = "exited" /\ pc = "shell" /\ Returned

LEMMA StageKeeps ==
  ASSUME RunnersInv, program # "shell", UNCHANGED <<vars, program, round>>, StageRight(stage', thrown', code')
  PROVE  RunnersInv'
<1>1. FileInv'
  BY FileStutter DEF RunnersInv
<1>2. /\ source' = source /\ packed' = packed /\ restored' = restored /\ pc' = pc /\ exit' = exit
      /\ program' = program /\ round' = round
  BY DEF vars, input, files, work
<1>3. RunnerRight
  BY DEF RunnersInv
<1>4. (Finished' <=> Finished) /\ (Returned' <=> Returned)
  BY <1>2 DEF Finished, Returned, IsWhole
<1>5. RunnerRight'
  BY <1>2, <1>3, <1>4 DEF RunnerRight, StageRight
<1>6. QED BY <1>1, <1>5 DEF RunnersInv

\* What a case makes of how its child ended.
LEMMA ReturnsKeep == ASSUME RunnersInv, CompressReturns \/ DecompressReturns \/ Evaluate PROVE RunnersInv'
<1>1. RunnerRight
  BY DEF RunnersInv
<1>2. /\ program # "shell" /\ program \notin {"uselessTest", "testCollisions"} /\ UNCHANGED <<vars, program, round, code>>
  BY DEF CompressReturns, DecompressReturns, Evaluate, Throws, Goes, CaseRunners, PatternRunners
<1>3. stage \notin {"main", "exited"} /\ pc = "shell" /\ thrown = "none" /\ code' # 0
  BY <1>1, <1>2 DEF CompressReturns, DecompressReturns, Evaluate, RunnerRight, Ended, Waiting
<1>4. CASE CompressReturns
  <2>1. stage = "compressing" /\ restored = NoFile
    BY <1>1, <1>4 DEF CompressReturns, RunnerRight, Ended
  <2>2. CASE Throws("other")
    BY <1>2, <1>3, <2>2, StageKeeps DEF StageRight, Throws, Stages, Waiting
  <2>3. CASE exit # "ok" /\ Throws("CompressNonZeroExit")
    <3>1. exit \in {"error", "killed"}
      BY <1>1, <1>3, <2>1, <2>3 DEF RunnerRight, ChildCodes, PackingPcs
    <3>2. QED BY <1>2, <1>3, <2>3, <3>1, StageKeeps DEF StageRight, Throws, Stages, Waiting
  <2>4. CASE exit = "ok" /\ Goes("decompress")
    <3>1. Finished
      BY <1>1, <1>3, <2>1, <2>4 DEF RunnersInv, FileInv, ShellRight, RunnerRight, PackingPcs, Finished
    <3>2. QED BY <1>2, <1>3, <2>1, <2>4, <3>1, StageKeeps DEF StageRight, Goes, Stages, Waiting
  <2>5. QED BY <1>4, <2>2, <2>3, <2>4 DEF CompressReturns
<1>5. CASE DecompressReturns
  <2>1. stage = "decompressing"
    BY <1>5 DEF DecompressReturns, Ended
  <2>2. CASE Throws("other")
    BY <1>2, <1>3, <2>2, StageKeeps DEF StageRight, Throws, Stages, Waiting
  <2>3. CASE exit # "ok" /\ Throws("DecompressNonZeroExit")
    <3>1. exit \in {"error", "killed"}
      BY <1>1, <1>3, <2>1, <2>3 DEF RunnerRight, ChildCodes, UnpackingPcs
    <3>2. QED BY <1>2, <1>3, <2>3, <3>1, StageKeeps DEF StageRight, Throws, Stages, Waiting
  <2>4. CASE exit = "ok" /\ Goes("evaluate")
    <3>1. restored.whole
      BY <1>1, <1>3, <2>1, <2>4 DEF RunnerRight, UnpackingPcs
    <3>2. QED BY <1>2, <1>3, <2>4, <3>1, StageKeeps DEF StageRight, Goes, Stages, Waiting
  <2>5. QED BY <1>5, <2>2, <2>3, <2>4 DEF DecompressReturns
<1>6. CASE Evaluate
  <2>1. restored.whole
    BY <1>1, <1>6 DEF Evaluate, RunnerRight
  <2>2. CASE restored.bits # source /\ Throws("other")
    BY <1>2, <1>3, <2>2, StageKeeps DEF StageRight, Throws, Stages, Waiting
  <2>3. CASE restored.bits = source /\ Goes("generate")
    BY <1>2, <1>3, <2>3, StageKeeps DEF StageRight, Goes, Stages, Waiting
  <2>4. CASE restored.bits = source /\ Goes("main")
    BY <1>2, <1>3, <2>1, <2>4, StageKeeps DEF StageRight, Goes, Stages, Waiting, Returned
  <2>5. QED BY <1>6, <2>2, <2>3, <2>4 DEF Evaluate
<1>7. QED BY <1>4, <1>5, <1>6

\* How a runner ends: with 0 only after the last comparison.
LEMMA EndsKeep ==
  ASSUME RunnersInv, MainOnes \/ MainZeroes \/ MainAlternating10 \/ MainAlternating01 \/ MainRandom \/ WatchdogFires
  PROVE  RunnersInv'
<1>1. RunnerRight
  BY DEF RunnersInv
<1>2. CASE MainOnes \/ MainZeroes \/ MainAlternating10 \/ MainAlternating01 \/ MainRandom
  <2>1. PICK c : /\ stage = "main" /\ Exits(c) /\ program # "shell" /\ program # "uselessTest"
                 /\ c = (CASE thrown = "none" -> 0
                           [] thrown \in {"CompressNonZeroExit", "DecompressNonZeroExit"} -> extract_exit_code
                           [] OTHER -> 1)
    BY <1>2 DEF MainOnes, MainZeroes, MainAlternating10, MainAlternating01, MainRandom, Main
  <2>2. UNCHANGED <<vars, program, round, thrown>> /\ stage' = "exited" /\ code' = c /\ pc = "shell"
    BY <1>1, <2>1 DEF Exits, RunnerRight, Waiting
  <2>3. c = 0 => Returned
    <3>1. CASE thrown = "none"
      BY <1>1, <2>1, <3>1 DEF RunnerRight
    <3>2. CASE thrown \in {"CompressNonZeroExit", "DecompressNonZeroExit"}
      <4>1. exit \in {"error", "killed"}
        BY <1>1, <2>1, <3>2 DEF RunnerRight
      <4>2. ExitCode[exit] # 0
        BY <4>1 DEF ExitCode
      <4>3. c = ExitCode[exit]
        BY <2>1, <3>2 DEF extract_exit_code
      <4>4. QED BY <4>2, <4>3
    <3>3. CASE thrown \notin {"none", "CompressNonZeroExit", "DecompressNonZeroExit"}
      BY <2>1, <3>3
    <3>4. QED BY <3>1, <3>2, <3>3
  <2>4. QED BY <2>1, <2>2, <2>3, StageKeeps DEF StageRight, Stages, Waiting
<1>3. CASE WatchdogFires
  <2>1. /\ UNCHANGED <<vars, program, round, thrown>> /\ stage' = "exited" /\ code' = 250 /\ program # "shell"
        /\ program = "uselessTest" => thrown' = "none"
    BY <1>1, <1>3 DEF WatchdogFires, Exits, Runners, CaseRunners, PatternRunners, RunnerRight
  <2>2. QED BY <2>1, StageKeeps DEF StageRight, Stages, Waiting
<1>4. QED BY <1>2, <1>3

\* The stages of uselessTest and of testCollisions.
LEMMA UselessKeeps ==
  ASSUME RunnersInv, UselessCompressed \/ Validate \/ UselessDecompressed \/ UselessAgain PROVE RunnersInv'
<1>1. RunnerRight
  BY DEF RunnersInv
<1>2. UNCHANGED <<vars, program, round, thrown>> /\ program = "uselessTest" /\ thrown' = "none" /\ code' \in {code, 0, 2, NoCode}
  BY <1>1 DEF UselessCompressed, Validate, UselessDecompressed, UselessAgain, Goes, Exits, RunnerRight
<1>3. CASE Exits(2)
  BY <1>2, <1>3, StageKeeps DEF StageRight, Stages, Waiting, Exits
<1>4. CASE UselessCompressed /\ Goes("validate")
  <2>1. stage = "compressing" /\ pc = "shell" /\ exit = "ok"
    BY <1>4 DEF UselessCompressed, Ended, Goes, Exits
  <2>2. Finished /\ restored = NoFile /\ code # 0
    BY <1>1, <1>2, <2>1 DEF RunnersInv, FileInv, ShellRight, RunnerRight, PackingPcs, Finished
  <2>3. QED BY <1>2, <1>4, <2>1, <2>2, StageKeeps DEF StageRight, Goes, Stages, Waiting
<1>5. CASE Validate /\ Goes("decompress")
  <2>1. Finished /\ restored = NoFile /\ code # 0 /\ pc = "shell"
    BY <1>1, <1>2, <1>5 DEF Validate, RunnerRight, Waiting
  <2>2. QED BY <1>2, <1>5, <2>1, StageKeeps DEF StageRight, Goes, Stages, Waiting
<1>6. CASE UselessDecompressed /\ Exits(0) /\ exit = "ok" /\ restored.bits = source
  <2>1. pc = "shell" /\ restored.whole
    BY <1>1, <1>6 DEF UselessDecompressed, Ended, RunnerRight, UnpackingPcs
  <2>2. QED BY <1>2, <1>6, <2>1, StageKeeps DEF StageRight, Exits, Stages, Waiting, Returned
<1>7. CASE UselessAgain
  BY <1>2, <1>7, StageKeeps DEF UselessAgain, StageRight, Stages, Waiting, NoCode
<1>8. QED BY <1>3, <1>4, <1>5, <1>6, <1>7 DEF UselessCompressed, Validate, UselessDecompressed

LEMMA CollisionKeeps ==
  ASSUME RunnersInv, CollisionCompressed \/ CollisionDecompressed \/ CollisionsEnd PROVE RunnersInv'
<1>1. RunnerRight /\ FileInv
  BY DEF RunnersInv
<1>2. program = "testCollisions" /\ UNCHANGED <<program, round, thrown>>
  BY DEF CollisionCompressed, CollisionDecompressed, CollisionsEnd, Exits
<1>3. CASE CollisionCompressed /\ exit = "ok"
  <2>1. UNCHANGED vars /\ stage = "compressing" /\ pc = "shell" /\ stage' = "decompress" /\ code' = code
    BY <1>3 DEF CollisionCompressed, Ended
  <2>2. Finished /\ restored = NoFile /\ thrown = "none"
    BY <1>1, <1>3, <2>1 DEF FileInv, ShellRight, RunnerRight, PackingPcs, Finished
  <2>3. QED BY <1>2, <2>1, <2>2, StageKeeps DEF StageRight, Stages, Waiting
<1>4. CASE CollisionCompressed /\ exit # "ok"
  <2>1. UNCHANGED vars /\ stage = "compressing" /\ pc = "shell" /\ stage' = "generate" /\ code' = code
    BY <1>4 DEF CollisionCompressed, Ended
  <2>2. thrown = "none"
    BY <1>1, <2>1 DEF RunnerRight
  <2>3. QED BY <1>2, <2>1, <2>2, StageKeeps DEF StageRight, Stages, Waiting
<1>5. CASE CollisionDecompressed
  <2>1. /\ stage = "decompressing" /\ pc = "shell" /\ stage' = "generate" /\ code' = code
        /\ UNCHANGED <<input, pc, work, exit, attempts>>
    BY <1>5 DEF CollisionDecompressed, Ended
  <2>2. thrown = "none" /\ round \in Nat /\ program' \in {"shell"} \cup Runners
    BY <1>1, <1>2, <2>1 DEF RunnerRight
  <2>3. pc' = "shell" /\ source' = source /\ ltp' = ltp /\ disableDI' = disableDI
    BY <2>1 DEF input
  <2>4. FileInv'
    <3>1. CASE packed' = NoFile /\ restored' = NoFile
      <4>1. IsFile(source') /\ attempts' \in 0..MaxAttempts
        BY <1>1, <2>1, <2>3 DEF FileInv, InputRight, TypeOK
      <4>2. QED BY <1>1, <2>1, <2>3, <3>1, <4>1, FreshFiles
    <3>2. CASE UNCHANGED files
      <4>1. UNCHANGED vars
        BY <2>1, <3>2 DEF vars
      <4>2. QED BY <1>1, <4>1, FileStutter
    <3>3. QED BY <1>5, <3>1, <3>2 DEF CollisionDecompressed
  <2>5. RunnerRight'
    BY <1>2, <2>1, <2>2, <2>3 DEF RunnerRight, Stages, Waiting
  <2>6. QED BY <2>4, <2>5 DEF RunnersInv
<1>6. CASE CollisionsEnd
  BY <1>2, <1>6, StageKeeps DEF CollisionsEnd, Exits, StageRight, Stages, Waiting
<1>7. QED BY <1>3, <1>4, <1>5, <1>6

-------------------------------------------------------------------------------
\* The invariant holds at the start and every step keeps it.
LEMMA RunnersStart == RunnerInit => RunnersInv
<1>1. SUFFICES ASSUME RunnerInit PROVE RunnersInv
  OBVIOUS
<1>2. /\ program \in {"shell"} \cup Runners /\ round = 0 /\ thrown = "none" /\ code = NoCode
      /\ stage = (IF program = "shell" THEN "none" ELSE "generate") /\ pc = "shell"
  BY <1>1 DEF RunnerInit, Init
<1>3. code # 0
  BY <1>2 DEF NoCode
<1>4. CASE program = "shell"
  <2>1. stage = "none" /\ "none" \notin Waiting
    BY <1>2, <1>4 DEF Waiting
  <2>2. RunnerRight
    BY <1>2, <1>3, <1>4, <2>1 DEF RunnerRight
  <2>3. QED BY <1>1, <2>2, FileInit DEF RunnersInv
<1>5. CASE program # "shell"
  <2>1. stage = "generate" /\ "generate" \in Stages
    BY <1>2, <1>5 DEF Stages, Waiting
  <2>2. RunnerRight
    BY <1>2, <1>3, <1>5, <2>1 DEF RunnerRight
  <2>3. QED BY <1>1, <2>2, FileInit DEF RunnersInv
<1>6. QED BY <1>4, <1>5

LEMMA RunnersKept == RunnersInv /\ [RunnersNext]_runnerVars => RunnersInv'
<1>1. SUFFICES ASSUME RunnersInv, [RunnersNext]_runnerVars PROVE RunnersInv'
  OBVIOUS
<1>2. FileInv /\ RunnerRight
  BY <1>1 DEF RunnersInv
<1>3. CASE ShellStep
  <2>1. FileInv'
    BY <1>2, <1>3, FileNext DEF ShellStep
  <2>2. /\ program = "shell" /\ program' = "shell" /\ stage' = stage /\ thrown' = thrown /\ code' = code /\ round' = round
    BY <1>3 DEF ShellStep, runner
  <2>3. stage = "none" /\ "none" \notin Waiting /\ code # 0
    BY <1>2, <2>2 DEF RunnerRight, Waiting, NoCode
  <2>4. RunnerRight'
    BY <1>2, <2>2, <2>3 DEF RunnerRight
  <2>5. QED BY <2>1, <2>4 DEF RunnersInv
<1>4. CASE ChildStep
  <2>1. FileInv'
    BY <1>2, <1>4, ChildRuns, FileNext
  <2>2. QED BY <1>1, <1>4, <2>1, ChildKeeps DEF RunnersInv
<1>5. CASE RunnerStep
  BY <1>1, <1>5, GenerateKeeps, StartKeeps, ReturnsKeep, EndsKeep, UselessKeeps, CollisionKeeps DEF RunnerStep
<1>6. CASE UNCHANGED runnerVars
  <2>1. UNCHANGED vars /\ program' = program /\ stage' = stage /\ round' = round /\ thrown' = thrown /\ code' = code
    BY <1>6 DEF runnerVars, runner
  <2>2. FileInv'
    BY <1>2, <2>1, FileStutter
  <2>3. /\ source' = source /\ packed' = packed /\ restored' = restored /\ pc' = pc /\ exit' = exit
    BY <2>1 DEF vars, input, files, work
  <2>4. RunnerRight'
    BY <1>2, <2>1, <2>3 DEF RunnerRight, Finished, Returned, IsWhole
  <2>5. QED BY <2>2, <2>4 DEF RunnersInv
<1>7. QED BY <1>1, <1>3, <1>4, <1>5, <1>6 DEF RunnersNext

LEMMA RunnersAlways == RunnersSpec => []RunnersInv
<1>1. QED BY RunnersStart, RunnersKept, PTL DEF RunnersSpec

-------------------------------------------------------------------------------
\* What the preflight counts in the file that alternates, given an odd side.
Alternating == write_alternating01_file(Ceil(kS * kS, ByteBits))

LEMMA OddSide == \E h \in Nat : kS = 2 * h + 1 /\ h > 0
<1>1. kS \in Nat /\ kS % 2 = 1 /\ kS > 1
  BY Places, SideAssumption
<1>2. PICK h \in Nat, u \in 0..1 : u = kS % 2 /\ kS = h * 2 + u
  BY <1>1, Quotient
<1>3. QED BY <1>1, <1>2

LEMMA Wraps == ASSUME NEW a \in 0..(kS - 1) PROVE a % kS = a /\ (a + kS) % kS = a
<1>1. kS \in Nat \ {0}
  BY Places
<1>2. PICK w \in Nat \ {0}, r \in Nat : w = kS /\ r = a /\ r \in 0..(w - 1)
  BY <1>1
<1>3. (0 * w + r) % w = r /\ (1 * w + r) % w = r
  BY <1>2, QuotientUnique
<1>4. 0 * w + r = r /\ 1 * w + r = r + w
  OBVIOUS
<1>5. QED BY <1>2, <1>3, <1>4

LEMMA AlternatingAt ==
  /\ Len(Alternating) \in Nat
  /\ \A r, c \in Index : Alternating[r * kS + c + 1] = (r + c) % 2
<1>1. PICK h \in Nat : kS = 2 * h + 1
  BY OddSide
<1>2. PICK e \in Nat \ {0} : e = kS * kS
  BY Places DEF kN
<1>3. PICK q \in Nat : q = Ceil(kS * kS, ByteBits) /\ e <= q * 8
  <2>1. PICK q \in Nat, u \in 0..7 : q = (e + 8 - 1) \div 8 /\ e + 8 - 1 = q * 8 + u
    <3>1. e + 8 - 1 \in Nat
      OBVIOUS
    <3>2. QED BY <3>1, Quotient
  <2>2. QED BY <1>2, <2>1 DEF Ceil, ByteBits
<1>4. PICK m \in Nat : m = q * 8
  OBVIOUS
<1>5. Alternating = [i \in 1..m |-> IF i % 2 = 1 THEN 0 ELSE 1]
  BY <1>3, <1>4 DEF Alternating, write_alternating01_file, Repeat, ByteBits
<1>6. ASSUME NEW r \in Index, NEW c \in Index PROVE Alternating[r * kS + c + 1] = (r + c) % 2
  <2>1. r \in Nat /\ c \in Nat
    BY Places
  <2>2. PICK p \in Nat : p = r * kS + c /\ p < e
    <3>1. r * kS + c \in 0..(kN - 1)
      BY Places
    <3>2. QED BY <1>2, <3>1 DEF kN
  <2>3. PICK a \in Nat : p = 2 * a + (r + c)
    <3>1. r * kS = 2 * (r * h) + r /\ r * h \in Nat
      BY <1>1, <2>1
    <3>2. QED BY <2>1, <2>2, <3>1
  <2>4. (r + c) % 2 = IF (p + 1) % 2 = 1 THEN 0 ELSE 1
    <3>1. PICK n \in Nat : n = r + c
      BY <2>1
    <3>2. n % 2 = IF (2 * a + n + 1) % 2 = 1 THEN 0 ELSE 1
      OBVIOUS
    <3>3. QED BY <2>3, <3>1, <3>2
  <2>5. p + 1 \in 1..m
    BY <1>3, <1>4, <2>2
  <2>6. QED BY <1>5, <2>2, <2>4, <2>5
<1>7. Alternating \in Seq({0, 1}) /\ Len(Alternating) = m
  <2>1. Alternating \in [1..m -> {0, 1}]
    BY <1>5
  <2>2. QED BY <1>5, <2>1
<1>8. QED BY <1>6, <1>7

\* A line has one cell in each row; its ones are those of a stretch of rows.
LEMMA LineCount ==
  ASSUME NEW c \in [Index -> Index], NEW lo \in Nat, NEW hi \in Nat, lo <= hi, hi <= kS,
         \A r \in Index : (r + c[r]) % 2 = 1 <=> r \in lo..(hi - 1)
  PROVE  Cardinality({x \in {<<r, c[r]>> : r \in Index} : Alternating[x[1] * kS + x[2] + 1] = 1}) = hi - lo
<1> DEFINE Rows == lo..(hi - 1)
           Ones == {x \in {<<r, c[r]>> : r \in Index} : Alternating[x[1] * kS + x[2] + 1] = 1}
           cell == [r \in Rows |-> <<r, c[r]>>]
<1>1. Rows \subseteq Index
  BY Places
<1>2. Ones = {<<r, c[r]>> : r \in Rows}
  <2>1. ASSUME NEW r \in Index PROVE Alternating[r * kS + c[r] + 1] = 1 <=> r \in Rows
    BY <2>1, AlternatingAt
  <2>2. QED BY <1>1, <2>1
<1>3. cell \in Bijection(Rows, Ones)
  <2>1. cell \in [Rows -> Ones]
    BY <1>2
  <2>2. \A r, s \in Rows : cell[r] = cell[s] => r = s
    OBVIOUS
  <2>3. \A x \in Ones : \E r \in Rows : cell[r] = x
    BY <1>2
  <2> HIDE DEF Ones, cell, Rows
  <2>4. QED BY <2>1, <2>2, <2>3 DEF Bijection, Injection, Surjection, IsInjective
<1>4. IsFiniteSet(Rows) /\ Cardinality(Rows) = hi - lo
  <2>1. CASE lo = hi
    <3>1. lo > hi - 1
      BY <2>1
    <3>2. QED BY <2>1, <3>1, FS_Interval
  <2>2. CASE lo < hi
    <3>1. lo <= hi - 1 /\ (hi - 1) - lo + 1 = hi - lo
      BY <2>2
    <3>2. QED BY <3>1, FS_Interval
  <2>3. QED BY <2>1, <2>2
<1>5. Cardinality(Ones) = Cardinality(Rows)
  <2> HIDE DEF Ones, cell, Rows
  <2>1. ExistsBijection(Rows, Ones)
    BY <1>3 DEF ExistsBijection
  <2>2. QED BY <1>4, <2>1, FS_Bijection
<1>6. QED BY <1>4, <1>5

LEMMA DiagonalCount ==
  ASSUME NEW d \in Index
  PROVE  Cardinality({x \in {<<r, (r + d) % kS>> : r \in Index} : Alternating[x[1] * kS + x[2] + 1] = 1})
           = IF d % 2 = 0 THEN d ELSE kS - d
<1>1. PICK h \in Nat : kS = 2 * h + 1
  BY OddSide
<1>2. d \in Nat /\ d < kS /\ kS \in Nat
  BY Places
<1> DEFINE c == [r \in Index |-> (r + d) % kS]
<1>3. \A r \in Index : c[r] \in Index /\ c[r] = (IF r < kS - d THEN r + d ELSE r + d - kS)
  <2>1. ASSUME NEW r \in Index PROVE (r + d) % kS = (IF r < kS - d THEN r + d ELSE r + d - kS)
    <3>1. r \in Nat /\ r < kS
      BY Places
    <3>2. CASE r < kS - d
      <4>1. r + d \in 0..(kS - 1)
        BY <1>2, <3>1, <3>2
      <4>2. (r + d) % kS = r + d
        BY <4>1, Wraps
      <4>3. QED BY <3>2, <4>2
    <3>3. CASE ~(r < kS - d)
      <4>1. r + d - kS \in 0..(kS - 1)
        BY <1>2, <3>1, <3>3
      <4>2. ((r + d - kS) + kS) % kS = r + d - kS
        BY <4>1, Wraps
      <4>3. (r + d - kS) + kS = r + d
        BY <1>2, <3>1
      <4>4. QED BY <3>3, <4>2, <4>3
    <3>4. QED BY <3>2, <3>3
  <2>2. QED BY <1>2, <2>1, Places
<1>4. c \in [Index -> Index] /\ {<<r, (r + d) % kS>> : r \in Index} = {<<r, c[r]>> : r \in Index}
  BY <1>3
<1> HIDE DEF c
<1>5. CASE d % 2 = 0
  <2>1. PICK e \in Nat : d = 2 * e
    <3>1. PICK e \in Nat, u \in 0..1 : u = d % 2 /\ d = e * 2 + u
      BY <1>2, Quotient
    <3>2. QED BY <1>5, <3>1
  <2>2. ASSUME NEW r \in Index PROVE (r + c[r]) % 2 = 1 <=> r \in (kS - d)..(kS - 1)
    <3>1. r \in Nat /\ r < kS
      BY Places
    <3>2. CASE r < kS - d
      <4>1. r + c[r] = 2 * (r + e)
        BY <1>3, <2>1, <3>1, <3>2
      <4>2. QED BY <1>2, <3>1, <3>2, <4>1
    <3>3. CASE ~(r < kS - d)
      <4>1. r + c[r] = 2 * (r + e - h - 1) + 1
        BY <1>1, <1>2, <1>3, <2>1, <3>1, <3>3
      <4>2. QED BY <1>1, <1>2, <3>1, <3>3, <4>1
    <3>4. QED BY <3>2, <3>3
  <2>3. kS - d \in Nat /\ kS - d <= kS /\ kS - (kS - d) = d /\ kS \in Nat
    BY <1>1, <1>2
  <2>4. Cardinality({x \in {<<r, c[r]>> : r \in Index} : Alternating[x[1] * kS + x[2] + 1] = 1}) = kS - (kS - d)
    BY <1>4, <2>2, <2>3, LineCount
  <2>5. QED BY <1>4, <1>5, <2>3, <2>4
<1>6. CASE d % 2 # 0
  <2>1. PICK e \in Nat : d = 2 * e + 1
    <3>1. PICK e \in Nat, u \in 0..1 : u = d % 2 /\ d = e * 2 + u
      BY <1>2, Quotient
    <3>2. QED BY <1>6, <3>1
  <2>2. ASSUME NEW r \in Index PROVE (r + c[r]) % 2 = 1 <=> r \in 0..((kS - d) - 1)
    <3>1. r \in Nat /\ r < kS
      BY Places
    <3>2. CASE r < kS - d
      <4>1. r + c[r] = 2 * (r + e) + 1
        BY <1>3, <2>1, <3>1, <3>2
      <4>2. QED BY <1>1, <1>2, <3>1, <3>2, <4>1
    <3>3. CASE ~(r < kS - d)
      <4>1. r + c[r] = 2 * (r + e - h)
        BY <1>1, <1>2, <1>3, <2>1, <3>1, <3>3
      <4>2. QED BY <1>1, <1>2, <3>1, <3>3, <4>1
    <3>4. QED BY <3>2, <3>3
  <2>3. kS - d \in Nat /\ 0 <= kS - d /\ kS - d <= kS /\ (kS - d) - 0 = kS - d
    BY <1>1, <1>2
  <2>4. Cardinality({x \in {<<r, c[r]>> : r \in Index} : Alternating[x[1] * kS + x[2] + 1] = 1}) = (kS - d) - 0
    BY <1>4, <2>2, <2>3, LineCount
  <2>5. QED BY <1>4, <1>6, <2>3, <2>4
<1>7. QED BY <1>5, <1>6

LEMMA AntiDiagonalCount ==
  ASSUME NEW x0 \in Index
  PROVE  Cardinality({x \in {<<r, (x0 + kS - r) % kS>> : r \in Index} : Alternating[x[1] * kS + x[2] + 1] = 1})
           = IF x0 % 2 = 0 THEN kS - x0 - 1 ELSE x0 + 1
<1>1. PICK h \in Nat : kS = 2 * h + 1
  BY OddSide
<1>2. x0 \in Nat /\ x0 < kS /\ kS \in Nat
  BY Places
<1> DEFINE c == [r \in Index |-> (x0 + kS - r) % kS]
<1>3. \A r \in Index : c[r] \in Index /\ c[r] = (IF r <= x0 THEN x0 - r ELSE x0 + kS - r)
  <2>1. ASSUME NEW r \in Index PROVE (x0 + kS - r) % kS \in Index /\ (x0 + kS - r) % kS = (IF r <= x0 THEN x0 - r ELSE x0 + kS - r)
    <3>1. r \in Nat /\ r < kS
      BY Places
    <3>2. CASE r <= x0
      <4>1. x0 - r \in 0..(kS - 1)
        BY <1>2, <3>1, <3>2
      <4>2. ((x0 - r) + kS) % kS = x0 - r
        BY <4>1, Wraps
      <4>3. (x0 - r) + kS = x0 + kS - r
        BY <1>2, <3>1
      <4>4. QED BY <3>2, <4>1, <4>2, <4>3, Places
    <3>3. CASE ~(r <= x0)
      <4>1. x0 + kS - r \in 0..(kS - 1)
        BY <1>2, <3>1, <3>3
      <4>2. (x0 + kS - r) % kS = x0 + kS - r
        BY <4>1, Wraps
      <4>3. QED BY <3>3, <4>1, <4>2, Places
    <3>4. QED BY <3>2, <3>3
  <2>2. QED BY <2>1
<1>4. c \in [Index -> Index] /\ {<<r, (x0 + kS - r) % kS>> : r \in Index} = {<<r, c[r]>> : r \in Index}
  BY <1>3
<1> HIDE DEF c
<1>5. CASE x0 % 2 = 0
  <2>1. PICK e \in Nat : x0 = 2 * e
    <3>1. PICK e \in Nat, u \in 0..1 : u = x0 % 2 /\ x0 = e * 2 + u
      BY <1>2, Quotient
    <3>2. QED BY <1>5, <3>1
  <2>2. ASSUME NEW r \in Index PROVE (r + c[r]) % 2 = 1 <=> r \in (x0 + 1)..(kS - 1)
    <3>1. r \in Nat /\ r < kS
      BY Places
    <3>2. CASE r <= x0
      <4>1. r + c[r] = 2 * e
        BY <1>2, <1>3, <2>1, <3>1, <3>2
      <4>2. QED BY <1>1, <1>2, <3>1, <3>2, <4>1
    <3>3. CASE ~(r <= x0)
      <4>1. r + c[r] = 2 * (e + h) + 1
        BY <1>1, <1>2, <1>3, <2>1, <3>1, <3>3
      <4>2. QED BY <1>1, <1>2, <3>1, <3>3, <4>1
    <3>4. QED BY <3>2, <3>3
  <2>3. x0 + 1 \in Nat /\ x0 + 1 <= kS /\ kS - (x0 + 1) = kS - x0 - 1 /\ kS \in Nat
    BY <1>1, <1>2
  <2>4. Cardinality({x \in {<<r, c[r]>> : r \in Index} : Alternating[x[1] * kS + x[2] + 1] = 1}) = kS - (x0 + 1)
    BY <1>4, <2>2, <2>3, LineCount
  <2>5. QED BY <1>4, <1>5, <2>3, <2>4
<1>6. CASE x0 % 2 # 0
  <2>1. PICK e \in Nat : x0 = 2 * e + 1
    <3>1. PICK e \in Nat, u \in 0..1 : u = x0 % 2 /\ x0 = e * 2 + u
      BY <1>2, Quotient
    <3>2. QED BY <1>6, <3>1
  <2>2. ASSUME NEW r \in Index PROVE (r + c[r]) % 2 = 1 <=> r \in 0..((x0 + 1) - 1)
    <3>1. r \in Nat /\ r < kS
      BY Places
    <3>2. CASE r <= x0
      <4>1. r + c[r] = 2 * e + 1
        BY <1>2, <1>3, <2>1, <3>1, <3>2
      <4>2. QED BY <1>1, <1>2, <3>1, <3>2, <4>1
    <3>3. CASE ~(r <= x0)
      <4>1. r + c[r] = 2 * (e + h + 1)
        BY <1>1, <1>2, <1>3, <2>1, <3>1, <3>3
      <4>2. QED BY <1>1, <1>2, <3>1, <3>3, <4>1
    <3>4. QED BY <3>2, <3>3
  <2>3. x0 + 1 \in Nat /\ 0 <= x0 + 1 /\ x0 + 1 <= kS /\ (x0 + 1) - 0 = x0 + 1
    BY <1>1, <1>2
  <2>4. Cardinality({x \in {<<r, c[r]>> : r \in Index} : Alternating[x[1] * kS + x[2] + 1] = 1}) = (x0 + 1) - 0
    BY <1>4, <2>2, <2>3, LineCount
  <2>5. QED BY <1>4, <1>6, <2>3, <2>4
<1>7. QED BY <1>5, <1>6

LEMMA PreflightPasses == preflight_check_alternating01(write_alternating01_file(Ceil(kS * kS, ByteBits)))
<1>1. PICK h \in Nat : kS = 2 * h + 1 /\ h > 0
  BY OddSide
<1>2. 0 \in Index /\ 1 \in Index /\ kS - 1 \in Index /\ kS - 2 \in Index
  BY <1>1, Places
<1>3. \A i \in Index : Alternating[i * kS + i + 1] = 0
  <2>1. ASSUME NEW i \in Index PROVE (i + i) % 2 = 0
    <3>1. i \in Nat
      BY Places
    <3>2. (2 * i) % 2 = 0 /\ i + i = 2 * i
      BY <3>1
    <3>3. QED BY <3>2
  <2>2. QED BY <2>1, AlternatingAt
<1>4. /\ Alternating[0 * kS + 1 + 1] = 1 /\ Alternating[1 * kS + 0 + 1] = 1
      /\ Alternating[(kS - 1) * kS + (kS - 2) + 1] = 1 /\ Alternating[(kS - 2) * kS + (kS - 1) + 1] = 1
  <2>1. (0 + 1) % 2 = 1 /\ (1 + 0) % 2 = 1
    OBVIOUS
  <2>2. ((kS - 1) + (kS - 2)) % 2 = 1 /\ ((kS - 2) + (kS - 1)) % 2 = 1
    BY <1>1
  <2>3. QED BY <1>2, <2>1, <2>2, AlternatingAt
<1>5. Alternating[0 * kS + (kS - 1) + 1] = Alternating[(kS - 1) * kS + 0 + 1]
  <2>1. (0 + (kS - 1)) % 2 = ((kS - 1) + 0) % 2
    BY <1>1
  <2>2. QED BY <1>2, <2>1, AlternatingAt
<1>6. preflight_check_alternating01(Alternating)
  BY <1>3, <1>4, <1>5, DiagonalCount, AntiDiagonalCount DEF preflight_check_alternating01
<1>7. QED BY <1>6 DEF Alternating

-------------------------------------------------------------------------------
\* What the invariant says of each property.
LEMMA SaysKept == RunnersInv => TypeOK /\ TablesAgree /\ PayloadKept /\ DINamesBlock
<1>1. SUFFICES ASSUME RunnersInv PROVE TypeOK /\ TablesAgree /\ PayloadKept /\ DINamesBlock
  OBVIOUS
<1>2. FileInv /\ TypeOK /\ InputRight
  BY <1>1 DEF RunnersInv, FileInv
<1>3. TablesAgree
  BY <1>2 DEF InputRight, TablesSound, TablesAgree
<1>4. ASSUME NEW b \in BlocksOf PROVE BlockRight(b, packed.blocks[b])
  <2>1. IsPacked /\ b \in DOMAIN packed.blocks
    BY <1>4 DEF BlocksOf
  <2>2. packed \in PackedFiles
    BY <1>2, <2>1 DEF FileInv, PackedRight, IsPacked
  <2>3. b \in 1..Len(packed.blocks)
    BY <1>2, <2>1, <2>2, PackedIs
  <2>4. QED BY <1>2, <2>2, <2>3, PackedIs
<1>5. PayloadKept
  BY <1>4 DEF PayloadKept, BlockRight, Describes
<1>6. DINamesBlock
  BY <1>4 DEF DINamesBlock, BlockRight, InEnumeration
<1>7. QED BY <1>2, <1>3, <1>5, <1>6

LEMMA SaysRestored == RunnersInv => RestoredFromWhole /\ BlocksReconstructed
<1>1. SUFFICES ASSUME RunnersInv PROVE RestoredFromWhole /\ BlocksReconstructed
  OBVIOUS
<1>2. FileInv /\ TypeOK /\ InputRight
  BY <1>1 DEF RunnersInv, FileInv
<1>3. RestoredFromWhole
  <2>1. ASSUME restored # NoFile
        PROVE  IsPacked /\ ~packed.torn /\ BlocksOf = 1..BlockCount(source) /\ Len(restored.bits) = Len(source)
    <3>1. packed \in PackedFiles /\ IsWhole /\ Len(restored.bits) = Len(source)
      BY <1>2, <2>1 DEF FileInv, RestoredRight
    <3>2. IsPacked
      BY <3>1, NoFileAssumption DEF IsPacked
    <3>3. packed.blocks \in Seq(PackedBlocks)
      BY <3>1 DEF PackedFiles
    <3>4. DOMAIN packed.blocks = 1..Len(packed.blocks)
      BY <3>3
    <3>5. BlocksOf = 1..BlockCount(source)
      BY <3>1, <3>2, <3>4 DEF BlocksOf, IsWhole
    <3>6. QED BY <3>1, <3>2, <3>5 DEF IsWhole
  <2>2. QED BY <2>1 DEF RestoredFromWhole
<1>4. ASSUME NEW b \in Reconstructed
      PROVE  \E bits, di : bits = Chunk(b) /\ di = packed.blocks[b].di /\ Restores(b, bits, di)
  <2>1. pc \in {"decompress", "row_decomposed", "lex_enumeration"} /\ b \in 1..block
    BY <1>4 DEF Reconstructed
  <2>2. b - 1 \in Nat
    BY <1>2, <2>1 DEF TypeOK
  <2>3. OriginalOf(b) \in Matrices
    BY <1>2, <2>2, OriginalTyped DEF InputRight, OriginalOf
  <2>4. Len(vec(OriginalOf(b))) = VecBits
    BY <2>3, VecTyped
  <2>5. Chunk(b) = Part(buffer, b)
    BY <2>4 DEF Chunk, Part
  <2>6. QED BY <1>2, <2>1, <2>5 DEF FileInv, DecompressRight
<1>5. BlocksReconstructed
  BY <1>4 DEF BlocksReconstructed, Restores
<1>6. QED BY <1>3, <1>5

LEMMA SaysValid == FileInv => ContainersValid
<1>1. SUFFICES ASSUME FileInv PROVE ContainersValid
  OBVIOUS
<1>2. ASSUME packed \in PackedFiles
      PROVE  validate_container(packed) <=> IsWhole
  <2>1. /\ packed.header.size = Len(source) \div ByteBits
        /\ packed.header.blockCount = BlockCount(source)
        /\ FileSizeRight(packed) <=> IsWhole
    BY <1>1, <1>2, PackedIs
  <2>2. IsFile(source)
    BY <1>1 DEF FileInv, InputRight
  <2>3. packed.header.blockCount = Ceil(packed.header.size * ByteBits, kBlockBits)
    BY <2>1, <2>2, FileSizes
  <2>4. packed \notin {NoFile, Foreign}
    BY <1>2, NoFileAssumption
  <2>5. validate_container(packed) <=> FileSizeRight(packed)
    BY <2>3, <2>4 DEF validate_container, FileSizeRight
  <2>6. QED BY <2>1, <2>5
<1>3. packed \in {NoFile, Foreign} \/ packed \in PackedFiles
  BY <1>1 DEF FileInv, PackedRight
<1>4. ASSUME pc = "shell", exit = "ok", IsPacked, restored = NoFile PROVE validate_container(packed)
  <2>1. packed \in PackedFiles
    BY <1>3, <1>4 DEF IsPacked
  <2>2. IsWhole
    BY <1>1, <1>4, <2>1 DEF FileInv, ShellRight
  <2>3. QED BY <1>2, <2>1, <2>2
<1>5. ASSUME validate_container(packed) PROVE FileSizeRight(packed) /\ Len(packed.blocks) = BlockCount(source)
  <2>1. packed \in PackedFiles
    BY <1>3, <1>5 DEF validate_container
  <2>2. IsWhole
    BY <1>2, <1>5, <2>1
  <2>3. QED BY <1>1, <2>1, <2>2, PackedIs DEF IsWhole
<1>6. QED BY <1>4, <1>5 DEF ContainersValid

LEMMA SaysSound == RunnersInv => RunnersSound
<1>1. SUFFICES ASSUME RunnersInv PROVE RunnersSound
  OBVIOUS
<1>2. FileInv /\ RunnerRight
  BY <1>1 DEF RunnersInv
<1>3. ASSUME stage \in {"compressing", "decompressing"} PROVE exit # "refused"
  BY <1>2, <1>3 DEF RunnerRight, ChildCodes
<1>4. ASSUME program # "testCollisions", code = 0 \/ (stage = "main" /\ thrown = "none")
      PROVE  restored.whole /\ restored.bits = source
  BY <1>2, <1>4 DEF RunnerRight, Returned
<1>5. QED BY <1>2, <1>3, <1>4, SaysValid, PreflightPasses DEF RunnersSound

-------------------------------------------------------------------------------
\* Every variable of the two commands keeps its type; a DI written to the file
\* fits its byte.
THEOREM FilesTyped == RunnersSpec => []TypeOK
<1>1. QED BY RunnersAlways, SaysKept, PTL

\* Whatever the environment asks for, shuffled tables or those of an LTPB file,
\* the line of a cell (fwd) lists the cell (csr), for the whole life of the
\* process: getLtpData builds no table whose views differ.
THEOREM TablesAlwaysAgree == RunnersSpec => []TablesAgree
<1>1. QED BY RunnersAlways, SaysKept, PTL

\* deserializeBlock reads back from every block in the file the description of
\* the block of the source it stands for, after kills, retries and failed writes.
THEOREM PayloadAlwaysKept == RunnersSpec => []PayloadKept
<1>1. QED BY RunnersAlways, SaysKept, PTL

\* The DI in the file is the place of the block's matrix in the enumeration of
\* its own description: discoverDI and the candidates it counts do not drift.
THEOREM DIAlwaysNames == RunnersSpec => []DINamesBlock
<1>1. QED BY RunnersAlways, SaysKept, PTL

\* decompress restores only from a file that compress finished, and to the
\* length of the source.
THEOREM RestoredOnlyFromWhole == RunnersSpec => []RestoredFromWhole
<1>1. QED BY RunnersAlways, SaysRestored, PTL

\* Every block with a positive DI that decompress has emitted is the original, at
\* its own place in the buffer, whatever the row search gave for the other blocks.
THEOREM BlocksComeBack == RunnersSpec => []BlocksReconstructed
<1>1. QED BY RunnersAlways, SaysRestored, PTL

\* A runner that exits with 0, or is about to, has the source back; its children
\* are never refused for what an earlier run left; validate_container and
\* decompress accept the same files; the preflight passes on its own pattern.
THEOREM RunnersAreSound == RunnersSpec => []RunnersSound
<1>1. QED BY RunnersAlways, SaysSound, PTL
===============================================================================
