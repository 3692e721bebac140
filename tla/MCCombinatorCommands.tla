-------------------------- MODULE MCCombinatorCommands --------------------------
(***************************************************************************)
(* TLC instances of CombinatorCommands: a small CRC of the same shape,     *)
(* small partitions and orders, matrices under the named configurations,   *)
(* and files for overlapSolver.                                            *)
(***************************************************************************)
EXTENDS CombinatorConfigs, CombinatorCommands

\* The widths of the diagonals' CRCs are those the cascade depends on.
Bits == [w \in {8, 16, 32} |-> IF w = 32 THEN 1 ELSE 2]

\* Division by x + 1 and x^2 + x + 1 from an all-ones register.
Taps(w) == 1..CrcBits[w]

ToyCrc(w, bits) ==
  LET top == CrcBits[w]
      feed(reg, bit) ==
        LET shifted == {b + 1 : b \in reg \ {top}}
        IN  IF (top \in reg) # (bit = 1) THEN SymDiff(shifted, Taps(w)) ELSE shifted
  IN  FoldLeft(feed, 1..top, bits)

\* Two shuffles of the cells, cut into lines.
ToyYltp == [seed \in {1, 2} |->
  [x \in Cells |-> (((IF seed = 1 THEN 5 ELSE 11) * Flat(x) + seed) % kN) \div kS]]

\* In order and in reverse order, turned a little more each time.
ToyShuffle(r, n) ==
  LET turned == [i \in 1..n |-> ((i + r) % n) + 1]
  IN  IF r % 2 = 0 THEN turned ELSE Reverse(turned)

\* Matrices without a pattern, and one with few ones.
Mixed(k) ==
  [x \in Cells |->
     IF (7 * k * k + (31 + k) * x[1] + (17 + 3 * k) * x[2] + 5 * x[1] * x[1] * x[2]
           + 3 * k * x[2] * x[2]) % 11 > 5 THEN 1 ELSE 0]

Sparse == [x \in Cells |-> IF x[1] = (3 * x[2]) % 5 /\ x[2] > 1 THEN 1 ELSE 0]

Problem(m, cfg, n) == [original |-> m, config |-> cfg, donated |-> PreassignColumns(m, n)]

Named(configs) == {configs[name] : name \in DOMAIN configs}

\* None of these is followed by solveHybrid here.
AllConfigs ==
  {[cfg EXCEPT !.hybrid = FALSE] :
     cfg \in Named(FixpointConfigs) \cup Named(PartitionConfigs)
             \cup Named(TradeOffConfigs) \cup Named(AblationConfigs)}

\* Few equations, so that cells stay free.
NoSums == [NoHash EXCEPT !.useLSMSums = FALSE, !.useVSMSums = FALSE,
                         !.useDSMSums = FALSE, !.useXSMSums = FALSE]

\* No sums, row sums, row and column sums, all of them: the fewer, the more is
\* left to the search of the lines and the restarts.
FewSums ==
  LET hybrid == [NoSums EXCEPT !.hybrid = TRUE]
  IN  {hybrid, [hybrid EXCEPT !.useLSMSums = TRUE],
       [hybrid EXCEPT !.useLSMSums = TRUE, !.useVSMSums = TRUE],
       [NoHash EXCEPT !.hybrid = TRUE]}

\* solve and solveCascade under every configuration; with columns known
\* beforehand, partitions among the configurations; with few equations; solveHybrid.
Named7   == {Problem(Mixed(1), cfg, 0) : cfg \in AllConfigs}
Donated7 == {Problem(Sparse, cfg, n) : cfg \in Named(FixpointConfigs), n \in {0, 3}}
Late7    == {Problem(Mixed(2), [cfg EXCEPT !.hybrid = FALSE], n) :
               cfg \in Named(PartitionConfigs), n \in {2, 5}}
Sparse7  == {Problem(Mixed(3), cfg, n) : n \in {1, 3},
               cfg \in {NoSums, [NoSums EXCEPT !.toroidal = TRUE], [NoSums EXCEPT !.useLH = TRUE]}}
Hybrid7  == {Problem(Mixed(k), cfg, 0) : k \in 1..12, cfg \in FewSums}

Problems7 == Named7 \cup Donated7 \cup Late7 \cup Sparse7 \cup Hybrid7

HybridCascade == FixpointConfigs.hybrid_cascade

MixedFile(k, n) == [i \in 1..n |-> IF (k * i * i + 7 * i + k) % 13 > 7 THEN 1 ELSE 0]

\* Files without a pattern, a constant one, and one shorter than its blocks.
FewFiles == {MixedFile(k, 3 * kN) : k \in 1..4}
              \cup {[i \in 1..(3 * kN) |-> 0], [i \in 1..kN |-> i % 2]}
===============================================================================
