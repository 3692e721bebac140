--------------------------- MODULE CombinatorConfigs ---------------------------
(***************************************************************************)
(* The named configurations of cmd/combinatorSolver.  Line lengths and     *)
(* spiral centres are given there for 127 x 127 matrices and multiples of  *)
(* 8; Length and At bring them to this matrix.                             *)
(***************************************************************************)
EXTENDS CombinatorSolver

At(r, c) == <<(r * kS) \div 127, (c * kS) \div 127>>
Length(n) == (n * Unit) \div 8

\* CombinatorSolver::Config's defaults.  The two flags and coordinates of each
\* spiral are its entry in rltpCentres, each yLTP seed its entry in yltpSeeds.
Config ==
  [useLH |-> TRUE, useVH |-> TRUE, useDH |-> FALSE, dhMaxDiags |-> 0,
   useXH |-> FALSE, xhMaxDiags |-> 0, dhBits |-> 32, lhBits |-> 32, vhBits |-> 32,
   useVHInCascade |-> FALSE, cascade |-> FALSE, cascadeMaxLen |-> 0,
   yltpSeeds |-> <<>>, rltpCentres |-> <<>>, rltpCrcOnly |-> FALSE, rltpMaxLines |-> 0,
   rltpTier3Width |-> 32, rltpTier5Width |-> 32, hybridWidths |-> FALSE,
   useLSMSums |-> TRUE, useVSMSums |-> TRUE, useDSMSums |-> TRUE, useXSMSums |-> TRUE,
   hybrid |-> FALSE, toroidal |-> FALSE]

NoHash   == [Config EXCEPT !.useLH = FALSE, !.useVH = FALSE]
Cascade  == [NoHash EXCEPT !.cascade = TRUE]
VHCascade == [Cascade EXCEPT !.useVHInCascade = TRUE]
HybridVH == [VHCascade EXCEPT !.hybridWidths = TRUE]
Spirals(centres) == [HybridVH EXCEPT !.rltpCentres = centres]
TwoSpirals == [Spirals(<<At(95, 95), At(0, 0)>>) EXCEPT !.rltpCrcOnly = TRUE]

\* B.60: one fixpoint, and the first cascades.
FixpointConfigs ==
  [lh_vh |-> Config,
   toroidal_vh |-> [Config EXCEPT !.toroidal = TRUE],
   lh_dh |-> [Config EXCEPT !.useVH = FALSE, !.useDH = TRUE],
   xh_dh |-> [NoHash EXCEPT !.useDH = TRUE, !.useXH = TRUE],
   lh_dh_xh |-> [Config EXCEPT !.useVH = FALSE, !.useDH = TRUE, !.useXH = TRUE],
   cascade |-> Cascade,
   lh_cascade |-> [Cascade EXCEPT !.useLH = TRUE],
   vh_dh16_xh16_cascade |-> [VHCascade EXCEPT !.dhBits = 16],
   lh_vh_dh16_xh16_cascade |-> [VHCascade EXCEPT !.dhBits = 16, !.useLH = TRUE],
   vh_dh32_xh32_cascade |-> [VHCascade EXCEPT !.cascadeMaxLen = Length(32)],
   vh_dh8_xh8_cascade |-> [VHCascade EXCEPT !.dhBits = 8],
   hybrid_cascade |-> HybridVH,
   lh16_vh16_hybrid_cascade |->
     [HybridVH EXCEPT !.useLH = TRUE, !.lhBits = 16, !.vhBits = 16]]

\* B.62: partitions beside the cross-sums.
PartitionConfigs ==
  [b62a |-> [HybridVH EXCEPT !.yltpSeeds = <<1>>],
   b62c |-> [HybridVH EXCEPT !.useLH = TRUE, !.yltpSeeds = <<1>>],
   b62d |-> [Spirals(<<At(95, 95)>>) EXCEPT !.useLH = TRUE],
   b62f |-> Spirals(<<At(95, 95), At(0, 0)>>),
   b62g |-> TwoSpirals,
   b62h |-> [TwoSpirals EXCEPT !.rltpMaxLines = Length(64), !.rltpTier3Width = 16],
   b62e |-> Spirals(<<At(95, 95)>>),
   b62b |-> [HybridVH EXCEPT !.yltpSeeds = <<1, 2>>],
   all16_cascade |->
     [VHCascade EXCEPT !.useLH = TRUE, !.dhBits = 16, !.lhBits = 16, !.vhBits = 16],
   b62j |-> [TwoSpirals EXCEPT !.useXSMSums = FALSE],
   b62l |-> [TwoSpirals EXCEPT !.useDSMSums = FALSE],
   b62k |-> [TwoSpirals EXCEPT !.useDSMSums = FALSE, !.useXSMSums = FALSE]]

Base63 ==
  [Config EXCEPT !.rltpCentres = <<At(63, 63)>>, !.rltpCrcOnly = TRUE,
                 !.rltpMaxLines = Length(16), !.useVHInCascade = TRUE, !.cascade = TRUE,
                 !.cascadeMaxLen = Length(64), !.hybridWidths = TRUE, !.useXSMSums = FALSE]

\* makeGrid: n centres on the smallest square grid that has room for them.
Grid(n) ==
  LET side == CHOOSE k \in 1..n : k * k >= n /\ (k - 1) * (k - 1) < n
  IN  [i \in 1..n |-> <<(kS * ((i - 1) \div side)) \div side, (kS * ((i - 1) % side)) \div side>>]

WithGrid(cfg, n) == [cfg EXCEPT !.rltpCentres = @ \o Grid(n)]
NoLineSums == [Base63 EXCEPT !.useLSMSums = FALSE, !.useVSMSums = FALSE]

\* B.63c and its trade-offs.
TradeOffConfigs ==
  [b63c |-> [Base63 EXCEPT !.hybrid = TRUE],
   b63n |-> [Base63 EXCEPT !.hybrid = TRUE],
   b63k0 |-> Base63,
   b63k1 |-> WithGrid([Base63 EXCEPT !.useLH = FALSE], 21),
   b63k2 |-> WithGrid([Base63 EXCEPT !.useVH = FALSE], 21),
   b63k3 |-> WithGrid(NoLineSums, 9),
   b63k4 |-> WithGrid([NoLineSums EXCEPT !.useLH = FALSE], 30),
   b63k5 |-> WithGrid([NoLineSums EXCEPT !.useVH = FALSE], 30),
   b63k6 |-> WithGrid([Base63 EXCEPT !.useLH = FALSE, !.useVH = FALSE], 42)]

\* B.63i, B.63a and the last of B.62.
AblationConfigs ==
  [b63i_no_lh |-> [Base63 EXCEPT !.useLH = FALSE],
   b63i_no_vh |-> [Base63 EXCEPT !.useVH = FALSE, !.useVHInCascade = FALSE],
   b63i_no_rltp |-> [Base63 EXCEPT !.rltpCentres = <<>>],
   b63i_no_dh |-> [Base63 EXCEPT !.cascade = FALSE],
   b63a1 |-> [Config EXCEPT !.useXSMSums = FALSE],
   b63a2 |-> [Base63 EXCEPT !.rltpCentres = <<>>],
   b63a3 |-> [Base63 EXCEPT !.rltpCentres = <<>>],
   b63a4 |-> Base63,
   b63a5 |-> [Base63 EXCEPT !.rltpMaxLines = Length(32)],
   b63a6 |-> [Base63 EXCEPT !.dhBits = 16, !.cascadeMaxLen = Length(32)],
   b63a7 |-> [Base63 EXCEPT !.useVH = FALSE, !.useVHInCascade = FALSE],
   b63a8 |-> [Base63 EXCEPT !.rltpCentres = <<>>, !.cascadeMaxLen = 0],
   b62m |-> [TwoSpirals EXCEPT !.useLH = TRUE, !.rltpMaxLines = Length(16), !.hybrid = TRUE],
   b62i |-> [TwoSpirals EXCEPT !.rltpMaxLines = Length(191), !.rltpTier3Width = 16,
                               !.rltpTier5Width = 8]]
===============================================================================
