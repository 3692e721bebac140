---------------------------- MODULE CombinatorSystem ----------------------------
(***************************************************************************)
(* The constraint system of decompress/Solvers/CombinatorSolver: for a     *)
(* kS x kS bit matrix, equations over GF(2) (parities of lines and one     *)
(* equation per bit of a line's CRC) and integer lines (how many ones are  *)
(* left on a line, how many cells are left).  CRC widths keep their names  *)
(* 8, 16 and 32; how many bits each has here is CrcBits.  The line lengths *)
(* at which the code changes widths are multiples of 8: Unit stands for 8. *)
(***************************************************************************)
EXTENDS Integers, Sequences, FiniteSets, Functions, FiniteSetsExt, SequencesExt

CONSTANTS
  kS,         \* matrix dimension (127 in the code, or CRCSE_S)
  Unit,       \* 8 in the code
  CrcBits,    \* CrcBits[w]: the bits of the CRC called w
  Crc(_, _),  \* Crc(w, bits): which of them are 1 for a message
  YltpLine    \* YltpLine[seed][x]: the line of cell x in the shuffled partition

Widths == {8, 16, 32}

ASSUME DimensionAssumption == kS \in Nat \ {0} /\ Unit \in Nat \ {0}
ASSUME WidthAssumption == CrcBits \in [Widths -> Nat \ {0}]

Index == 0..(kS - 1)
Cells == Index \X Index
kN == kS * kS
kDiagCount == 2 * kS - 1

Unassigned == 2   \* cellState_ = -1

Flat(x)  == x[1] * kS + x[2]
RowMajor == [i \in 1..kN |-> <<(i - 1) \div kS, (i - 1) % kS>>]

Zeros(n)   == [i \in 1..n |-> 0]
UnitBit(n, j) == [i \in 1..n |-> IF i = j THEN 1 ELSE 0]

\* A CRC is affine: each message bit flips the same bits of it, whatever the
\* others are.  The generator matrices rest on that.
ASSUME CrcAssumption ==
  \A w \in Widths, n \in 1..kS : \A a \in [1..n -> {0, 1}], j \in 1..n :
    a[j] = 0 => Crc(w, [a EXCEPT ![j] = 1])
                  = SymDiff(Crc(w, a), SymDiff(Crc(w, UnitBit(n, j)), Crc(w, Zeros(n))))

\* A partition cuts a permutation of the cells into lines of kS.
ASSUME YltpAssumption ==
  \A seed \in DOMAIN YltpLine :
    /\ YltpLine[seed] \in [Cells -> Index]
    /\ \A k \in Index : Cardinality({x \in Cells : YltpLine[seed][x] = k}) = kS

\* The members of s that are in S, in their order.
Among(s, S) ==
  FlattenSeq([i \in DOMAIN s |-> IF s[i] \in S THEN <<s[i]>> ELSE <<>>])

Positions(s) == [i \in DOMAIN s |-> i]

\* s by growing key, members with one key in their order.
Inserted(t, x, key) ==
  LET p == Cardinality({k \in DOMAIN t : key[t[k]] <= key[x]})
  IN  SubSeq(t, 1, p) \o <<x>> \o SubSeq(t, p + 1, Len(t))

SortedBy(s, key) ==
  LET sorted[i \in 0..Len(s)] == IF i = 0 THEN <<>> ELSE Inserted(sorted[i - 1], s[i], key)
  IN  sorted[Len(s)]

-------------------------------------------------------------------------------
(* Lines, as the sequences of cells the code makes messages of.            *)

RowCells(r)    == [i \in 1..kS |-> <<r, i - 1>>]
ColumnCells(c) == [i \in 1..kS |-> <<i - 1, c>>]

diagCells(d)     == Among([i \in 1..kS |-> <<i - 1, i - 1 + d - (kS - 1)>>], Cells)
antiDiagCells(d) == Among([i \in 1..kS |-> <<i - 1, d - (i - 1)>>], Cells)

ToroidalDiagCells(k)     == [i \in 1..kS |-> <<i - 1, (k + i - 1) % kS>>]
ToroidalAntiDiagCells(k) == [i \in 1..kS |-> <<i - 1, (k + kS - (i - 1)) % kS>>]

RowLines    == [i \in 1..kS |-> RowCells(i - 1)]
ColumnLines == [i \in 1..kS |-> ColumnCells(i - 1)]
DiagLines     == [i \in 1..kDiagCount |-> diagCells(i - 1)]
AntiDiagLines == [i \in 1..kDiagCount |-> antiDiagCells(i - 1)]

-------------------------------------------------------------------------------
(* Equations [cells, target] (the XOR of the cells is the target) and      *)
(* integer lines [cells, rho, u].  m is the matrix they are made from.     *)

OnesOf(m, S)   == Cardinality({x \in S : m[x] = 1})
Satisfies(m, eq) == OnesOf(m, eq.cells) % 2 = eq.target

Parity(m, line)  == [cells |-> ToSet(line), target |-> OnesOf(m, ToSet(line)) % 2]
IntLine(m, line) == [cells |-> ToSet(line), rho |-> OnesOf(m, ToSet(line)), u |-> Len(line)]

Parities(m, lines) == [i \in DOMAIN lines |-> Parity(m, lines[i])]
IntLines(m, lines) == [i \in DOMAIN lines |-> IntLine(m, lines[i])]

\* buildGenMatrix...ForLength: the CRC of the zero message, and what each
\* message bit adds to it.
crcZero   == [w \in Widths |-> [n \in 1..kS |-> Crc(w, Zeros(n))]]
genMatrix == [w \in Widths |-> [n \in 1..kS |->
                [j \in 1..n |-> SymDiff(Crc(w, UnitBit(n, j)), crcZero[w][n])]]]

LineCrc(w, m, line) == Crc(w, [j \in DOMAIN line |-> m[line[j]]])

\* One equation for each bit of the CRC of a line.
CrcEquations(w, m, line) ==
  LET n   == Len(line)
      crc == LineCrc(w, m, line)
  IN  [b \in 1..CrcBits[w] |->
        [cells  |-> {line[j] : j \in {j \in 1..n : b \in genMatrix[w][n][j]}},
         target |-> IF b \in SymDiff(crc, crcZero[w][n]) THEN 1 ELSE 0]]

AllCrcEquations(w, m, lines) ==
  FlattenSeq([i \in DOMAIN lines |-> CrcEquations(w, m, lines[i])])

\* A variant that counts the ones instead of flipping the target.
SubstituteCounting(rows, known) ==
  [i \in DOMAIN rows |->
     LET hit == rows[i].cells \cap DOMAIN known
     IN  [cells |-> rows[i].cells \ hit, target |-> rows[i].target + OnesOf(known, hit)]]

\* propagateGF2: known cells leave the equations, each 1 flipping the target.
Substitute(rows, known) ==
  [i \in DOMAIN rows |->
     LET hit == rows[i].cells \cap DOMAIN known
     IN  [cells  |-> rows[i].cells \ hit,
          target |-> (rows[i].target + OnesOf(known, hit)) % 2]]

-------------------------------------------------------------------------------
(* buildSystem, one definition per family.  The GF(2) parities are always  *)
(* there; the integer lines only when their sums are part of the payload.  *)

Given(flag, s) == IF flag THEN s ELSE <<>>

ToroidalLines ==
  [i \in 1..kS |-> ToroidalDiagCells(i - 1)] \o [i \in 1..kS |-> ToroidalAntiDiagCells(i - 1)]

\* With their sums, the anti-diagonals' parities are pushed a second time.
GeometricParities(m, cfg) ==
  Parities(m, RowLines \o ColumnLines \o
    (IF cfg.toroidal THEN ToroidalLines
     ELSE DiagLines \o AntiDiagLines \o Given(cfg.useXSMSums, AntiDiagLines)))

GeometricIntLines(m, cfg) ==
  IntLines(m,
    Given(cfg.useLSMSums, RowLines) \o Given(cfg.useVSMSums, ColumnLines) \o
    (IF cfg.toroidal THEN ToroidalLines
     ELSE Given(cfg.useDSMSums, DiagLines) \o Given(cfg.useXSMSums, AntiDiagLines)))

addLH(m)   == AllCrcEquations(32, m, RowLines)
addLH16(m) == AllCrcEquations(16, m, RowLines)
addVH(m)   == AllCrcEquations(32, m, ColumnLines)
addVH16(m) == AllCrcEquations(16, m, ColumnLines)

\* The maxDiags shortest lines (0: all); lines of one length in their order.
Shortest(lines, maxDiags) ==
  LET order == SortedBy(lines, [line \in ToSet(lines) |-> Len(line)])
  IN  SubSeq(order, 1, IF maxDiags \in 1..Len(lines) THEN maxDiags ELSE Len(lines))

addDH(m, cfg) == AllCrcEquations(32, m, Shortest(DiagLines, cfg.dhMaxDiags))
addXH(m, cfg) == AllCrcEquations(32, m, Shortest(AntiDiagLines, cfg.xhMaxDiags))

\* The cascade's families: lines of some lengths, with the cells known by now
\* substituted as the equations are made.
InRange(lines, minLen, maxLen) ==
  Among(lines, {line \in ToSet(lines) : minLen <= Len(line) /\ Len(line) <= maxLen})

addDHRange(m, known, minLen, maxLen) ==
  Substitute(AllCrcEquations(32, m, InRange(DiagLines, minLen, maxLen)), known)
addXHRange(m, known, minLen, maxLen) ==
  Substitute(AllCrcEquations(32, m, InRange(AntiDiagLines, minLen, maxLen)), known)
addDH16Range(m, known, minLen, maxLen) ==
  Substitute(AllCrcEquations(16, m, InRange(DiagLines, minLen, maxLen)), known)
addXH16Range(m, known, minLen, maxLen) ==
  Substitute(AllCrcEquations(16, m, InRange(AntiDiagLines, minLen, maxLen)), known)
addDH8Range(m, known, minLen, maxLen) ==
  Substitute(AllCrcEquations(8, m, InRange(DiagLines, minLen, maxLen)), known)
addXH8Range(m, known, minLen, maxLen) ==
  Substitute(AllCrcEquations(8, m, InRange(AntiDiagLines, minLen, maxLen)), known)

\* yLTP: a shuffled partition into kS lines of kS cells, in row-major order.
YltpLines(seed) ==
  [i \in 1..kS |-> Among(RowMajor, {x \in Cells : YltpLine[seed][x] = i - 1})]

addYLTPWithSeed(m, seed) ==
  Parities(m, YltpLines(seed)) \o AllCrcEquations(32, m, YltpLines(seed))

addYLTP(m, cfg) ==
  FlattenSeq([i \in DOMAIN cfg.yltpSeeds |-> addYLTPWithSeed(m, cfg.yltpSeeds[i])])
YltpIntLines(m, cfg) ==
  FlattenSeq([i \in DOMAIN cfg.yltpSeeds |-> IntLines(m, YltpLines(cfg.yltpSeeds[i]))])

\* rLTP: the cells by distance from a centre (std::sort; cells at one distance
\* are taken in row-major order), cut into lines of 1, 2, 3, ... cells up to
\* maxGrad and, if all lines are wanted, of kS cells after that.
Spiral(centre) ==
  LET distSq == [x \in Cells |-> (x[1] - centre[1]) * (x[1] - centre[1])
                                   + (x[2] - centre[2]) * (x[2] - centre[2])]
  IN  SortedBy(RowMajor, distSq)

RltpLines(cfg, centre) ==
  LET cells   == Spiral(centre)
      maxGrad == IF cfg.rltpMaxLines > 0 THEN Min({cfg.rltpMaxLines, kS}) ELSE kS
      length(k) == IF k <= maxGrad THEN k ELSE kS
      start(k)  == IF k <= maxGrad THEN (k * (k - 1)) \div 2
                   ELSE (maxGrad * (maxGrad + 1)) \div 2 + (k - maxGrad - 1) * kS
      line(k) == SubSeq(cells, start(k) + 1, Min({start(k) + length(k), kN}))
      wanted(k) == start(k) < kN /\ (cfg.rltpMaxLines = 0 \/ k <= maxGrad)
  IN  FlattenSeq([k \in 1..kN |-> IF wanted(k) THEN <<line(k)>> ELSE <<>>])

RltpWidth(cfg, n) ==
  CASE n <= Unit     -> 8
    [] n > Unit     /\ n <= 2 * Unit -> 16
    [] n > 2 * Unit /\ n <= 4 * Unit -> cfg.rltpTier3Width
    [] n > 4 * Unit /\ n <= 8 * Unit -> 32
    [] OTHER -> cfg.rltpTier5Width

addRLTPAt(m, cfg, centre) ==
  LET lines == RltpLines(cfg, centre)
  IN  FlattenSeq([k \in DOMAIN lines |->
        <<Parity(m, lines[k])>> \o CrcEquations(RltpWidth(cfg, Len(lines[k])), m, lines[k])])

addRLTP(m, cfg) ==
  FlattenSeq([i \in DOMAIN cfg.rltpCentres |-> addRLTPAt(m, cfg, cfg.rltpCentres[i])])
RltpIntLines(m, cfg) ==
  Given(~cfg.rltpCrcOnly,
        FlattenSeq([i \in DOMAIN cfg.rltpCentres |->
                      IntLines(m, RltpLines(cfg, cfg.rltpCentres[i]))]))

buildSystem(m, cfg) ==
  GeometricParities(m, cfg)
    \o Given(cfg.useLH, IF cfg.lhBits = 16 THEN addLH16(m) ELSE addLH(m))
    \o Given(cfg.useVH, IF cfg.vhBits = 16 THEN addVH16(m) ELSE addVH(m))
    \o Given(cfg.useDH, addDH(m, cfg))
    \o Given(cfg.useXH, addXH(m, cfg))
    \o addYLTP(m, cfg)
    \o addRLTP(m, cfg)

buildIntLines(m, cfg) ==
  GeometricIntLines(m, cfg) \o YltpIntLines(m, cfg) \o RltpIntLines(m, cfg)
===============================================================================
