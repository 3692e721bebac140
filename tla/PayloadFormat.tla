----------------------------- MODULE PayloadFormat -----------------------------
(***************************************************************************)
(* common/Format/CompressedPayload, with common/Csm, common/CrossSum and   *)
(* the digests: what the compressor computes from a block and how the sums *)
(* are packed, most significant bit first and in as many bits as the       *)
(* longest line of their kind needs.  Digests are opaque values.           *)
(***************************************************************************)
EXTENDS LtpTable

CONSTANT RowDigest(_)  \* LateralHash: the digest of a row given as its 1 columns

Bit == {0, 1}
Matrices == [Cells -> Bit]
ByteBits == 8
Bytes(bits) == (bits + ByteBits - 1) \div ByteBits

kDiagCount == 2 * kS - 1
kBlockBits == kS * kS

\* value >> 0, value >> 1, and so on.
Shifted(value) ==
  LET right[i \in Nat] == IF i = 0 THEN value ELSE right[i - 1] \div 2
  IN  right

\* std::bit_width
BitWidth(n) == CHOOSE w \in 0..n : Shifted(n)[w] = 0 /\ \A i \in 0..(w - 1) : Shifted(n)[i] # 0

diagLen(k) == Min({k + 1, kS, kDiagCount - k})

\* A variant with room for the values below the length only.
diagBitsNarrow(k) == BitWidth(diagLen(k) - 1)
diagBits(k) == BitWidth(diagLen(k))

\* The cross-sum vectors in the order they are packed, with the width of entry k.
Vectors ==
  LET uniform(name) == [k \in 1..kS |-> <<name, k - 1, BitWidth(kS)>>]
      diagonal(name) == [k \in 1..kDiagCount |-> <<name, k - 1, diagBits(k - 1)>>]
  IN  uniform("lsm") \o uniform("vsm") \o diagonal("dsm") \o diagonal("xsm")
        \o uniform("ltp1sm") \o uniform("ltp2sm")

\* CrossSumVector::lineIndex of each family; a cell that no second table names
\* is counted in none of its lines.
SumsOf(ltp, m) ==
  LET ones == {x \in Cells : m[x] = 1}
      count(on(_), n) == [k \in 0..(n - 1) |-> Cardinality({x \in ones : on(x) = k})]
      partition(s) == IF s \in DOMAIN ltp.fwd THEN count(LAMBDA x : ltp.fwd[s][x], kS)
                      ELSE [k \in Index |-> 0]
  IN  [lsm |-> count(LAMBDA x : x[1], kS),
       vsm |-> count(LAMBDA x : x[2], kS),
       dsm |-> count(LAMBDA x : x[2] - x[1] + kS - 1, kDiagCount),
       xsm |-> count(LAMBDA x : x[1] + x[2], kDiagCount),
       ltp1sm |-> partition(1),
       ltp2sm |-> partition(2)]

computeLH(m) == [r \in Index |-> RowDigest({c \in Index : m[<<r, c>>] = 1})]

\* computeCrossSums, computeLH and computeBH; SHA-256 is taken to be exact.
PayloadOf(ltp, m) == [sums |-> SumsOf(ltp, m), lh |-> computeLH(m), bh |-> m]

packBits(value, n) == [i \in 1..n |-> Shifted(value)[n - i] % 2]

\* What the first i bits say.
Reading(bits) ==
  LET value[i \in 0..Len(bits)] == IF i = 0 THEN 0 ELSE 2 * value[i - 1] + bits[i]
  IN  value

unpackBits(bits) == Reading(bits)[Len(bits)]

\* The bits of the first i entries of Vectors.
Packing(sums) ==
  LET bits[i \in 0..Len(Vectors)] ==
        IF i = 0 THEN <<>>
        ELSE LET v == Vectors[i] IN bits[i - 1] \o packBits(sums[v[1]][v[2]], v[3])
  IN  bits

serializeBlock(payload, di) ==
  [lh   |-> payload.lh,
   bh   |-> payload.bh,
   di   |-> di,
   bits |-> Packing(payload.sums)[Len(Vectors)]]

\* Where entry i of Vectors ends, and the next one starts.
BitOffset[i \in 0..Len(Vectors)] == IF i = 0 THEN 0 ELSE BitOffset[i - 1] + Vectors[i][3]

deserializeBlock(block) ==
  LET entry(name, k) ==
        LET i == CHOOSE n \in DOMAIN Vectors : Vectors[n][1] = name /\ Vectors[n][2] = k
        IN  unpackBits(SubSeq(block.bits, BitOffset[i - 1] + 1, BitOffset[i]))
      vector(name, n) == [k \in 0..(n - 1) |-> entry(name, k)]
  IN  [sums |-> [lsm |-> vector("lsm", kS), vsm |-> vector("vsm", kS),
                 dsm |-> vector("dsm", kDiagCount), xsm |-> vector("xsm", kDiagCount),
                 ltp1sm |-> vector("ltp1sm", kS), ltp2sm |-> vector("ltp2sm", kS)],
       lh |-> block.lh, bh |-> block.bh]

kHeaderBytes == 28
kLHDigestBytes == 4
kBHDigestBytes == 32
kBlockPayloadBytes ==
  kS * kLHDigestBytes + kBHDigestBytes + 1
    + Bytes(BitOffset[Len(Vectors)])

-------------------------------------------------------------------------------
(* Files as sequences of bits, blocks as matrices.                         *)

BlockCount(bits) == (Len(bits) + kBlockBits - 1) \div kBlockBits

BlockBits(file, b) ==
  SubSeq(file, b * kBlockBits + 1, Min({(b + 1) * kBlockBits, Len(file)}))

\* Csm::set of the bits in row-major order; the cells beyond them stay 0.
loadCsm(bits) == [x \in Cells |-> IF Flat(x) + 1 \in DOMAIN bits THEN bits[Flat(x) + 1] ELSE 0]

\* Csm::vec: whole bytes, the last one filled up with 0.
vec(m) == [i \in 1..(Bytes(kBlockBits) * ByteBits) |->
             IF i <= kBlockBits THEN m[CellAt(i - 1)] ELSE 0]
===============================================================================
