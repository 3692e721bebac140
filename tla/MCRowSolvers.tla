------------------------------ MODULE MCRowSolvers ------------------------------
(***************************************************************************)
(* TLC instances of the two row solvers.                                   *)
(***************************************************************************)
EXTENDS RowSolvers

\* Partition tables whose lines repeat the rows and the columns: the weakest.
LtpRows    == [x \in (0..kS-1) \X (0..kS-1) |-> x[1]]
LtpColumns == [x \in (0..kS-1) \X (0..kS-1) |-> x[2]]

\* GF(2)-linear digests: without collisions; of two bits; of one, the parity.
LinearDigest(assumption, S) ==
  LET generator(i) == CASE assumption = "exact" -> {i}
                        [] assumption = "two" -> << {1}, {2}, {1, 2} >>[(i % 3) + 1]
                        [] assumption = "one" -> {1}
  IN  {b \in 0..kS : Cardinality({i \in S : b \in generator(i)}) % 2 = 1}

UniformBeliefs == {[x \in (0..kS-1) \X (0..kS-1) |-> v] : v \in {0, 1}}

Matrix(rows) == [x \in Cells |-> rows[x[1] + 1][x[2] + 1]]

Damaged(b) == [b EXCEPT !.target[RowOf(0)] = (@ + 1) % (kS + 1)]
WrongHash(b) == [b EXCEPT !.lh[0] = {-1}]

AllTriedM ==
  Matrix(<< <<1,0,1,0,1,0,0>>, <<1,0,0,0,0,0,0>>, <<0,0,0,0,0,1,1>>, <<1,0,1,1,1,1,0>>,
            <<1,1,1,0,1,0,1>>, <<1,1,1,0,0,0,1>>, <<1,1,0,1,1,0,0>> >>)
MismatchGivenOut ==
  Matrix(<< <<1,0,0,0,0,0,0>>, <<0,1,0,0,0,1,0>>, <<0,0,1,0,0,1,1>>, <<1,1,1,0,0,0,0>>,
            <<1,0,1,0,0,0,1>>, <<1,1,1,0,1,0,1>>, <<0,0,1,1,1,0,1>> >>)
TwoAnswers ==
  Matrix(<< <<0,1,1,0,0,0,0>>, <<0,0,1,0,1,1,0>>, <<1,0,1,0,1,0,1>>, <<0,1,1,1,0,0,0>>,
            <<0,1,0,1,0,1,1>>, <<0,1,0,1,0,1,0>>, <<0,1,1,1,1,0,1>> >>)
LeftToRight ==
  Matrix(<< <<0,1,0,0,1,0,1>>, <<0,1,0,0,1,1,0>>, <<0,0,1,1,1,0,0>>, <<1,1,0,0,0,0,0>>,
            <<0,0,1,1,0,1,0>>, <<0,1,0,1,0,0,1>>, <<0,1,1,1,0,0,0>> >>)
LostByLeak ==
  Matrix(<< <<1,0,0,0,0,1,0>>, <<1,1,0,1,0,1,0>>, <<0,1,0,0,1,1,1>>, <<0,0,0,0,1,0,1>>,
            <<0,1,0,1,1,0,1>>, <<1,0,0,0,0,0,1>>, <<1,0,1,0,1,0,0>> >>)
IntractableM ==
  Matrix(<< <<1,1,1,0,1,0,1>>, <<0,0,1,0,1,0,1>>, <<0,0,1,1,0,0,0>>, <<1,1,0,1,0,1,1>>,
            <<0,0,1,1,0,0,0>>, <<0,1,1,1,1,0,1>>, <<1,1,0,1,1,0,1>> >>)
Determined == [x \in Cells |-> IF x[1] <= x[2] THEN 1 ELSE 0]
LeakThenFound ==
  Matrix(<< <<0,0,0,1,1,1,1>>, <<1,1,1,1,0,0,0>>, <<1,0,0,0,0,1,0>>, <<0,0,0,1,1,1,0>>,
            <<0,1,0,0,1,0,1>>, <<1,1,1,1,0,1,0>>, <<1,1,1,1,0,1,1>> >>)
HashRefuted ==
  Matrix(<< <<1,0,0,1,0,1,0>>, <<1,1,1,1,0,0,1>>, <<1,0,0,0,1,1,1>>, <<0,1,1,1,1,0,1>>,
            <<0,1,1,0,1,0,0>>, <<1,0,1,1,1,1,0>>, <<0,0,1,0,0,1,0>> >>)

Matrices7 == {IntractableM, Determined, AllTriedM, MismatchGivenOut, TwoAnswers, LeftToRight, LostByLeak, LeakThenFound, HashRefuted}

Genuine7 == {BlockOf(m, h) : m \in Matrices7, h \in {"two", "one", "exact"}}

Blocks7 == Genuine7 \cup {Damaged(b) : b \in Genuine7} \cup {WrongHash(b) : b \in Genuine7}

Probed7 ==
  {BlockOf(LostByLeak, "exact"), WrongHash(BlockOf(LostByLeak, "exact")),
   BlockOf(LeftToRight, "one"), BlockOf(Determined, "two"), WrongHash(BlockOf(Determined, "two"))}
DeepCells7 == {<<0, 0>>, <<0, 3>>, <<3, 3>>, <<5, 1>>, <<6, 6>>}

\* Two slopes as partitions with parities; one more, and lines of uneven lengths, with
\* sums; all parts of rows; all of these; those of another block, as when one file
\* serves a packed file of several; none.
Slope(n) == [x \in Cells |-> (n * x[1] + x[2]) % kS]
Corner   == [x \in Cells |-> IF x[1] + x[2] < 5 THEN x[1] + x[2] ELSE 5]

CountOn(m, line, k) == Cardinality({x \in Bits(m) : line[x] = k})

ParityOf(m) ==
  [p \in 1..2 |-> [line   |-> Slope(p + 1),
                   target |-> [k \in Index |-> CountOn(m, Slope(p + 1), k) % 2]]]

SumsOf(m) ==
  << [line |-> Slope(4), lengths |-> <<>>, sums |-> [k \in Index |-> CountOn(m, Slope(4), k)]],
     [line |-> Corner, sums |-> [k \in 0..5 |-> CountOn(m, Corner, k)],
      lengths |-> [k \in 0..5 |-> Cardinality({x \in Cells : Corner[x] = k})]] >>

BlocksOf(b, m) == [x \in Cells |-> BlockDigest(b.hash, x, Bits(m))]

Sidecars7(b) ==
  LET of(m) == [parity |-> ParityOf(m), sums |-> SumsOf(m), blocks |-> BlocksOf(b, m)]
      whole == of(b.original)
  IN  {NoSidecar}
        \cup IF b \in Genuine7 /\ b.hash # "exact" /\ b.original \in {IntractableM, TwoAnswers}
             THEN {[NoSidecar EXCEPT !.parity = whole.parity], [NoSidecar EXCEPT !.sums = whole.sums],
                   [NoSidecar EXCEPT !.blocks = whole.blocks], whole, of(LeakThenFound)}
             ELSE {}
===============================================================================
