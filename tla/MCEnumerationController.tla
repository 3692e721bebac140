------------------------ MODULE MCEnumerationController ------------------------
(***************************************************************************)
(* TLC instances of EnumerationController: LTP tables, row digests and the *)
(* blocks to solve.                                                        *)
(***************************************************************************)
EXTENDS EnumerationController

\* Partition tables whose lines repeat the rows and the columns: the weakest
\* tables, which leave the search the most to decide.
LtpRows    == [x \in (0..kS-1) \X (0..kS-1) |-> x[1]]
LtpColumns == [x \in (0..kS-1) \X (0..kS-1) |-> x[2]]

\* A digest without collisions, and one with nothing but collisions.
RowDigest(assumption, row) == IF assumption = "exact" THEN row ELSE {}

Matrix(rows) == [x \in Cells |-> rows[x[1] + 1][x[2] + 1]]

Damaged(b) == [b EXCEPT !.target[RowOf(0)] = (@ + 1) % (kS + 1)]
WrongHash(b) == [b EXCEPT !.lh[0] = {-1}]

\* kS = 5: decided by propagation; two matrices with the same sums; five, on
\* four nested levels; forced cells left behind by a contradiction, in harmless
\* and harmful places and below other branches; calls after a failed one.
Determined  == Matrix(<< <<0,0,1,0,1>>, <<1,1,1,0,0>>, <<1,0,1,1,0>>, <<1,1,0,0,1>>, <<0,0,0,0,1>> >>)
TwoFold     == Matrix(<< <<1,0,1,1,1>>, <<0,1,0,1,0>>, <<1,1,1,1,0>>, <<1,0,1,0,1>>, <<0,1,1,0,0>> >>)
FiveFold    == Matrix(<< <<1,1,0,1,0>>, <<0,0,1,1,0>>, <<1,1,0,0,0>>, <<0,0,1,1,1>>, <<0,1,0,0,0>> >>)
LeakFound   == Matrix(<< <<1,0,1,1,0>>, <<1,0,1,0,1>>, <<1,0,1,1,1>>, <<0,0,0,1,0>>, <<0,1,0,0,0>> >>)
LeakTwoFold == Matrix(<< <<1,0,1,0,1>>, <<1,1,0,0,0>>, <<0,1,1,1,0>>, <<1,0,1,0,0>>, <<0,0,1,0,0>> >>)
LeakLost    == Matrix(<< <<0,1,0,0,0>>, <<0,0,0,1,0>>, <<1,0,1,1,1>>, <<1,0,1,0,1>>, <<1,0,1,1,0>> >>)
LeakLostTwo == Matrix(<< <<0,0,1,0,0>>, <<0,0,1,0,1>>, <<1,1,1,0,0>>, <<0,1,1,1,0>>, <<0,1,0,0,1>> >>)
LeakDeep    == Matrix(<< <<0,0,0,1,0>>, <<1,0,1,1,0>>, <<1,1,1,0,1>>, <<0,1,0,1,0>>, <<0,1,0,0,1>> >>)
Cascades5   == Matrix(<< <<1,0,0,1,1>>, <<1,0,1,0,0>>, <<1,1,1,0,1>>, <<0,1,1,1,1>>, <<1,1,0,0,1>> >>)

Blocks5 ==
  LET of(h) ==
        {BlockOf(m, h) : m \in {Determined, TwoFold, FiveFold, LeakFound, LeakTwoFold,
                                LeakLost, LeakLostTwo, LeakDeep, Cascades5}}
          \cup {Damaged(BlockOf(TwoFold, h)), WrongHash(BlockOf(TwoFold, h))}
  IN  of("exact") \cup of("weak")

\* The matrices with a single 1 in each row of the smallest pattern that can be
\* swapped without changing a row, column or diagonal sum, and 0 elsewhere.
Ring == {<<0,1>>, <<0,2>>, <<1,0>>, <<1,3>>, <<2,0>>, <<2,3>>, <<3,1>>, <<3,2>>}

BlocksRing ==
  {BlockOf([x \in Cells |-> IF x \in S THEN 1 ELSE 0], "weak") :
     S \in {T \in SUBSET Ring : \A r \in 0..3 : Cardinality({x \in T : x[1] = r}) = 1}}

BlocksAll == Blocks5 \cup BlocksRing

\* kS = 7: many contradictions, each after a long cascade.
Cascades7 == Matrix(<< <<1,0,1,0,0,1,0>>, <<1,1,1,0,1,0,0>>, <<1,1,0,0,1,0,1>>, <<1,1,1,1,0,0,0>>,
                       <<1,1,0,1,0,1,0>>, <<0,1,0,0,0,0,1>>, <<1,1,0,1,1,0,0>> >>)

Blocks7 == {BlockOf(Cascades7, "weak")}
===============================================================================
