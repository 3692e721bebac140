------------------------------ MODULE MCFileCodec ------------------------------
(***************************************************************************)
(* TLC instances of TestRunners: 5 x 5 blocks, 25 bits each, so that blocks  *)
(* after the first start at a bit inside a byte as those of 127 x 127 do.  *)
(***************************************************************************)
EXTENDS TestRunners

\* A row hash that tells no rows apart leaves the most candidates.
NoRowDigest(row) == {}

Seeds5 == <<11, 7>>

Matrix(rows) == [x \in Cells |-> rows[x[1] + 1][x[2] + 1]]

\* Five matrices whose rows, columns and diagonals have the same sums, in
\* lexicographic order, and a pair.
Five1 == Matrix(<< <<1,0,1,1,0>>, <<1,0,1,0,0>>, <<0,1,0,1,0>>, <<0,1,0,1,1>>, <<0,1,0,0,0>> >>)
Five2 == Matrix(<< <<1,1,0,1,0>>, <<0,0,1,1,0>>, <<1,1,0,0,0>>, <<0,0,1,1,1>>, <<0,1,0,0,0>> >>)
Five3 == Matrix(<< <<1,1,0,1,0>>, <<0,1,0,1,0>>, <<0,1,0,1,0>>, <<1,0,1,0,1>>, <<0,0,1,0,0>> >>)
Five4 == Matrix(<< <<1,1,0,1,0>>, <<0,1,1,0,0>>, <<0,0,0,1,1>>, <<1,1,1,0,0>>, <<0,0,0,1,0>> >>)
Five5 == Matrix(<< <<1,1,1,0,0>>, <<0,0,1,0,1>>, <<0,1,0,1,0>>, <<1,1,0,1,0>>, <<0,0,0,1,0>> >>)
Pair1 == Matrix(<< <<1,0,1,1,1>>, <<0,1,0,1,0>>, <<1,1,1,1,0>>, <<1,0,1,0,1>>, <<0,1,1,0,0>> >>)
Pair2 == Matrix(<< <<1,0,1,1,1>>, <<0,1,1,0,0>>, <<1,0,1,1,1>>, <<1,1,1,0,0>>, <<0,1,0,1,0>> >>)

BitsOf(m) == SubSeq(vec(m), 1, kBlockBits)
FirstBytes(bits, n) == SubSeq(bits, 1, n * ByteBits)

\* No byte; all ones; one block at places 0, 1 and 3; two and three blocks.
Files5 ==
  {<<>>, [i \in 1..48 |-> 1]}
    \cup {FirstBytes(vec(m), 3) : m \in {Five1, Five2, Five4, Pair2}}
    \cup {FirstBytes(BitsOf(Five3) \o vec(Pair1), 6), FirstBytes(BitsOf(Five2) \o BitsOf(Five3) \o vec(Five1), 7)}

\* The runners' block has 7 x 7 bits, larger than the real one as in the code, so
\* that the second size is three real blocks.
Sizes5  == [p \in PatternRunners |-> <<1, 2>>]
Random5 == {FirstBytes(BitsOf(Five3) \o vec(Pair1), 6), FirstBytes(BitsOf(Five1) \o BitsOf(Five4), 6)}
Useless5 == FirstBytes(BitsOf(Five4) \o vec(Five1), 6)
PatternFiles5 ==
  LET Sizes == {min_bytes_for_n_blocks(n) : n \in {1, 2}}
  IN  {write_one_file(b) : b \in Sizes} \cup {write_zero_file(b) : b \in Sizes}
        \cup {write_alternating10_file(b) : b \in Sizes} \cup {write_alternating01_file(b) : b \in Sizes}

BlocksOfFile(file) == {loadCsm(BlockBits(file, b - 1)) : b \in 1..BlockCount(file)}

Known5 == {Five1, Five2, Five3, Five4, Five5, Pair1, Pair2} \cup UNION {BlocksOfFile(f) : f \in Files5 \cup PatternFiles5 \cup Random5}
Lost5 == {Pair2}

\* Five1 with a one moved to the next row, and so wrong in several sums.
Mistaken5 == {[Five1 EXCEPT ![<<3, 1>>] = 0, ![<<4, 2>>] = 1]}

RowTable    == [x \in Cells |-> x[1]]
ColumnTable == [x \in Cells |-> x[2]]

File(header, n, assign) == [header |-> header, numSub |-> n, assign |-> assign]

\* Tables that repeat rows and columns, one table only, files that are not taken
\* (a line too long, a table missing, a bad header), seeds.
Environments5 ==
  {[file |-> f, seeds |-> s] :
     f \in {Unset, File(TRUE, 2, <<RowTable, ColumnTable>>), File(TRUE, 1, <<ColumnTable>>),
            File(TRUE, 2, <<RowTable, [ColumnTable EXCEPT ![<<0, 0>>] = 1]>>),
            File(TRUE, 2, <<RowTable>>), File(FALSE, 1, <<RowTable>>)},
     s \in {<<Unset, Unset>>, <<3, Unparseable>>}}
===============================================================================
