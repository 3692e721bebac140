-------------------------------- MODULE Sidecars --------------------------------
(***************************************************************************)
(* The sidecar files of RowDecomposedController, named by the environment  *)
(* and not carried by a packed file: partitions of the cells with the      *)
(* parity of each line (B.44c), CRC-32s of parts of rows (B.44d), and      *)
(* further lines with their sums (B.45).                                   *)
(*                                                                         *)
(* The solver keeps counters per line and a log by which they are taken    *)
(* back.  Here the log is all there is: what a counter says is read from   *)
(* the cells counted so far, those assigned at loading first.              *)
(***************************************************************************)
EXTENDS RowSolving

CONSTANT kBlockSize   \* columns of a part of a row (64 in the code)

ASSUME kBlockSizeAssumption == kBlockSize \in Nat \ {0}

\* What a file can hold, whatever it says.
ASSUME SidecarFilesAssumption ==
  \A b \in Blocks : \A s \in SidecarFiles(b) :
    /\ s.parity \in Seq([line : [Cells -> Int], target : [Index -> Int]])
    /\ \A i \in 1..Len(s.sums) : IsFiniteSet(DOMAIN s.sums[i].sums)
    /\ Len(s.sums) \in Nat /\ DOMAIN s.sums = 1..Len(s.sums)

NoSidecar == [parity |-> <<>>, sums |-> <<>>, blocks |-> <<>>]

Kinds == {"parity", "sums", "blocks"}

Loaded(kind) == sidecar[kind] # <<>>

Entries(xs) == [i \in DOMAIN xs |-> <<xs[i], cells[xs[i]]>>]

CountedAtLoad ==
  LET assigned == InRowOrder({x \in Cells : cells[x] # Unassigned})
  IN  [kind \in Kinds |-> IF Loaded(kind) THEN Entries(assigned) ELSE <<>>]

\* b44cAssign, b45Assign, b44dOnAssign: l are the locals, kind the sidecar.
Counting(l, kind, entries) ==
  IF Loaded(kind) THEN [l EXCEPT !.counted[kind] = @ \o entries] ELSE l

\* A save point in each log, and the way back to the last one.
Marked(l) == [l EXCEPT !.marks = Append(@, [kind \in Kinds |-> Len(l.counted[kind])])]

Unwound(l) ==
  [l EXCEPT !.counted = [kind \in Kinds |-> SubSeq(@[kind], 1, Last(l.marks)[kind])],
            !.marks = Front(@)]

EntriesOn(log, S)   == {i \in DOMAIN log : log[i][1] \in S}
CountedOn(kind, S)  == Cardinality(EntriesOn(locals.counted[kind], S))
SumCounted(kind, S) ==
  Cardinality({i \in EntriesOn(locals.counted[kind], S) : locals.counted[kind][i][2] = 1})

OpenOf(S) == {x \in S : cells[x] = Unassigned}

\* Partition p's line k.
b44cLineCells(p, k) == {x \in Cells : sidecar.parity[p].line[x] = k}

\* Parity lines with one unknown left: the first free cell found on each.
b44cCheckForcing ==
  LET cellsOf(e) == b44cLineCells(e[1], e[2])
      lines == FlattenSeq([p \in DOMAIN sidecar.parity |-> [k \in 1..kS |-> <<p, k - 1>>]])
      due == Kept(lines, {e \in Range(lines) : /\ kS - CountedOn("parity", cellsOf(e)) = 1
                                               /\ OpenOf(cellsOf(e)) # {}})
  IN  [i \in DOMAIN due |->
         [cell  |-> FirstOf(OpenOf(cellsOf(due[i]))),
          value |-> (sidecar.parity[due[i][1]].target[due[i][2]]
                       + SumCounted("parity", cellsOf(due[i]))) % 2]]

\* The lines of the uniform partitions, which give no lengths, and of the others.
\* A line's length is what the file says; nothing compares it with its cells.
b45Lines ==
  LET linesOf(p) ==
        [i \in 1..Cardinality(DOMAIN p.sums) |->
           [cells  |-> {x \in Cells : p.line[x] = i - 1},
            target |-> p.sums[i - 1],
            length |-> IF p.lengths = <<>> THEN kS ELSE p.lengths[i - 1]]]
  IN  FlattenSeq([i \in DOMAIN sidecar.sums |-> linesOf(sidecar.sums[i])])

\* Sum lines whose unknowns are all 0 or all 1.
b45CheckForcing ==
  LET due(line) ==
        LET rho == line.target - SumCounted("sums", line.cells)
            u   == line.length - CountedOn("sums", line.cells)
            as(value) == LET open == InRowOrder(OpenOf(line.cells))
                         IN  [i \in DOMAIN open |-> [cell |-> open[i], value |-> value]]
        IN  IF u = 0 THEN <<>> ELSE IF rho = 0 THEN as(0) ELSE IF rho = u THEN as(1) ELSE <<>>
  IN  FlattenSeq([i \in DOMAIN b45Lines |-> due(b45Lines[i])])

CheckForcing(kind) == IF kind = "parity" THEN b44cCheckForcing ELSE b45CheckForcing

\* The part of a row a cell is in, and its digest.
BlockOfCell(x)  == {<<x[1], c>> : c \in {d \in Index : d \div kBlockSize = x[2] \div kBlockSize}}
BlockDigest(h, x, m) == Digest(h, {y[2] % kBlockSize : y \in BlockOfCell(x) \cap m})

\* The part's unknowns as counted, those of entries too.
BlockUnknowns(x, entries) ==
  Cardinality(BlockOfCell(x)) - CountedOn("blocks", BlockOfCell(x))
    - Cardinality(EntriesOn(entries, BlockOfCell(x)))

\* A part that still has unknowns by the count is not looked at.
b44dVerifyBlock(x, entries) ==
  BlockUnknowns(x, entries) # 0 \/ BlockDigest(hash, x, rowBits) = sidecar.blocks[x]

\* The cells of a wave up to and with the first whose part is wrong; all of them
\* if none is.
Verified(wave) ==
  LET entries == Entries(wave)
      wrong(i) == ~b44dVerifyBlock(wave[i], SubSeq(entries, 1, i))
      bad == {i \in DOMAIN wave : Loaded("blocks") /\ wrong(i)}
  IN  [ok |-> bad = {}, entries |-> IF bad = {} THEN entries ELSE SubSeq(entries, 1, Min(bad))]

-------------------------------------------------------------------------------
\* The sidecars belong to the original.
SidecarFits ==
  LET m == {x \in Cells : original[x] = 1}
  IN  /\ \A p \in DOMAIN sidecar.parity : \A k \in Index :
           sidecar.parity[p].target[k]
             = Cardinality({x \in m : sidecar.parity[p].line[x] = k}) % 2
      /\ \A i \in DOMAIN b45Lines : /\ b45Lines[i].target = Cardinality(b45Lines[i].cells \cap m)
                                    /\ b45Lines[i].length = Cardinality(b45Lines[i].cells)
      /\ Loaded("blocks") => \A x \in Cells : sidecar.blocks[x] = BlockDigest(hash, x, m)
================================================================================
