------------------------------- MODULE FileCodec -------------------------------
(***************************************************************************)
(* The commands compress and decompress: argument checks, the packed file  *)
(* written block by block, the discovery of each block's disambiguation    *)
(* index (DI), and the way back.  A command may be killed at any point, a  *)
(* write may fail, a search may run out of time; the user may remove what  *)
(* a failed command left and try again.                                    *)
(*                                                                         *)
(* The search of EnumerationController is known here by the matrices of a  *)
(* description in lexicographic order, some of them lost (it violates      *)
(* OriginalEnumerated); both commands enumerate alike.  Of the other       *)
(* search, RowDecomposedController's, nothing is promised: it may miss the *)
(* block through cells it leaked, and give out a matrix with wrong row     *)
(* digests (it violates MismatchAbandoned).  Mistaken is whatever it gives *)
(* out besides the matrices of a description, as large a set as you like.  *)
(***************************************************************************)
EXTENDS PayloadFormat

CONSTANTS
  Sources,       \* the files to pack, as sequences of bits
  Environments,  \* what the environment says of the LTP tables
  Known,         \* the matrices searches are run over
  Lost,          \* those of Known the enumeration never reaches
  Mistaken,      \* what the row search gives out that has not the description
  DILimit,       \* 256 in the code
  MaxAttempts,   \* bound on the commands the user starts
  NoFile,
  Foreign        \* a file that is not a packed one

\* Files are whole bytes; an LTPB file gives every cell a line; what the
\* searches are run over are blocks.
IsFile(bits) == bits \in Seq(Bit) /\ Len(bits) % ByteBits = 0

ASSUME SourcesAssumption == \A f \in Sources : IsFile(f)
ASSUME EnvironmentsAssumption ==
  \A env \in Environments :
    /\ \A s \in 1..2 : env.seeds[s] \in Nat \cup {Unset, Unparseable}
    /\ env.file # Unset => env.file.assign \in Seq([Cells -> Nat])
ASSUME KnownAssumption == \A m \in Known \cup Mistaken : m \in Matrices
ASSUME BoundsAssumption == DILimit \in Nat \ {0} /\ MaxAttempts \in Nat

VARIABLES
  source,      \* the file to pack
  ltp,         \* the LTP tables both commands build
  disableDI,   \* DISABLE_COMPRESS_DI
  packed,      \* NoFile, Foreign, or [header, blocks, torn]
  restored,    \* NoFile, or [bits, whole]
  pc,
  bad,         \* the output stream has failed
  block,       \* the block being worked on, counted from 0
  payload,     \* its description: computed by compress, read by decompress
  position,    \* diCounter or count: candidates seen
  buffer,      \* outputBuffer of decompress, in bits
  exit,        \* how the last command ended
  attempts

input   == <<source, ltp, disableDI>>
files   == <<packed, restored>>
work    == <<bad, block, payload, position, buffer>>
vars    == <<input, files, pc, work, exit, attempts>>

NoPayload == <<>>

Init ==
  /\ source \in Sources
  /\ \E env \in Environments : ltp = getLtpData(env)
  /\ disableDI \in BOOLEAN
  /\ packed \in {NoFile, Foreign}
  /\ restored = NoFile
  /\ pc = "shell"
  /\ bad = FALSE /\ block = 0 /\ payload = NoPayload /\ position = 0 /\ buffer = <<>>
  /\ exit = "none"
  /\ attempts = 0

\* How far a candidate agrees with a description is all a search looks at.
Fits(m, p) == SumsOf(ltp, m) = p.sums /\ computeLH(m) = p.lh

RowMajorLess(a, b) ==
  \E x \in Cells : /\ a[x] < b[x]
                   /\ \A y \in Cells : Flat(y) < Flat(x) => a[y] = b[y]

\* EnumerationController::enumerateSolutionsLex
Candidates(p) == SortSeq(SetToSeq({m \in Known \ Lost : Fits(m, p)}), RowMajorLess)

Original == loadCsm(BlockBits(source, block))

\* Refused by the argument parser, failed at work, killed.
Failures == {"refused", "error", "killed"}

Return(code) == pc' = "shell" /\ exit' = code

Started == attempts < MaxAttempts /\ attempts' = attempts + 1

-------------------------------------------------------------------------------
(* compress                                                                *)

\* ArgParser: an output that exists is never overwritten.
CompressRefused ==
  /\ pc = "shell" /\ Started
  /\ packed # NoFile
  /\ Return("refused")
  /\ UNCHANGED <<input, files, work>>

\* The header names the final number of blocks before any is written.
CompressOpen ==
  /\ pc = "shell" /\ Started
  /\ packed = NoFile
  /\ packed' = [header |-> [size |-> Len(source) \div ByteBits, blockCount |-> BlockCount(source)],
                blocks |-> <<>>, torn |-> FALSE]
  /\ bad' = FALSE /\ block' = 0
  /\ pc' = "compress"
  /\ exit' = "none"
  /\ UNCHANGED <<input, restored, payload, position, buffer>>

StartBlock ==
  /\ pc = "compress" /\ block < BlockCount(source)
  /\ payload' = PayloadOf(ltp, Original)
  /\ position' = 0
  /\ pc' = IF disableDI THEN "write" ELSE "discoverDI"
  /\ UNCHANGED <<input, files, bad, block, buffer, exit, attempts>>

\* A variant that counts the candidate before it compares it.
FoundDILate ==
  /\ pc = "discoverDI"
  /\ position < Len(Candidates(payload)) /\ Candidates(payload)[position + 1] = Original
  /\ position' = position + 1
  /\ pc' = "write"
  /\ UNCHANGED <<input, files, bad, block, payload, buffer, exit, attempts>>

\* discoverDI: position is the candidate's place in the enumeration.
FoundDI ==
  /\ pc = "discoverDI"
  /\ position < Len(Candidates(payload)) /\ Candidates(payload)[position + 1] = Original
  /\ pc' = "write"
  /\ UNCHANGED <<input, files, work, exit, attempts>>

\* A variant without the limit.
OtherCandidateUnchecked ==
  /\ pc = "discoverDI"
  /\ position < Len(Candidates(payload)) /\ Candidates(payload)[position + 1] # Original
  /\ position' = position + 1
  /\ UNCHANGED <<input, files, pc, bad, block, payload, buffer, exit, attempts>>

OtherCandidate ==
  /\ pc = "discoverDI"
  /\ position < Len(Candidates(payload)) /\ Candidates(payload)[position + 1] # Original
  /\ position + 1 < DILimit
  /\ position' = position + 1
  /\ UNCHANGED <<input, files, pc, bad, block, payload, buffer, exit, attempts>>

DIOverflow ==
  /\ pc = "discoverDI"
  /\ position < Len(Candidates(payload)) /\ Candidates(payload)[position + 1] # Original
  /\ position + 1 >= DILimit
  /\ Return("error")
  /\ UNCHANGED <<input, files, work, attempts>>

\* The deadline is looked at after a candidate arrived, before it is compared.
DITimeout ==
  /\ pc = "discoverDI" /\ position < Len(Candidates(payload))
  /\ Return("error")
  /\ UNCHANGED <<input, files, work, attempts>>

DINotFound ==
  /\ pc = "discoverDI" /\ position = Len(Candidates(payload))
  /\ Return("error")
  /\ UNCHANGED <<input, files, work, attempts>>

\* A variant that counts the blocks in the header as they are written.
WriteBlockCounting ==
  /\ pc = "write"
  /\ packed' = [packed EXCEPT !.blocks = Append(@, serializeBlock(payload, position)),
                              !.header.blockCount = block + 1]
  /\ block' = block + 1
  /\ pc' = "compress"
  /\ UNCHANGED <<input, restored, bad, payload, position, buffer, exit, attempts>>

\* Once a write has failed the stream drops all that follow; the loop goes on.
WriteBlock ==
  /\ pc = "write"
  /\ \/ /\ ~bad
        /\ packed' = [packed EXCEPT !.blocks = Append(@, serializeBlock(payload, position))]
        /\ UNCHANGED bad
     \/ /\ ~bad
        /\ packed' = [packed EXCEPT !.torn = TRUE]
        /\ bad' = TRUE
     \/ /\ bad
        /\ UNCHANGED <<packed, bad>>
  /\ block' = block + 1
  /\ pc' = "compress"
  /\ UNCHANGED <<input, restored, payload, position, buffer, exit, attempts>>

CompressClose ==
  /\ pc = "compress" /\ block >= BlockCount(source)
  /\ Return(IF bad THEN "error" ELSE "ok")
  /\ UNCHANGED <<input, files, work, attempts>>

\* The process dies; what the stream still buffered is gone, up to part of the
\* header, and a file without a header is no packed file.
CompressKilled ==
  /\ pc \in {"compress", "discoverDI", "write"}
  /\ \/ packed' = Foreign
     \/ \E n \in 0..Len(packed.blocks) :
          packed' = IF n = Len(packed.blocks) THEN packed
                    ELSE [packed EXCEPT !.blocks = SubSeq(@, 1, n), !.torn = TRUE]
  /\ Return("killed")
  /\ UNCHANGED <<input, restored, work, attempts>>

RemovePacked ==
  /\ pc = "shell" /\ exit \in Failures /\ packed # NoFile /\ restored = NoFile
  /\ packed' = NoFile
  /\ exit' = "none"
  /\ UNCHANGED <<input, restored, pc, work, attempts>>

-------------------------------------------------------------------------------
(* decompress                                                              *)

DecompressRefused ==
  /\ pc = "shell" /\ Started
  /\ packed = NoFile \/ restored # NoFile
  /\ Return("refused")
  /\ UNCHANGED <<input, files, work>>

\* One byte stands for any incomplete block at the end.
FileSize(file) ==
  kHeaderBytes + Len(file.blocks) * kBlockPayloadBytes + (IF file.torn THEN 1 ELSE 0)

\* FileHeader::deserialize and the size check: the file is exactly a header and
\* the blocks the header names.
FileSizeRight(file) ==
  /\ file # Foreign
  /\ FileSize(file) = kHeaderBytes + file.header.blockCount * kBlockPayloadBytes

DecompressRejected ==
  /\ pc = "shell" /\ Started
  /\ packed # NoFile /\ restored = NoFile
  /\ ~FileSizeRight(packed)
  /\ Return("error")
  /\ UNCHANGED <<input, files, work>>

DecompressOpen ==
  /\ pc = "shell" /\ Started
  /\ packed # NoFile /\ restored = NoFile
  /\ FileSizeRight(packed)
  /\ bad' = FALSE /\ block' = 0 /\ buffer' = <<>>
  /\ pc' = "decompress"
  /\ exit' = "none"
  /\ UNCHANGED <<input, files, payload, position>>

ReadBlock ==
  /\ pc = "decompress" /\ block < packed.header.blockCount
  /\ payload' = deserializeBlock(packed.blocks[block + 1])
  /\ position' = 0
  /\ pc' = IF packed.blocks[block + 1].di = 0 THEN "row_decomposed" ELSE "lex_enumeration"
  /\ UNCHANGED <<input, files, bad, block, buffer, exit, attempts>>

Emit(m) ==
  /\ buffer' = buffer \o vec(m)
  /\ block' = block + 1
  /\ pc' = "decompress"
  /\ UNCHANGED <<input, files, bad, payload, position, exit, attempts>>

\* reconstructBlock for DI = 0: whatever comes first is returned, without a look at
\* its sums or row hashes; whether the block hash agrees is only reported.
FirstRowSolution ==
  /\ pc = "row_decomposed"
  /\ \E m \in {k \in Known : Fits(k, payload)} \cup Mistaken : Emit(m)

\* A variant that takes the candidate before the one DI names.
DICandidateEarly ==
  /\ pc = "lex_enumeration"
  /\ position < Len(Candidates(payload)) /\ position + 1 = packed.blocks[block + 1].di
  /\ Emit(Candidates(payload)[position + 1])

\* reconstructBlock for DI > 0.
DICandidate ==
  /\ pc = "lex_enumeration"
  /\ position < Len(Candidates(payload)) /\ position = packed.blocks[block + 1].di
  /\ Emit(Candidates(payload)[position + 1])

SkipCandidate ==
  /\ pc = "lex_enumeration"
  /\ position < Len(Candidates(payload)) /\ position # packed.blocks[block + 1].di
  /\ position' = position + 1
  /\ UNCHANGED <<input, files, pc, bad, block, payload, buffer, exit, attempts>>

\* The enumeration or the row search ends without the solution that was asked for.
DIOutOfRange ==
  /\ \/ pc = "row_decomposed"
     \/ pc = "lex_enumeration" /\ position = Len(Candidates(payload))
  /\ Return("error")
  /\ UNCHANGED <<input, files, work, attempts>>

\* The padding of the blocks beyond the size of the source goes.
Truncated == SubSeq(buffer, 1, Min({Len(buffer), packed.header.size * ByteBits}))

\* Only now is the output opened; the write may fail half-way.
WriteOutput ==
  /\ pc = "decompress" /\ block >= packed.header.blockCount
  /\ \E whole \in BOOLEAN :
       /\ restored' = [bits |-> Truncated, whole |-> whole]
       /\ Return(IF whole THEN "ok" ELSE "error")
  /\ UNCHANGED <<input, packed, work, attempts>>

RemoveRestored ==
  /\ pc = "shell" /\ restored # NoFile /\ ~restored.whole
  /\ restored' = NoFile
  /\ exit' = "none"
  /\ UNCHANGED <<input, packed, pc, work, attempts>>

DecompressKilled ==
  /\ pc \in {"decompress", "row_decomposed", "lex_enumeration"}
  /\ Return("killed")
  /\ UNCHANGED <<input, files, work, attempts>>

-------------------------------------------------------------------------------
Next ==
  \/ CompressRefused \/ CompressOpen \/ StartBlock \/ FoundDI \/ OtherCandidate \/ DIOverflow
  \/ DITimeout \/ DINotFound \/ WriteBlock \/ CompressClose \/ CompressKilled \/ RemovePacked
  \/ DecompressRefused \/ DecompressRejected \/ DecompressOpen \/ ReadBlock
  \/ FirstRowSolution \/ DICandidate \/ SkipCandidate \/ DIOutOfRange
  \/ WriteOutput \/ RemoveRestored \/ DecompressKilled

Spec == Init /\ [][Next]_vars

-------------------------------------------------------------------------------
Digests == {RowDigest(columns) : columns \in SUBSET Index}

PackedBlocks  == [lh : [Index -> Digests], bh : Matrices, di : 0..(DILimit - 1), bits : Seq(Bit)]
PackedFiles   == [header : [size : Nat, blockCount : Nat], blocks : Seq(PackedBlocks), torn : BOOLEAN]
RestoredFiles == [bits : Seq(Bit), whole : BOOLEAN]

ASSUME NoFileAssumption == NoFile \notin PackedFiles /\ Foreign \notin PackedFiles

\* The types; a DI always fits its byte, or nothing is written.
TypeOK ==
  /\ packed \in {NoFile, Foreign} \/ packed \in PackedFiles
  /\ restored = NoFile \/ restored \in RestoredFiles
  /\ pc \in {"shell", "compress", "discoverDI", "write",
            "decompress", "row_decomposed", "lex_enumeration"}
  /\ bad \in BOOLEAN
  /\ block \in Nat /\ (pc # "shell" => block <= BlockCount(source))
  /\ position \in Nat
  /\ buffer \in Seq(Bit)
  /\ exit \in {"none", "ok"} \cup Failures
  /\ attempts \in 0..MaxAttempts

IsPacked == packed \notin {NoFile, Foreign}
BlocksOf == IF IsPacked THEN DOMAIN packed.blocks ELSE {}
OriginalOf(b) == loadCsm(BlockBits(source, b - 1))

\* Whatever way a table came about, by shuffling or from a file, a cell's line
\* lists the cell: the compressor counts ones by one view and propagation walks
\* the other.
TablesAgree == \A s \in DOMAIN ltp.fwd : TableConsistent(ltp, s)

\* Packing and unpacking a block in as many bits as each line needs loses
\* nothing, also for a line full of ones.
PayloadKept ==
  \A b \in BlocksOf : deserializeBlock(packed.blocks[b]) = PayloadOf(ltp, OriginalOf(b))

\* The DI written for a block, over time-outs, retries and the blocks before it,
\* names that block in the enumeration of its own description.
DINamesBlock ==
  \A b \in BlocksOf :
    ~disableDI =>
      LET p == PayloadOf(ltp, OriginalOf(b)) di == packed.blocks[b].di
      IN  di < Len(Candidates(p)) /\ Candidates(p)[di + 1] = OriginalOf(b)

\* A file that compress did not finish is never restored, not even in part, and
\* what is restored is as long as the source.
RestoredFromWhole ==
  restored # NoFile =>
    /\ IsPacked /\ ~packed.torn /\ BlocksOf = 1..BlockCount(source)
    /\ Len(restored.bits) = Len(source)

Chunk(b) == LET n == Len(vec(OriginalOf(b))) IN SubSeq(buffer, (b - 1) * n + 1, b * n)

Reconstructed == 1..(IF pc \in {"decompress", "row_decomposed", "lex_enumeration"} THEN block ELSE 0)

\* A block with DI > 0 is reconstructed exactly and at its own place, whatever
\* the blocks around it with DI = 0 came back as.
BlocksReconstructed ==
  \A b \in Reconstructed :
    packed.blocks[b].di > 0 => Chunk(b) = vec(OriginalOf(b))

\* If every block comes back as it was, so does the file.
RestoredExact ==
  restored # NoFile /\ restored.whole =>
    ((\A b \in BlocksOf : Chunk(b) = vec(OriginalOf(b))) => restored.bits = source)
===============================================================================
