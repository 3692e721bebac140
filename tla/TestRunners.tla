------------------------------ MODULE TestRunners ------------------------------
(***************************************************************************)
(* The programs that test the commands from outside: testRunnerOnes,       *)
(* -Zeroes, -Alternating10, -Alternating01 and -Random, uselessTest and    *)
(* testCollisions.  Each makes a file, runs compress and decompress as     *)
(* child processes, one at a time, and compares.  A child's steps are      *)
(* those of FileCodec.  A time limit is looked at when the child has       *)
(* ended; a watchdog ends a runner, not its child.  A hash is what it      *)
(* hashes.                                                                 *)
(***************************************************************************)
EXTENDS FileCodec

CONSTANTS
  RunnerS,      \* the side of a block as the runners know it (511; blocks have kS = 127)
  BlockSizes,   \* the sizes in blocks each pattern runner goes through
  RandomFiles,  \* the files random generators may make, as sequences of bits
  UselessFile,  \* the file uselessTest packs
  Cycles        \* -cycles of testCollisions, and how often the user starts uselessTest

VARIABLES
  program,   \* "shell": the user runs the commands, otherwise the runner
  stage,     \* where the runner is
  round,     \* sizes, cycles or runs begun
  thrown,    \* what its run() threw: "none", "CompressNonZeroExit", "DecompressNonZeroExit", "other"
  code,      \* exit code of the runner
  log        \* the results testCollisions has logged

runner     == <<program, stage, round, thrown, code, log>>
runnerVars == <<vars, runner>>

PatternRunners == {"Ones", "Zeroes", "Alternating10", "Alternating01"}
CaseRunners    == PatternRunners \cup {"Random"}
Runners        == CaseRunners \cup {"uselessTest", "testCollisions"}

NoCode == 256

ASSUME RunnersAssumption ==
  /\ RunnerS \in Nat \ {0} /\ Cycles \in Nat
  /\ \A p \in PatternRunners : BlockSizes[p] \in Seq(Nat)
  /\ \A f \in RandomFiles : IsFile(f)
  /\ IsFile(UselessFile)
\* 127 in the code; what the preflight counts is true of an odd side only.
ASSUME SideAssumption == kS % 2 = 1 /\ kS > 1

RunnerInit ==
  /\ Init
  /\ program \in {"shell"} \cup Runners
  /\ program # "shell" =>
       /\ source = <<>> /\ packed = NoFile
       /\ ltp = getLtpData([file |-> Unset, seeds |-> <<Unset, Unset>>])
  /\ stage = IF program = "shell" THEN "none" ELSE "generate"
  /\ round = 0
  /\ thrown = "none"
  /\ code = NoCode
  /\ log = <<>>

-------------------------------------------------------------------------------
(* The input of a case.                                                    *)

Ceil(a, b) == (a + b - 1) \div b

\* The size in bytes for n blocks of RunnerS * RunnerS bits.
min_bytes_for_n_blocks(n)   == IF n = 0 THEN 0 ELSE Ceil((n - 1) * RunnerS * RunnerS + 1, ByteBits)
max_bytes_within_blocks(n)  == (n * RunnerS * RunnerS) \div ByteBits

Repeat(first, second, bytes) == [i \in 1..(bytes * ByteBits) |-> IF i % 2 = 1 THEN first ELSE second]

write_one_file(bytes)           == Repeat(1, 1, bytes)
write_zero_file(bytes)          == Repeat(0, 0, bytes)
write_alternating10_file(bytes) == Repeat(1, 0, bytes)
write_alternating01_file(bytes) == Repeat(0, 1, bytes)

\* preflight_check_alternating01: of the first block the main diagonal, its
\* corners and the sums of both kinds of diagonals.
preflight_check_alternating01(bits) ==
  LET S == kS
      At(r, c)  == bits[r * S + c + 1]
      Count(cs) == Cardinality({x \in cs : At(x[1], x[2]) = 1})
      Even(n)   == n % 2 = 0
  IN  Len(bits) >= S * S =>
        /\ \A i \in Index : At(i, i) = 0
        /\ At(0, 1) = 1 /\ At(1, 0) = 1 /\ At(S - 1, S - 2) = 1 /\ At(S - 2, S - 1) = 1
        /\ At(0, S - 1) = At(S - 1, 0)
        /\ \A d \in Index :
             Count({<<r, (r + d) % S>> : r \in Index}) = IF Even(d) THEN d ELSE S - d
        /\ \A x \in Index :
             Count({<<r, (x + S - r) % S>> : r \in Index}) = IF Even(x) THEN S - x - 1 ELSE x + 1

\* A fresh input under a name of its own, and fresh names for what comes of it.
Make(bits) ==
  /\ stage = "generate"
  /\ source' = bits
  /\ packed' = NoFile /\ restored' = NoFile
  /\ attempts' = 0
  /\ round' = round + 1
  /\ UNCHANGED <<ltp, disableDI, pc, work, exit, program, code, log>>

\* make_input: the hash of the file is known from here on.
make_input(bits) == Make(bits) /\ stage' = "compress" /\ UNCHANGED thrown

\* run() of a runner, up to process_case for the next size.
NextSize(p) == program = p /\ round < Len(BlockSizes[p])

SizeInBytes(p) == min_bytes_for_n_blocks(BlockSizes[p][round + 1])

GenerateOnes          == NextSize("Ones") /\ make_input(write_one_file(SizeInBytes("Ones")))
GenerateZeroes        == NextSize("Zeroes") /\ make_input(write_zero_file(SizeInBytes("Zeroes")))
GenerateAlternating10 == NextSize("Alternating10") /\ make_input(write_alternating10_file(SizeInBytes("Alternating10")))

\* A preflight that fails throws.
GenerateAlternating01 ==
  /\ NextSize("Alternating01")
  /\ LET bits == write_alternating01_file(SizeInBytes("Alternating01"))
         fine == preflight_check_alternating01(bits)
     IN  /\ Make(bits)
         /\ stage' = IF fine THEN "compress" ELSE "main"
         /\ thrown' = IF fine THEN thrown ELSE "other"

\* generate_random_file, of a size between two bounds.
GenerateRandom ==
  /\ program = "Random" /\ round = 0
  /\ \E bits \in RandomFiles : make_input(bits)

\* One file for each cycle, of the size of as many blocks of RunnerS.
GenerateCollision ==
  /\ program = "testCollisions" /\ round < Cycles
  /\ \E bits \in {f \in RandomFiles : Len(f) = max_bytes_within_blocks(1) * ByteBits} : make_input(bits)

\* A variant that leaves the files of an earlier run in place.
UseUselessFileStale ==
  /\ program = "uselessTest"
  /\ stage = "generate"
  /\ source' = UselessFile
  /\ attempts' = 0
  /\ round' = round + 1
  /\ stage' = "compress"
  /\ UNCHANGED <<ltp, disableDI, files, pc, work, exit, program, thrown, code, log>>

\* uselessTest always packs the same file to the same place; what is left there
\* of an earlier run is removed first.
UseUselessFile ==
  /\ program = "uselessTest"
  /\ make_input(UselessFile)

-------------------------------------------------------------------------------
(* The children.                                                           *)

Exits(c) == stage' = "exited" /\ code' = c /\ UNCHANGED <<vars, program, round, thrown, log>>

Goes(to) == stage' = to /\ UNCHANGED <<vars, program, round, thrown, code, log>>

Throws(what) == stage' = "main" /\ thrown' = what /\ UNCHANGED <<vars, program, round, code, log>>

\* What run_process makes of how the child ended; the code of a killed one is
\* the shell's.
ExitCode == [ok |-> 0, error |-> 3, refused |-> 2, killed |-> 137]

StartCompress ==
  /\ stage = "compress"
  /\ CompressOpen \/ CompressRefused
  /\ stage' = "compressing"
  /\ UNCHANGED <<program, round, thrown, code, log>>

StartDecompress ==
  /\ stage = "decompress"
  /\ DecompressOpen \/ DecompressRefused \/ DecompressRejected
  /\ stage' = "decompressing"
  /\ UNCHANGED <<program, round, thrown, code, log>>

\* The child of a runner that the watchdog ended goes on by itself.
ChildStep ==
  /\ program # "shell"
  /\ \/ StartBlock \/ FoundDI \/ OtherCandidate \/ DIOverflow \/ DITimeout \/ DINotFound
     \/ WriteBlock \/ CompressClose \/ CompressKilled
     \/ ReadBlock \/ FirstRowSolution \/ DICandidate \/ SkipCandidate \/ DIOutOfRange
     \/ WriteOutput \/ DecompressKilled
  /\ UNCHANGED runner

Ended(s) == stage = s /\ pc = "shell"

\* compress_file.  Nothing waited for the limit: it is looked at now, and comes
\* before the exit code.
CompressReturns ==
  /\ program \in CaseRunners /\ Ended("compressing")
  /\ \/ Throws("other")
     \/ exit # "ok" /\ Throws("CompressNonZeroExit")
     \/ exit = "ok" /\ Goes("decompress")

\* decompress_file
DecompressReturns ==
  /\ program \in CaseRunners /\ Ended("decompressing")
  /\ \/ Throws("other")
     \/ exit # "ok" /\ Throws("DecompressNonZeroExit")
     \/ exit = "ok" /\ Goes("evaluate")

\* evaluate_hashes, as the last of process_case.  run() then goes on to the next
\* size or returns 0; the loop over sizes of testRunnerAlternating01 is in its
\* main, which returns with the first.
Evaluate ==
  /\ program \in CaseRunners /\ stage = "evaluate"
  /\ IF restored.bits # source THEN Throws("other")
     ELSE IF program \in PatternRunners \ {"Alternating01"} /\ round < Len(BlockSizes[program])
          THEN Goes("generate")
          ELSE Goes("main")

\* extract_exit_code: the number at the end of the message.
extract_exit_code == ExitCode[exit]

\* The handlers of each main.
Main(p) ==
  /\ program = p /\ stage = "main"
  /\ Exits(CASE thrown = "none" -> 0
             [] thrown \in {"CompressNonZeroExit", "DecompressNonZeroExit"} -> extract_exit_code
             [] OTHER -> 1)

MainOnes          == Main("Ones")
MainZeroes        == Main("Zeroes")
MainAlternating10 == Main("Alternating10")
MainAlternating01 == Main("Alternating01")
MainRandom        == Main("Random")

\* A detached thread ends the process at once; the child is not told.
WatchdogFires ==
  /\ program \in Runners \ {"testCollisions"}
  /\ stage \notin {"generate", "exited"}
  /\ Exits(250)

-------------------------------------------------------------------------------
(* uselessTest                                                             *)

UselessCompressed ==
  /\ program = "uselessTest" /\ Ended("compressing")
  /\ IF exit = "ok" THEN Goes("validate") ELSE Exits(2)

\* validate_container knows the format by itself: a header, the number of blocks
\* that belongs to its size, and exactly these blocks.
validate_container(file) ==
  /\ file \notin {NoFile, Foreign}
  /\ file.header.blockCount = Ceil(file.header.size * ByteBits, kBlockBits)
  /\ FileSize(file) = kHeaderBytes + file.header.blockCount * kBlockPayloadBytes

Validate ==
  /\ program = "uselessTest" /\ stage = "validate"
  /\ IF validate_container(packed) THEN Goes("decompress") ELSE Exits(2)

UselessDecompressed ==
  /\ program = "uselessTest" /\ Ended("decompressing")
  /\ Exits(IF exit = "ok" /\ restored.bits = source THEN 0 ELSE 2)

\* The user starts it again.
UselessAgain ==
  /\ program = "uselessTest" /\ stage = "exited" /\ pc = "shell" /\ round < Cycles
  /\ stage' = "generate" /\ code' = NoCode
  /\ UNCHANGED <<vars, program, round, thrown, log>>

-------------------------------------------------------------------------------
(* testCollisions                                                          *)

CollisionCompressed ==
  /\ program = "testCollisions" /\ Ended("compressing")
  /\ IF exit = "ok" THEN stage' = "decompress" /\ UNCHANGED log
     ELSE stage' = "generate" /\ log' = Append(log, "fail")
  /\ UNCHANGED <<vars, program, round, thrown, code>>

\* A cycle that passes removes what it made.
CollisionDecompressed ==
  /\ program = "testCollisions" /\ Ended("decompressing")
  /\ IF exit = "ok" /\ restored.bits = source
     THEN packed' = NoFile /\ restored' = NoFile /\ log' = Append(log, "pass")
     ELSE log' = Append(log, "fail") /\ UNCHANGED files
  /\ stage' = "generate"
  /\ UNCHANGED <<input, pc, work, exit, attempts, program, round, thrown, code>>

CollisionsEnd ==
  /\ program = "testCollisions" /\ stage = "generate" /\ round = Cycles
  /\ Exits(0)

-------------------------------------------------------------------------------
ShellStep == program = "shell" /\ Next /\ UNCHANGED runner

RunnerStep ==
  \/ GenerateOnes \/ GenerateZeroes \/ GenerateAlternating10 \/ GenerateAlternating01
  \/ GenerateRandom \/ GenerateCollision \/ UseUselessFile
  \/ StartCompress \/ StartDecompress \/ CompressReturns \/ DecompressReturns \/ Evaluate
  \/ MainOnes \/ MainZeroes \/ MainAlternating10 \/ MainAlternating01 \/ MainRandom \/ WatchdogFires
  \/ UselessCompressed \/ Validate \/ UselessDecompressed \/ UselessAgain
  \/ CollisionCompressed \/ CollisionDecompressed \/ CollisionsEnd

RunnersNext == ShellStep \/ ChildStep \/ RunnerStep

RunnersSpec == RunnerInit /\ [][RunnersNext]_runnerVars

-------------------------------------------------------------------------------
\* The validator and decompress read the format each in their own way: whatever
\* compress finished, after kills, retries and failing writes of others, passes
\* the validator, and what passes it is never rejected by decompress and holds
\* the blocks of the whole source.
ContainersValid ==
  /\ pc = "shell" /\ exit = "ok" /\ IsPacked /\ restored = NoFile => validate_container(packed)
  /\ validate_container(packed) => FileSizeRight(packed) /\ Len(packed.blocks) = BlockCount(source)

\* No file left by an earlier run, finished, failed or cut off by the watchdog,
\* makes a runner's child refuse its arguments; a runner that ends with 0 has
\* the source back, to the last bit of the last size it made; and no container
\* was wrongly accepted or rejected on the way.
RunnersSound ==
  /\ ContainersValid
  /\ program # "shell" =>
    /\ stage \in {"compressing", "decompressing"} => exit # "refused"
    /\ program # "testCollisions" /\ (code = 0 \/ (stage = "main" /\ thrown = "none")) =>
         restored.whole /\ restored.bits = source
    /\ preflight_check_alternating01(write_alternating01_file(Ceil(kS * kS, ByteBits)))
===============================================================================
