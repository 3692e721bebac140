-------------------------------- MODULE LtpTable --------------------------------
(***************************************************************************)
(* decompress/Solvers/LtpTable: the two partitions of the cells into kS    *)
(* lines of kS cells.  A process builds them once, by shuffling the cells  *)
(* with a linear congruential generator or from the file it is pointed to, *)
(* and both programs compute sums and search with what they built.         *)
(***************************************************************************)
EXTENDS Integers, Sequences, FiniteSets, Functions, SequencesExt

CONSTANTS
  kS,           \* kLtpS: lines of a table, and cells of a line
  kLcgA, kLcgC, \* the generator's multiplier and increment
  kLcgM,        \* and its modulus, 2^64 in the code
  DefaultSeeds, \* <<kSeed1, kSeed2>>
  Unset,        \* an environment variable that is absent or empty,
  Unparseable   \* and one that is no number

Index == 0..(kS - 1)
Cells == Index \X Index
kN == kS * kS

ASSUME kSAssumption == kS \in Nat \ {0}
ASSUME LcgAssumption == kLcgM \in Nat \ {0} /\ kLcgA \in Nat /\ kLcgC \in Nat
ASSUME SeedsAssumption == DefaultSeeds \in Seq(Nat) /\ Len(DefaultSeeds) = 2

parseOptEnvSeed(text, default) ==
  CASE text = Unset -> default
    [] text = Unparseable -> 0
    [] OTHER -> text

CellAt(flat) == <<flat \div kS, flat % kS>>
Flat(x) == x[1] * kS + x[2]

Swap(pool, i, j) == [pool EXCEPT ![i] = pool[j], ![j] = pool[i]]

\* One Fisher-Yates pass over the pool the pass before left behind: what n steps
\* have made of the generator and of the pool.
Shuffling(pool, seed) ==
  LET after[n \in 0..(kN - 1)] ==
        IF n = 0 THEN [state |-> seed, pool |-> pool]
        ELSE LET before == after[n - 1]
                 state  == (before.state * kLcgA + kLcgC) % kLcgM
                 i      == kN - n
             IN  [state |-> state, pool |-> Swap(before.pool, i, state % (i + 1))]
  IN  after

Shuffled(pool, seed) == Shuffling(pool, seed)[kN - 1].pool

\* Consecutive chunks of kS cells become the lines: csr[line] in that order, and
\* fwd[x] the line of cell x.
TableOf(pool) ==
  LET csr == [k \in Index |-> [j \in 1..kS |-> CellAt(pool[k * kS + j - 1])]]
  IN  [csr |-> csr, fwd |-> [x \in Cells |-> CHOOSE k \in Index : x \in Range(csr[k])]]

buildAllPartitions(seeds) ==
  LET first  == Shuffled([i \in 0..(kN - 1) |-> i], seeds[1])
      second == Shuffled(first, seeds[2])
      tables == <<TableOf(first), TableOf(second)>>
  IN  [fwd |-> <<tables[1].fwd, tables[2].fwd>>, csr |-> <<tables[1].csr, tables[2].csr>>]

NoTables == <<>>

\* A table of the file, each line listing its cells in row-major order: the
\* lines once the first n cells are entered.
Filling(assignment) ==
  LET filled[n \in 0..kN] ==
        IF n = 0 THEN [k \in Index |-> <<>>]
        ELSE LET x == CellAt(n - 1) IN [filled[n - 1] EXCEPT ![assignment[x]] = Append(@, x)]
  IN  filled

TableFrom(assignment) == Filling(assignment)[kN]

\* A variant that takes lines of any length.
AnyAssignment(assign) == \A s \in DOMAIN assign : \A x \in Cells : assign[s][x] \in Index

ValidAssignment(assign) ==
  \A s \in DOMAIN assign :
    /\ \A x \in Cells : assign[s][x] \in Index
    /\ \A k \in Index : Cardinality({x \in Cells : assign[s][x] = k}) = kS

\* A second table the file does not supply stays as it was allocated: no cell
\* belongs to it and each of its lines lists cell (0, 0), kS times.
buildFromAssignment(assign) ==
  IF ~ValidAssignment(assign) THEN NoTables
  ELSE [fwd |-> assign,
        csr |-> [s \in 1..2 |->
                   IF s <= Len(assign) THEN TableFrom(assign[s])
                   ELSE [k \in Index |-> [j \in 1..kS |-> <<0, 0>>]]]]

\* An LTPB file: whether magic, version and S are right, the number of tables
\* it announces, and the tables that follow.
tryLoadFromFile(file) ==
  IF file.header /\ file.numSub \in 1..2 /\ Len(file.assign) = file.numSub
  THEN buildFromAssignment(file.assign)
  ELSE NoTables

\* env: what CRSCE_LTP_TABLE_FILE names and CRSCE_LTP_SEED_1 and _2 say.
getLtpData(env) ==
  LET built == buildAllPartitions([s \in 1..2 |-> parseOptEnvSeed(env.seeds[s], DefaultSeeds[s])])
  IN  IF env.file = Unset THEN built
      ELSE LET loaded == tryLoadFromFile(env.file)
           IN  IF loaded = NoTables THEN built ELSE loaded

\* The two views of a table say the same: a line lists exactly the cells that
\* belong to it, each once.
TableConsistent(ltp, s) ==
  \A k \in Index :
    /\ Range(ltp.csr[s][k]) = {x \in Cells : ltp.fwd[s][x] = k}
    /\ Len(ltp.csr[s][k]) = kS /\ IsInjective(ltp.csr[s][k])
===============================================================================
