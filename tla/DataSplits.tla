----------------------------- MODULE DataSplits -----------------------------
(***************************************************************************)
(* 02_prepare.py: two passes over the raw flows, in chunks.  The first     *)
(* decides which split each row is in, the second cleans the rows and      *)
(* writes them.                                                            *)
(*                                                                         *)
(* A row is a record: is it benign, and its cell of the one numeric        *)
(* column.  Rows with equal records are duplicates.  Cells are even, so    *)
(* the mean of two is a number: an odd number is one that no integer       *)
(* column holds.                                                           *)
(***************************************************************************)
EXTENDS Integers, FiniteSetsExt, Sequences, Subsequences

CONSTANTS RawRows,      \* [benign : BOOLEAN, cell : cells]
          MaxRows,      \* the longest file
          ChunkSizes,   \* CHUNKSIZE, from 1
          NarrowMin, NarrowMax,  \* what the narrower integer type holds
          Exact,        \* up to here float32 has every number
          Missing, Outlier, None

ASSUME SplitAssumption ==
    /\ RawRows \subseteq [benign : BOOLEAN, cell : Int \cup {Missing, Outlier}]
    /\ MaxRows \in Nat /\ ChunkSizes \subseteq Nat \ {0}
    /\ NarrowMin \in Int /\ NarrowMax \in Int /\ Exact \in Nat /\ Exact % 4 = 0
    /\ {Missing, Outlier, None} \cap Int = {} /\ Missing # None

VARIABLES
    file, chunk,    \* the raw CSV, and CHUNKSIZE
    at,             \* "scan", "plan", "split", "done", "failed"
    offset,         \* rows read in this pass
    hashes,         \* pass 1: the hash of each row
    cells,          \* pass 1: the numbers col_min and col_max are taken of
    plan,           \* the split of each row: -1 dropped, 0 train, 1 val, 2 test
    parts,          \* train_parts, of [pos, cell]
    median,         \* None before the train fold is complete
    out             \* the rows written to each split

dvars == <<file, chunk, at, offset, hashes, cells, plan, parts, median, out>>

Train == 0
Val == 1
Test == 2
Dropped == -1

(* The next chunk, as positions in the file.                               *)
LastRead == Len(file) <= offset + chunk
ChunkLength == IF LastRead THEN Len(file) - offset ELSE chunk
Chunk == offset + 1 .. offset + ChunkLength

Numbers(positions) == {file[p].cell : p \in positions} \ {Missing, Outlier}

(* read_csv infers a column's type from the chunk: integer unless a cell is*)
(* missing.  hash_pandas_object hashes the bits, and 1 and 1.0 differ.     *)
ChunkType == IF \E p \in Chunk : file[p].cell = Missing THEN "float" ELSE "int"

(* Mutation of RowHash: the row is hashed when it is cleaned.              *)
CleanedHash(p) ==
    <<[file[p] EXCEPT !.cell = IF @ = Outlier THEN Missing ELSE @], ChunkType>>

RowHash(p) == <<file[p], ChunkType>>

DataInit ==
    /\ file \in UNION {[1..n -> RawRows] : n \in 1..MaxRows}
    /\ chunk \in ChunkSizes
    /\ at = "scan" /\ offset = 0 /\ hashes = <<>> /\ cells = {}
    /\ plan = <<>> /\ parts = <<>> /\ median = None
    /\ out = [s \in {Train, Val, Test} |-> <<>>]

-----------------------------------------------------------------------------
(* Pass 1: the hashes of the rows, and the range of the unmasked numbers.  *)
ScanChunk ==
    /\ at = "scan"
    /\ hashes' = hashes \o [i \in 1..ChunkLength |-> RowHash(offset + i)]
    /\ cells' = cells \cup Numbers(Chunk)
    /\ IF LastRead THEN at' = "plan" /\ offset' = 0
       ELSE offset' = offset + chunk /\ UNCHANGED at
    /\ UNCHANGED <<file, chunk, plan, parts, median, out>>

(* build_row_plan: of equal rows the first is kept; the kept rows are cut  *)
(* at 60% and 80%; benign rows of the train fold are thinned, to half here.*)
Kept == {p \in DOMAIN hashes : \A q \in 1..p-1 : hashes[q] # hashes[p]}
Rank(p) == Cardinality({q \in Kept : q <= p})
TrainEnd == (Cardinality(Kept) * 6) \div 10
ValEnd == TrainEnd + (Cardinality(Kept) * 2) \div 10
SplitOf(rank) == IF rank <= TrainEnd THEN Train ELSE IF rank <= ValEnd THEN Val ELSE Test

(* round() of half a number: to the even one.                              *)
RoundHalf(n) == IF n % 4 = 3 THEN (n + 1) \div 2 ELSE n \div 2

MakePlan ==
    LET trainBenign == {p \in Kept : file[p].benign /\ SplitOf(Rank(p)) = Train}
        drops == Cardinality(trainBenign) - RoundHalf(Cardinality(trainBenign))
    IN  /\ at = "plan" /\ at' = "split"
        /\ \E drop \in kSubset(drops, trainBenign) :
              plan' = [p \in DOMAIN file |-> IF p \in Kept \ drop THEN SplitOf(Rank(p)) ELSE Dropped]
        /\ UNCHANGED <<file, chunk, offset, hashes, cells, parts, median, out>>

-----------------------------------------------------------------------------
(* Pass 2.                                                                 *)

(* The column's type is that of the probe, the first rows of the file, and *)
(* as narrow as the range of pass 1 allows; the cutoff keeps every number  *)
(* in float32's range.  A column without a number has no range, and is not *)
(* cast.                                                                   *)
TargetType ==
    IF cells = {} THEN "none"
    ELSE IF file[1].cell = Missing THEN "float"
    ELSE IF NarrowMin <= Min(cells) /\ Max(cells) <= NarrowMax THEN "narrow" ELSE "wide"

Cleaned(p) == [pos |-> p, cell |-> IF file[p].cell = Outlier THEN Missing ELSE file[p].cell]
RowsOf(s) ==
    Selected([i \in 1..ChunkLength |-> Cleaned(offset + i)], {i \in 1..ChunkLength : plan[offset + i] = s})

(* The median leaves missing cells out; of none there is none.             *)
Numbered(rs) == {i \in DOMAIN rs : rs[i].cell # Missing}
Smallest(rs, k) ==
    CHOOSE x \in {rs[i].cell : i \in Numbered(rs)} :
        /\ Cardinality({i \in Numbered(rs) : rs[i].cell < x}) < k
        /\ Cardinality({i \in Numbered(rs) : rs[i].cell <= x}) >= k
Median(rs) ==
    LET n == Cardinality(Numbered(rs))
    IN  IF n = 0 THEN Missing ELSE (Smallest(rs, (n + 1) \div 2) + Smallest(rs, n \div 2 + 1)) \div 2

Filled(rows, m) == [i \in DOMAIN rows |-> [rows[i] EXCEPT !.cell = IF @ = Missing THEN m ELSE @]]

(* Beyond Exact float32 has every fourth number, and the nearest is taken, *)
(* of two the one with an even significand.                                *)
AsFloat32(x) ==
    IF x \in -Exact .. Exact THEN x
    ELSE IF x % 8 = 2 THEN x - 2 ELSE 4 * ((x + 2) \div 4)

(* cast_to_schema raises when an integer type would change a value; a      *)
(* float type may change it.                                               *)
Castable(rows) ==
    TargetType \in {"narrow", "wide"} => \A i \in DOMAIN rows :
        /\ rows[i].cell # Missing /\ rows[i].cell % 2 = 0
        /\ TargetType = "narrow" => rows[i].cell \in NarrowMin .. NarrowMax

Cast(cell, type) == IF type = "float" /\ cell # Missing THEN AsFloat32(cell) ELSE cell
cast_to_schema(rows) == [i \in DOMAIN rows |-> [rows[i] EXCEPT !.cell = Cast(@, TargetType)]]

(* The train fold is complete at the first row of another: it is filled    *)
(* and written, then the rows of this chunk are.  Without a train row      *)
(* there is nothing to concatenate.                                        *)
SplitChunk ==
    LET train == parts \o RowsOf(Train)
        closes == median = None /\ (RowsOf(Val) # <<>> \/ RowsOf(Test) # <<>>)
        fill == IF closes THEN Median(train) ELSE median
        fold == IF closes THEN cast_to_schema(Filled(train, fill)) ELSE out[Train]
        val == Filled(RowsOf(Val), fill)
        test == Filled(RowsOf(Test), fill)
    IN  /\ at = "split"
        /\ IF closes /\ (train = <<>> \/ ~Castable(Filled(train, fill)))
           THEN at' = "failed" /\ UNCHANGED <<offset, parts, median, out>>
           ELSE IF ~(Castable(val) /\ Castable(test))
           THEN /\ at' = "failed" /\ median' = fill
                /\ out' = [out EXCEPT ![Train] = fold]
                /\ UNCHANGED <<offset, parts>>
           ELSE /\ parts' = IF closes THEN <<>> ELSE train
                /\ median' = fill
                /\ out' = [out EXCEPT ![Train] = fold,
                                      ![Val] = @ \o cast_to_schema(val),
                                      ![Test] = @ \o cast_to_schema(test)]
                /\ offset' = offset + chunk
                /\ at' = IF LastRead THEN "done" ELSE "split"
        /\ UNCHANGED <<file, chunk, hashes, cells, plan>>

DataStep == ScanChunk \/ MakePlan \/ SplitChunk

-----------------------------------------------------------------------------
(* Properties.                                                             *)

Positions(s) == {out[s][i].pos : i \in DOMAIN out[s]}

(* Two rows of chunks with and without a missing cell never hash alike.    *)
Chunks == {k \in 0 .. Len(file) : k * chunk < Len(file)}
Gap(k) == \E p \in k * chunk + 1 .. (k + 1) * chunk : p \in DOMAIN file /\ file[p].cell = Missing
MixedTypes == \E j, k \in Chunks : Gap(j) /\ ~Gap(k)

(* The splits that detectors are trained and tested on are sound, for any  *)
(* chunk size: in the order of the capture; no flow in two of them, unless *)
(* chunks differ in the type of a column; every attack in one and every    *)
(* benign flow too, but for those thinned out of the train fold; numbers   *)
(* kept as they were read if the file begins with a column of integers,    *)
(* rounded once to float32 if not; and the others filled with what splits  *)
(* the train fold's numbers, as they are written, in half, so that nothing *)
(* of val or test is in it.                                                *)
(* Code: 02_prepare.py:55-162, 168-185 and 239-285.                        *)
SplitsAreSound ==
    at = "done" =>
    LET train == Positions(Train)  rest == Positions(Val) \cup Positions(Test)
        numbers == {p \in train : file[p].cell \notin {Missing, Outlier}}
        kept(x) == IF file[1].cell = Missing THEN AsFloat32(x) ELSE x
        low(x) == Cardinality({p \in numbers : kept(file[p].cell) < x})
        high(x) == Cardinality({p \in numbers : kept(file[p].cell) > x})
    IN  /\ \A p \in train, q \in rest : p < q
        /\ \A p \in Positions(Val), q \in Positions(Test) : p < q
        /\ ~MixedTypes => \A p, q \in train \cup rest : p # q => file[p] # file[q]
        /\ \A p \in DOMAIN file :
              \/ \E q \in train \cup rest : file[q] = file[p]
              \/ file[p].benign /\ \E q \in 1..p : file[q] = file[p] /\ \A r \in rest : q < r
        /\ \A s \in {Train, Val, Test} : \A i \in DOMAIN out[s] :
              LET cell == out[s][i].cell  raw == file[out[s][i].pos].cell
              IN  IF raw \notin {Missing, Outlier} THEN cell = kept(raw)
                  ELSE IF numbers = {} THEN cell = Missing
                  ELSE 2 * low(cell) <= Cardinality(numbers) /\ 2 * high(cell) <= Cardinality(numbers)
=============================================================================
