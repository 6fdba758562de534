------------------------------- MODULE QrReader -------------------------------
(***************************************************************************)
(* A reader of QR codes of level M, after the standard's own description   *)
(* and tables (ISO/IEC 18004) for the two sizes the runs show: the phone's *)
(* scanner, which is not part of the repository, and the reference that    *)
(* the page's encoder (QrCode) is checked against.                         *)
(***************************************************************************)
EXTENDS Integers, Sequences, FiniteSets, SequencesExt, TLC

\* By version: the lines of the alignment patterns' centers, the version information,
\* and the blocks: how many, with how many codewords, and how many of those are data.
AlignmentLines == [v \in {5, 10} |-> IF v = 5 THEN {6, 30} ELSE {6, 28, 50}]
VersionInformation == [v \in {5, 10} |-> IF v = 5 THEN 0 ELSE 42195]
DataLengths == [v \in {5, 10} |-> IF v = 5 THEN <<43, 43>> ELSE <<43, 43, 43, 43, 44>>]
EccLength == [v \in {5, 10} |-> IF v = 5 THEN 24 ELSE 26]
\* The format information of level M, by mask.
FormatInformation ==
    [m \in 0 .. 7 |-> <<21522, 20773, 24188, 23371, 17913, 16590, 20375, 19104>>[m + 1]]

BitOf(word, k) == (word \div 2^k) % 2 = 1
Total(f, n) == FoldLeft(LAMBDA s, i : s + f[i], 0, [i \in 1 .. n |-> i])

\* Modules that carry no data.
Reserved(x, y, size, version) ==
    LET last == size - 1
        Aligned(a, line) == a - line \in -2 .. 2
    IN  \/ x = 6 \/ y = 6
        \/ x <= 8 /\ y <= 8
        \/ x <= 8 /\ y >= last - 7
        \/ x >= last - 7 /\ y <= 8
        \/ \E i, j \in AlignmentLines[version] :
                /\ Aligned(x, i) /\ Aligned(y, j)
                /\ ~(i = 6 /\ j \in {6, last - 6}) /\ ~(j = 6 /\ i = last - 6)
        \/ version >= 7 /\ x \in last - 10 .. last - 8 /\ y <= 5
        \/ version >= 7 /\ y \in last - 10 .. last - 8 /\ x <= 5

\* Where bit k of the format information is, in its two copies; and of the version's.
FormatPlaces(k, size) ==
    {IF k < 6 THEN <<8, k>> ELSE IF k < 8 THEN <<8, k + 1>> ELSE IF k = 8 THEN <<7, 8>> ELSE <<14 - k, 8>>,
     IF k < 8 THEN <<size - 1 - k, 8>> ELSE <<8, size - 15 + k>>}
VersionPlaces(k, size) ==
    {<<k \div 3, size - 11 + (k % 3)>>, <<size - 11 + (k % 3), k \div 3>>}
Says(dark, places, bit) == \A p \in places : (p \in dark) = bit
MasksSaid(dark, size) ==
    {m \in 0 .. 7 : \A k \in 0 .. 14 : Says(dark, FormatPlaces(k, size), BitOf(FormatInformation[m], k))}
VersionSaid(dark, size, version) ==
    version >= 7 => \A k \in 0 .. 17 : Says(dark, VersionPlaces(k, size), BitOf(VersionInformation[version], k))

\* The data mask, with row i and column j as in the standard.
Masked(m, i, j) ==
    CASE m = 0 -> (i + j) % 2 = 0
      [] m = 1 -> i % 2 = 0
      [] m = 2 -> j % 3 = 0
      [] m = 3 -> (i + j) % 3 = 0
      [] m = 4 -> ((i \div 2) + (j \div 3)) % 2 = 0
      [] m = 5 -> ((i * j) % 2) + ((i * j) % 3) = 0
      [] m = 6 -> ((((i * j) % 2) + ((i * j) % 3)) % 2) = 0
      [] m = 7 -> ((((i + j) % 2) + ((i * j) % 3)) % 2) = 0

\* The n-th module in reading order, from 0: pairs of columns from the right, the first
\* upwards, then one down and one up, as if the timing column were not there.
InOrder(n, size) ==
    LET pair == n \div (2 * size)
        row == (n % (2 * size)) \div 2
        column == size - 2 - 2 * pair - (n % 2)
    IN <<IF column >= 6 THEN column + 1 ELSE column, IF pair % 2 = 0 THEN size - 1 - row ELSE row>>

\* The modules of the data, by version, in that order.
InVersion(version) ==
    LET size == 4 * version + 17
    IN SelectSeq([n \in 1 .. size * (size - 1) |-> InOrder(n - 1, size)],
                 LAMBDA p : ~Reserved(p[1], p[2], size, version))
Order == (5 :> InVersion(5)) @@ (10 :> InVersion(10))

\* The bits of the symbol that are set, unmasked, numbered in reading order from 0; {-1}
\* when what the symbol says of itself is wrong.
Bitstream(dark, size) ==
    LET version == (size - 17) \div 4
        order == Order[version]
        mask == CHOOSE m \in MasksSaid(dark, size) : TRUE
    IN IF MasksSaid(dark, size) = {} \/ ~VersionSaid(dark, size, version) THEN {-1}
       ELSE {k - 1 : k \in {n \in DOMAIN order :
                        (order[n] \in dark) # Masked(mask, order[n][2], order[n][1])}}

Codeword(bits, n) == Total([k \in 1 .. 8 |-> IF 8 * n + k - 1 \in bits THEN 2^(8 - k) ELSE 0], 8)

\* The codewords of block b, data first: they are interleaved, the longer blocks last.
Block(bits, version, b) ==
    LET lengths == DataLengths[version]
        blocks == Len(lengths)
        shortest == lengths[1]
        Data(i) == IF i <= shortest THEN (i - 1) * blocks + b - 1
                   ELSE shortest * blocks + Cardinality({d \in 1 .. (b - 1) : lengths[d] > shortest})
        Ecc(i) == Total(lengths, blocks) + (i - 1) * blocks + b - 1
    IN SubSeq([i \in 1 .. lengths[b] |-> Codeword(bits, Data(i))]
              \o [i \in 1 .. EccLength[version] |-> Codeword(bits, Ecc(i))],
              1, lengths[b] + EccLength[version])

\* A block without errors is a multiple of x - 2^r, for every r below its degree.
Plus(a, b) ==
    LET Differ(k) == IF BitOf(a, k) # BitOf(b, k) THEN 2^k ELSE 0
    IN Differ(0) + Differ(1) + Differ(2) + Differ(3) + Differ(4) + Differ(5) + Differ(6) + Differ(7)
Shifted(a, r) == LET shift[i \in 0 .. r, z \in 0 .. 255] ==
                        IF i = r THEN z
                        ELSE shift[i + 1, IF z >= 128 THEN Plus(2 * z - 256, 29) ELSE 2 * z]
                 IN shift[0, a]
Powers == SubSeq([n \in 1 .. 255 |-> Shifted(1, n - 1)], 1, 255)
Logarithms == SubSeq([z \in 1 .. 255 |-> CHOOSE n \in 0 .. 254 : Powers[n + 1] = z], 1, 255)
TimesPower(z, r) == IF z = 0 THEN 0 ELSE Powers[((Logarithms[z] + r) % 255) + 1]
IsCodeword(block, degree) ==
    LET Value(r) == LET horner[i \in 0 .. Len(block), z \in 0 .. 255] ==
                            IF i = Len(block) THEN z
                            ELSE horner[i + 1, Plus(TimesPower(z, r), block[i + 1])]
                    IN horner[0, 0]
    IN \A r \in 0 .. (degree - 1) : Value(r) = 0

\* The bytes of the text, the mode and the count read first; <<>> if they are wrong.
Text(bits, version) ==
    LET blocks == SubSeq([b \in DOMAIN DataLengths[version] |-> Block(bits, version, b)], 1, Len(DataLengths[version]))
        data == FlattenSeq([b \in DOMAIN blocks |-> SubSeq(blocks[b], 1, DataLengths[version][b])])
        start == IF version <= 9 THEN 2 ELSE 3      \* the byte the count ends in
        count == IF version <= 9 THEN (data[1] % 16) * 16 + (data[2] \div 16)
                 ELSE (data[1] % 16) * 4096 + data[2] * 16 + (data[3] \div 16)
    IN IF \/ \E b \in DOMAIN blocks : ~IsCodeword(blocks[b], EccLength[version])
          \/ data[1] \div 16 # 4 \/ start + count > Len(data)
       THEN <<>>
       ELSE SubSeq([i \in 1 .. count |-> (data[start + i - 1] % 16) * 16 + (data[start + i] \div 16)], 1, count)
=============================================================================
