-------------------------------- MODULE QrCode --------------------------------
(***************************************************************************)
(* The QR encoder of the page (static/js/qrcode.js): from the bytes of a   *)
(* URL to the modules of the symbol, for any mask (the page takes the one  *)
(* with the lowest penalty score, which the symbol's meaning does not      *)
(* depend on).  A symbol is the set of its dark modules <<x, y>>; a byte   *)
(* is a number.                                                            *)
(***************************************************************************)
EXTENDS Integers, Sequences, SequencesExt

ECC_CODEWORDS_PER_BLOCK ==
    <<10, 16, 26, 18, 24, 16, 18, 22, 22, 26, 30, 22, 22, 24, 24, 28, 28, 26, 26, 26,
      26, 28, 28, 28, 28, 28, 28, 28, 28, 28, 28, 28, 28, 28, 28, 28, 28, 28, 28, 28>>
NUM_ERROR_CORRECTION_BLOCKS ==
    <<1, 1, 1, 2, 2, 4, 4, 4, 5, 5, 5, 8, 9, 9, 10, 10, 11, 13, 14, 16,
      17, 17, 18, 20, 21, 23, 25, 26, 28, 29, 31, 33, 35, 37, 38, 40, 43, 45, 47, 49>>
ECL_FORMAT_BITS == 0
VERSIONS == 1 .. 40
Byte == 0 .. 255

\* s itself, its elements computed once by TLC.
Computed(s) == SubSeq(s, 1, Len(s))

Bit(value, index) == (value \div 2^index) % 2

numRawDataModules(version) ==
    LET numAlign == (version \div 7) + 2
    IN ((16 * version + 128) * version + 64)
       - (IF version >= 2 THEN (25 * numAlign - 10) * numAlign - 55 ELSE 0)
       - (IF version >= 7 THEN 36 ELSE 0)
numDataCodewords(version) ==
    (numRawDataModules(version) \div 8)
        - ECC_CODEWORDS_PER_BLOCK[version] * NUM_ERROR_CORRECTION_BLOCKS[version]

\* The centers of the alignment patterns, from the right, but for the first, which is 6.
alignmentPatternPositions(version) ==
    IF version = 1 THEN {}
    ELSE LET numAlign == (version \div 7) + 2
             step == ((version * 8 + numAlign * 3 + 5) \div (numAlign * 4 - 4)) * 2
         IN {6} \cup {version * 4 + 10 - k * step : k \in 0 .. (numAlign - 2)}

-----------------------------------------------------------------------------
(* Reed-Solomon over GF(2^8) *)

\* Exclusive or of two bytes, by halves: XorOfHalves[16 * a + b + 1] is that of a and b.
XorOfHalves ==
    LET Differ(n, k) == IF Bit(n, k) # Bit(n, k + 4) THEN 2^k ELSE 0
    IN Computed([n \in 1 .. 256 |-> Differ(n - 1, 0) + Differ(n - 1, 1) + Differ(n - 1, 2) + Differ(n - 1, 3)])
Xor(a, b) == 16 * XorOfHalves[16 * (a \div 16) + (b \div 16) + 1] + XorOfHalves[16 * (a % 16) + (b % 16) + 1]

\* Twice z, modulo x^8 + x^4 + x^3 + x^2 + 1.
Double(z) == IF z >= 128 THEN Xor(2 * z - 256, 29) ELSE 2 * z
rsMultiply(x, y) ==
    LET Step(z, i) == IF Bit(y, i) = 1 THEN Xor(Double(z), x) ELSE Double(z)
    IN Step(Step(Step(Step(Step(Step(Step(Step(0, 7), 6), 5), 4), 3), 2), 1), 0)

\* The coefficients of the product of x - 2^i for i below degree, but for the first.
rsDivisor(degree) ==
    LET Times(result, root) ==
            LET shifted == Append(Tail(result), 0)
            IN Computed([j \in DOMAIN shifted |-> Xor(rsMultiply(result[j], root), shifted[j])])
        product[i \in 0 .. degree, root \in Byte, result \in Seq(Byte)] ==
            IF i = degree THEN result ELSE product[i + 1, rsMultiply(root, 2), Times(result, root)]
    IN product[0, 1, Computed([j \in 1 .. degree |-> IF j = degree THEN 1 ELSE 0])]

rsRemainder(data, divisor) ==
    LET Step(result, b) ==
            LET factor == Xor(b, Head(result))
                shifted == Append(Tail(result), 0)
            IN Computed([j \in DOMAIN shifted |-> Xor(shifted[j], rsMultiply(divisor[j], factor))])
        remainder[k \in 0 .. Len(data), result \in Seq(Byte)] ==
            IF k = Len(data) THEN result ELSE remainder[k + 1, Step(result, data[k + 1])]
    IN remainder[0, Computed([j \in DOMAIN divisor |-> 0])]

\* Data codewords of a block: the first blocks are one shorter.
BlockLen(version, i) ==
    LET numBlocks == NUM_ERROR_CORRECTION_BLOCKS[version]
        rawCodewords == numRawDataModules(version) \div 8
        numShortBlocks == numBlocks - (rawCodewords % numBlocks)
    IN (rawCodewords \div numBlocks) - ECC_CODEWORDS_PER_BLOCK[version] + (IF i <= numShortBlocks THEN 0 ELSE 1)
BlockStart(version, i) == FoldLeft(LAMBDA k, j : k + BlockLen(version, j), 0, [j \in 1 .. (i - 1) |-> j])

\* The data of the blocks one codeword of each at a time, then their error correction.
addEccAndInterleave(data, version) ==
    LET blocks == 1 .. NUM_ERROR_CORRECTION_BLOCKS[version]
        longest == BlockLen(version, NUM_ERROR_CORRECTION_BLOCKS[version])
        degree == ECC_CODEWORDS_PER_BLOCK[version]
        divisor == rsDivisor(degree)
        DataOf(j) == LET start == BlockStart(version, j)
                     IN SubSeq(data, start + 1, start + BlockLen(version, j))
        dataOf == Computed([j \in blocks |-> DataOf(j)])
        eccOf == Computed([j \in blocks |-> rsRemainder(dataOf[j], divisor)])
        DataColumn(i) == LET column == SelectSeq(dataOf, LAMBDA d : i <= Len(d))
                         IN [j \in DOMAIN column |-> column[j][i]]
        EccColumn(i) == [j \in DOMAIN eccOf |-> eccOf[j][i]]
    IN FlattenSeq([i \in 1 .. longest |-> DataColumn(i)]) \o FlattenSeq([i \in 1 .. degree |-> EccColumn(i)])

-----------------------------------------------------------------------------
(* Data encoding *)

Bits(value, length) == [i \in 1 .. length |-> Bit(value, length - i)]
\* Mutant: a count of 8 bits in version 10 too.
LengthBits_Ten(version) == IF version <= 10 THEN 8 ELSE 16
LengthBits(version) == IF version <= 9 THEN 8 ELSE 16
Lower(a, b) == IF a < b THEN a ELSE b

dataCodewords(bytes, version) ==
    LET capacityBits == numDataCodewords(version) * 8
        header == Bits(4, 4) \o Bits(Len(bytes), LengthBits(version))
        content == header \o FlattenSeq([i \in 1 .. Len(bytes) |-> Bits(bytes[i], 8)])
        terminated == content \o Bits(0, Lower(4, capacityBits - Len(content)))
        whole == terminated \o Bits(0, (8 - (Len(terminated) % 8)) % 8)
        pads == (capacityBits - Len(whole)) \div 8
        bits == whole \o FlattenSeq([i \in 1 .. pads |-> Bits(IF i % 2 = 1 THEN 236 ELSE 17, 8)])
    IN Computed([i \in 1 .. (Len(bits) \div 8) |->
            FoldLeft(LAMBDA b, j : 2 * b + bits[8 * (i - 1) + j], 0, <<1, 2, 3, 4, 5, 6, 7, 8>>)])

\* The smallest version that fits; 0 for a text that is too long.
chooseVersion(byteLength) ==
    LET fits == {v \in VERSIONS : 4 + LengthBits(v) + byteLength * 8 <= numDataCodewords(v) * 8}
    IN IF fits = {} THEN 0 ELSE CHOOSE v \in fits : \A w \in fits : v <= w

-----------------------------------------------------------------------------
(* The symbol *)

Size(version) == version * 4 + 17
Modules(size) == (0 .. (size - 1)) \X (0 .. (size - 1))
Distance(p, center) ==
    LET dx == IF p[1] < center[1] THEN center[1] - p[1] ELSE p[1] - center[1]
        dy == IF p[2] < center[2] THEN center[2] - p[2] ELSE p[2] - center[2]
    IN IF dx < dy THEN dy ELSE dx

\* A layer of function modules, and those of them that are dark, over what is drawn.
Draw(drawn, modules, dark) ==
    [isFunction |-> drawn.isFunction \cup modules, dark |-> (drawn.dark \ modules) \cup dark]

Timing(drawn, size) ==
    LET line == 0 .. (size - 1)
        even == {i \in line : i % 2 = 0}
    IN Draw(drawn, ({6} \X line) \cup (line \X {6}), ({6} \X even) \cup (even \X {6}))
Finder(drawn, size, center) ==
    LET near == {p \in Modules(size) : Distance(p, center) <= 4}
    IN Draw(drawn, near, {p \in near : Distance(p, center) \notin {2, 4}})
Alignments(drawn, version) ==
    LET positions == alignmentPatternPositions(version)
        far == Size(version) - 7
        centers == (positions \X positions) \ {<<6, 6>>, <<6, far>>, <<far, 6>>}
        Square(c) == ((c[1] - 2) .. (c[1] + 2)) \X ((c[2] - 2) .. (c[2] + 2))
    IN Draw(drawn, UNION {Square(c) : c \in centers},
            UNION {{p \in Square(c) : Distance(p, c) # 1} : c \in centers})

\* The format word: the data, its remainder by 0x537, and 0x5412 over both.
Mod2(value, generator, length) ==
    FoldLeft(LAMBDA r, i : IF Bit(r, length - 1) = 1
                           THEN LET s == 2 * r
                                    Both(k) == (Bit(s, k) + Bit(generator, k)) % 2
                                IN FoldLeft(LAMBDA v, k : v + Both(k) * 2^k, 0, [k \in 1 .. length |-> k - 1])
                           ELSE 2 * r,
             value, [i \in 1 .. length |-> i])
\* Those of its bits that are set.
FormatBits(mask) ==
    LET data == ECL_FORMAT_BITS * 8 + mask
        word == data * 1024 + Mod2(data, 1335, 10)
    IN {i \in 0 .. 14 : Bit(word, i) # Bit(21522, i)}
drawFormatBits(drawn, size, mask) ==
    LET bits == FormatBits(mask)
        first == [i \in 0 .. 14 |->
            IF i <= 5 THEN <<8, i>> ELSE IF i = 6 THEN <<8, 7>> ELSE IF i = 7 THEN <<8, 8>>
            ELSE IF i = 8 THEN <<7, 8>> ELSE <<14 - i, 8>>]
        second == [i \in 0 .. 14 |-> IF i < 8 THEN <<size - 1 - i, 8>> ELSE <<8, size - 15 + i>>]
        darkModule == <<8, size - 8>>
    IN Draw(drawn, {first[i] : i \in 0 .. 14} \cup {second[i] : i \in 0 .. 14} \cup {darkModule},
            {first[i] : i \in bits} \cup {second[i] : i \in bits} \cup {darkModule})
drawVersion(drawn, version) ==
    LET word == version * 4096 + Mod2(version, 7973, 12)
        bits == {i \in 0 .. 17 : Bit(word, i) = 1}
        a(i) == Size(version) - 11 + (i % 3)
        b(i) == i \div 3
        Both(I) == {<<a(i), b(i)>> : i \in I} \cup {<<b(i), a(i)>> : i \in I}
    IN IF version < 7 THEN drawn ELSE Draw(drawn, Both(0 .. 17), Both(bits))

drawFunctionPatterns(version) ==
    LET size == Size(version)
        timing == Timing([isFunction |-> {}, dark |-> {}], size)
        finders == Finder(Finder(Finder(timing, size, <<3, 3>>), size, <<size - 4, 3>>), size, <<3, size - 4>>)
    IN drawVersion(drawFormatBits(Alignments(finders, version), size, 0), version)

\* The modules two columns at a time from the right, up and down, but for column 6.
Zigzag(size) ==
    LET Right(c) == IF size - 1 - 2 * c <= 6 THEN size - 2 - 2 * c ELSE size - 1 - 2 * c
        Upward(right) == ((right + 1) \div 2) % 2 = 0
    IN [n \in 1 .. (size - 1) * size |->
            LET right == Right((n - 1) \div (2 * size))
                vertical == ((n - 1) % (2 * size)) \div 2
            IN <<right - ((n - 1) % 2), IF Upward(right) THEN size - 1 - vertical ELSE vertical>>]

\* The dark modules among those no function pattern takes: the codewords' bits from the
\* highest, the modules left over stay light.
drawCodewords(functionModules, codewords, size) ==
    LET free == SelectSeq(Zigzag(size), LAMBDA p : p \notin functionModules)
    IN {free[i] : i \in {k \in 1 .. 8 * Len(codewords) :
                            Bit(codewords[((k - 1) \div 8) + 1], 7 - ((k - 1) % 8)) = 1}}

maskApplies(mask, p) ==
    LET x == p[1]  y == p[2]
    IN CASE mask = 0 -> (x + y) % 2 = 0
         [] mask = 1 -> y % 2 = 0
         [] mask = 2 -> x % 3 = 0
         [] mask = 3 -> (x + y) % 3 = 0
         [] mask = 4 -> ((x \div 3) + (y \div 2)) % 2 = 0
         [] mask = 5 -> ((x * y) % 2) + ((x * y) % 3) = 0
         [] mask = 6 -> (((x * y) % 2) + ((x * y) % 3)) % 2 = 0
         [] OTHER -> (((x + y) % 2) + ((x * y) % 3)) % 2 = 0

\* The symbol of a text for each mask; the page takes the mask of the lowest penalty.
encode(bytes) ==
    LET version == chooseVersion(Len(bytes))
        size == Size(version)
        patterns == drawFunctionPatterns(version)
        data == drawCodewords(patterns.isFunction, addEccAndInterleave(dataCodewords(bytes, version), version), size)
        applyMask(mask) == {p \in Modules(size) \ patterns.isFunction : (p \in data) # maskApplies(mask, p)}
    IN [mask \in 0 .. 7 |-> drawFormatBits(patterns, size, mask).dark \cup applyMask(mask)]
=============================================================================
