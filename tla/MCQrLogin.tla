------------------------------ MODULE MCQrLogin ------------------------------
EXTENDS QrCode, QrReader, QrLogin
MCUserOf == [p \in Page |-> "user"]
MCMaxGeneration == [p \in Page |-> IF p = 1 THEN 3 ELSE 1]

\* The URL a page puts in the symbol: its origin, the fragment's name and the code.  Page
\* 1's fits a symbol of version 5 with room to spare; page 2's, of a long host name, fills
\* one of version 10, the first with a count of 16 bits and blocks that differ in length.
LinkLength(p) == IF p = 1 THEN 80 ELSE 213
SymbolSize(p) == IF p = 1 THEN 37 ELSE 57
Link(p, c) ==
    [i \in 1 .. LinkLength(p) |->
        33 + (((i % 7) * (i + IF i <= LinkLength(p) - 43 THEN 0 ELSE c)) % 94)]
Drawn == UNION {LET symbols == encode(Link(p, c))
                IN {<<p, c, Bitstream(symbols[mask], SymbolSize(p))>> : mask \in 0 .. 7} :
                    p \in Page, c \in Code}
Unreadable == -1
CodeIn(text, p) ==
    IF \E c \in Code : text = Link(p, c) THEN CHOOSE c \in Code : text = Link(p, c) ELSE Unreadable
Scanned == {<<d[1], d[2], CodeIn(Text(d[3], (SymbolSize(d[1]) - 17) \div 4), d[1])>> : d \in Drawn}
MCReads == Scanned
=============================================================================
