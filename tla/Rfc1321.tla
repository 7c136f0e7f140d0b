------------------------------ MODULE Rfc1321 ------------------------------
(***************************************************************************)
(* MD5 as RFC 1321 defines it: what md5sum.c promises to compute.          *)
(***************************************************************************)
EXTENDS Words32, Rfc1321Padding, SequencesExt

\* 4294967296 times abs(sin(i)), the integer part.
T == <<
    <<\hD76A, \hA478>>, <<\hE8C7, \hB756>>, <<\h2420, \h70DB>>, <<\hC1BD, \hCEEE>>,
    <<\hF57C, \h0FAF>>, <<\h4787, \hC62A>>, <<\hA830, \h4613>>, <<\hFD46, \h9501>>,
    <<\h6980, \h98D8>>, <<\h8B44, \hF7AF>>, <<\hFFFF, \h5BB1>>, <<\h895C, \hD7BE>>,
    <<\h6B90, \h1122>>, <<\hFD98, \h7193>>, <<\hA679, \h438E>>, <<\h49B4, \h0821>>,
    <<\hF61E, \h2562>>, <<\hC040, \hB340>>, <<\h265E, \h5A51>>, <<\hE9B6, \hC7AA>>,
    <<\hD62F, \h105D>>, <<\h0244, \h1453>>, <<\hD8A1, \hE681>>, <<\hE7D3, \hFBC8>>,
    <<\h21E1, \hCDE6>>, <<\hC337, \h07D6>>, <<\hF4D5, \h0D87>>, <<\h455A, \h14ED>>,
    <<\hA9E3, \hE905>>, <<\hFCEF, \hA3F8>>, <<\h676F, \h02D9>>, <<\h8D2A, \h4C8A>>,
    <<\hFFFA, \h3942>>, <<\h8771, \hF681>>, <<\h6D9D, \h6122>>, <<\hFDE5, \h380C>>,
    <<\hA4BE, \hEA44>>, <<\h4BDE, \hCFA9>>, <<\hF6BB, \h4B60>>, <<\hBEBF, \hBC70>>,
    <<\h289B, \h7EC6>>, <<\hEAA1, \h27FA>>, <<\hD4EF, \h3085>>, <<\h0488, \h1D05>>,
    <<\hD9D4, \hD039>>, <<\hE6DB, \h99E5>>, <<\h1FA2, \h7CF8>>, <<\hC4AC, \h5665>>,
    <<\hF429, \h2244>>, <<\h432A, \hFF97>>, <<\hAB94, \h23A7>>, <<\hFC93, \hA039>>,
    <<\h655B, \h59C3>>, <<\h8F0C, \hCC92>>, <<\hFFEF, \hF47D>>, <<\h8584, \h5DD1>>,
    <<\h6FA8, \h7E4F>>, <<\hFE2C, \hE6E0>>, <<\hA301, \h4314>>, <<\h4E08, \h11A1>>,
    <<\hF753, \h7E82>>, <<\hBD3A, \hF235>>, <<\h2AD7, \hD2BB>>, <<\hEB86, \hD391>> >>

\* Step 3.4: the functions of the four rounds, the word each operation uses
\* and how far it rotates.
F(X, Y, Z) == OrW(AndW(X, Y), AndW(NotW(X), Z))
G(X, Y, Z) == F(Z, X, Y)
H(X, Y, Z) == XorW(X, XorW(Y, Z))
I(X, Y, Z) == XorW(Y, OrW(X, NotW(Z)))

Word(i)  == CASE i < 16 -> i
              [] i \in 16 .. 31 -> (5 * i + 1) % 16
              [] i \in 32 .. 47 -> (3 * i + 5) % 16
              [] OTHER -> (7 * i) % 16
Shift(i) == << <<7, 12, 17, 22>>, <<5, 9, 14, 20>>,
               <<4, 11, 16, 23>>, <<6, 10, 15, 21>> >>[(i \div 16) + 1][(i % 4) + 1]

\* One operation [abcd k s i], in which the registers keep their places: the
\* i-th one writes to A, D, C, B in turn.
Operation(reg, X, i) ==
    LET at(j) == ((j + 3 * i) % 4) + 1
        b == reg[at(1)]
        c == reg[at(2)]
        d == reg[at(3)]
        f == CASE i < 16 -> F(b, c, d)
               [] i \in 16 .. 31 -> G(b, c, d)
               [] i \in 32 .. 47 -> H(b, c, d)
               [] OTHER -> I(b, c, d)
        sum == Add(Add(reg[at(0)], f), Add(X[Word(i) + 1], T[i + 1]))
    IN  [reg EXCEPT ![at(0)] = Add(b, Rotate(sum, Shift(i)))]

Block(reg, bytes) ==
    LET X == [k \in 1 .. 16 |-> FromBytes(SubSeq(bytes, 4 * k - 3, 4 * k))]
        after == FoldLeftDomain(LAMBDA r, i : Operation(r, X, i - 1), reg, T)
    IN  [j \in 1 .. 4 |-> Add(reg[j], after[j])]

Start == << <<\h6745, \h2301>>, <<\hEFCD, \hAB89>>,
            <<\h98BA, \hDCFE>>, <<\h1032, \h5476>> >>

Digest(message) ==
    LET m   == Padded(message)
        reg == FoldLeft(LAMBDA r, k : Block(r, Piece(m, k)),
                        Start, [k \in 1 .. Len(m) \div 64 |-> k])
    IN  ToBytes(reg[1]) \o ToBytes(reg[2]) \o ToBytes(reg[3]) \o ToBytes(reg[4])
=============================================================================
