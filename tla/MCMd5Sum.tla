------------------------------ MODULE MCMd5Sum ------------------------------
(* Md5Sum on the texts of RFC 1321's test suite (A.5) and on files whose   *)
(* lengths lie around the boundaries of padding and of a block.            *)
EXTENDS Md5Sum, Md5Block

Letters(first, n) == [i \in 1 .. n |-> first + i - 1]
Digits(n) == [i \in 1 .. n |-> 48 + (i % 10)]

\* The suite, "" to the 80 digits, and its digests.
Suite == <<
    [text |-> <<>>,
     md5  |-> <<\hD4, \h1D, \h8C, \hD9, \h8F, \h00, \hB2, \h04,
                \hE9, \h80, \h09, \h98, \hEC, \hF8, \h42, \h7E>>],
    [text |-> Letters(97, 1),
     md5  |-> <<\h0C, \hC1, \h75, \hB9, \hC0, \hF1, \hB6, \hA8,
                \h31, \hC3, \h99, \hE2, \h69, \h77, \h26, \h61>>],
    [text |-> Letters(97, 3),
     md5  |-> <<\h90, \h01, \h50, \h98, \h3C, \hD2, \h4F, \hB0,
                \hD6, \h96, \h3F, \h7D, \h28, \hE1, \h7F, \h72>>],
    [text |-> Letters(97, 26),
     md5  |-> <<\hC3, \hFC, \hD3, \hD7, \h61, \h92, \hE4, \h00,
                \h7D, \hFB, \h49, \h6C, \hCA, \h67, \hE1, \h3B>>],
    [text |-> Letters(65, 26) \o Letters(97, 26) \o Letters(48, 10),
     md5  |-> <<\hD1, \h74, \hAB, \h98, \hD2, \h77, \hD9, \hF5,
                \hA5, \h61, \h1C, \h2C, \h9F, \h41, \h9D, \h9F>>],
    [text |-> Digits(80),
     md5  |-> <<\h57, \hED, \hF4, \hA2, \h2B, \hE3, \hC9, \h55,
                \hAC, \h49, \hDA, \h2E, \h21, \h07, \hB6, \h7A>>] >>

Lengths == {55, 56, 57, 63, 64, 65, 120, 128, 129, 255}

MCFiles == {Suite[i].text : i \in DOMAIN Suite}
             \union {[i \in 1 .. n |-> (7 * i) % 256] : n \in Lengths}

\* The MD5 of a file is that of RFC 1321 for the bytes that could be read, as
\* long as md5() had memory for its state.
SumIsMd5 ==
    sum_buffer # Nil /\ ~noMemory => sum_buffer = Digest(SubSeq(file, 1, taken))

\* The digests of RFC 1321's test suite, which md5sum.c says it computes
\* (md5sum.c:19), come out however fread cuts the texts.
RfcSuite ==
    \A i \in DOMAIN Suite :
        file = Suite[i].text /\ taken = Len(file) /\ sum_buffer # Nil /\ ~noMemory
          => sum_buffer = Suite[i].md5
=============================================================================
