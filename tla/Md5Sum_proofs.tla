--------------------------- MODULE Md5Sum_proofs ---------------------------
(***************************************************************************)
(* Proofs about Md5Sum, for files of any length below 4 GB, any pieces,    *)
(* any buffer and whatever md5() makes of one block: the last piece has    *)
(* room for its padding (PaddingRoom), and the digest is that of the file  *)
(* padded as a whole (CutsDoNotMatter).                                    *)
(***************************************************************************)
EXTENDS Md5Sum, WellFoundedInduction, SequenceTheorems, TLAPS

\* The equation that Blocks solves for n blocks.
Chain(t, state, p, n) ==
    t = [k \in 0 .. n |-> IF k = 0 THEN state ELSE Transform(t[k - 1], Piece(p, k))]

\* t has the states from first to last, with the first n blocks of p in between.
States(t, first, p, n, last) ==
    /\ t[0] = first /\ t[n] = last
    /\ \A k \in 1 .. n : t[k] = Transform(t[k - 1], Piece(p, k))

-----------------------------------------------------------------------------
(* The blocks of a sequence of bytes.                                      *)

\* A set of naturals that has 0 and with every number the next is all of them.
LEMMA SetInduction ==
    ASSUME NEW S, 0 \in S, \A n \in Nat : n \in S => n + 1 \in S
    PROVE  Nat \subseteq S
<1> SUFFICES ASSUME Nat \ S # {} PROVE FALSE
  OBVIOUS
<1>1. PICK least \in Nat \ S :
        \A y \in Nat \ S : ~(<<y, least>> \in OpToRel(<, Nat))
  <2>1. Nat \ S \subseteq Nat
    OBVIOUS
  <2> QED
    BY <2>1, NatLessThanWellFounded, WFMin
<1>2. \A y \in Nat \ S : ~(y < least)
  BY <1>1 DEF OpToRel
<1>3. least - 1 \in Nat /\ least - 1 < least /\ least - 1 + 1 = least
  OBVIOUS
<1> QED
  BY <1>2, <1>3

\* There are states between the blocks, for any number of them.
LEMMA ChainExists ==
    ASSUME NEW state, NEW p
    PROVE  \A n \in Nat : \E t : Chain(t, state, p, n)
<1> DEFINE S == {n \in Nat : \E t : Chain(t, state, p, n)}
<1>1. 0 \in S
  <2>1. Chain([k \in 0 .. 0 |-> state], state, p, 0)
    BY DEF Chain
  <2> QED
    BY <2>1
<1>2. ASSUME NEW n \in Nat, n \in S PROVE n + 1 \in S
  <2>1. PICK t : Chain(t, state, p, n)
    BY <1>2
  <2> DEFINE u == [k \in 0 .. n + 1 |->
                     IF k = n + 1 THEN Transform(t[n], Piece(p, n + 1)) ELSE t[k]]
  <2>2. t[0] = state /\ \A k \in 1 .. n : t[k] = Transform(t[k - 1], Piece(p, k))
    BY <2>1 DEF Chain
  <2>3. ASSUME NEW k \in 0 .. n + 1
        PROVE  u[k] = IF k = 0 THEN state ELSE Transform(u[k - 1], Piece(p, k))
    <3>1. CASE k = 0
      BY <2>2, <3>1
    <3>2. CASE k \in 1 .. n
      <4>1. k - 1 \in 0 .. n + 1 /\ k - 1 # n + 1 /\ k # n + 1 /\ k # 0
        BY <3>2
      <4> QED
        BY <2>2, <3>2, <4>1
    <3>3. CASE k = n + 1
      <4>1. k - 1 = n /\ n \in 0 .. n + 1 /\ n # n + 1 /\ k # 0
        BY <3>3
      <4> QED
        BY <3>3, <4>1
    <3> QED
      BY <3>1, <3>2, <3>3
  <2> HIDE DEF u
  <2>4. u = [k \in 0 .. n + 1 |-> u[k]]
    BY DEF u
  <2>5. Chain(u, state, p, n + 1)
    BY <2>3, <2>4 DEF Chain
  <2> QED
    BY <2>5
<1> HIDE DEF S
<1>3. Nat \subseteq S
  BY <1>1, <1>2, SetInduction
<1> QED
  BY <1>3 DEF S

\* Blocks goes from state to state.
LEMMA BlockByBlock ==
    ASSUME NEW state, NEW p, Len(p) \in Nat
    PROVE  \E t : States(t, state, p, Len(p) \div 64, Blocks(state, p))
<1> DEFINE n == Len(p) \div 64
           t == CHOOSE u : Chain(u, state, p, n)
<1>1. n \in Nat
  OBVIOUS
<1>2. Chain(t, state, p, n)
  BY <1>1, ChainExists
<1>3. Blocks(state, p) = t[n]
  BY DEF Blocks, Chain
<1> HIDE DEF t, n
<1>4. t[0] = state /\ \A k \in 1 .. n : t[k] = Transform(t[k - 1], Piece(p, k))
  BY <1>1, <1>2 DEF Chain
<1> QED
  BY <1>3, <1>4 DEF n, States

\* The k-th block, byte by byte.
LEMMA PieceBytes ==
    ASSUME NEW p \in Seq(Nat), NEW k \in Nat \ {0}, 64 * k <= Len(p)
    PROVE  /\ Piece(p, k) \in Seq(Nat) /\ Len(Piece(p, k)) = 64
           /\ \A i \in 1 .. 64 : Piece(p, k)[i] = p[64 * k - 64 + i]
<1> DEFINE from == 64 * k - 63
           to == 64 * k
           q == SubSeq(p, from, to)
<1>1. from \in Int /\ to \in Int /\ \A i \in from .. to : p[i] \in Nat
  OBVIOUS
<1>2. to - from + 1 = 64 /\ from <= to
  OBVIOUS
<1>3. \A i \in 1 .. 64 : from + i - 1 = 64 * k - 64 + i
  OBVIOUS
<1>4. q = Piece(p, k)
  BY DEF Piece
<1> HIDE DEF from, to
<1>5. /\ q \in Seq(Nat) /\ Len(q) = IF from <= to THEN to - from + 1 ELSE 0
      /\ \A i \in 1 .. to - from + 1 : q[i] = p[from + i - 1]
  BY <1>1, SubSeqProperties
<1> HIDE DEF q
<1>6. /\ q \in Seq(Nat) /\ Len(q) = 64
      /\ \A i \in 1 .. 64 : q[i] = p[64 * k - 64 + i]
  <2>1. q \in Seq(Nat) /\ Len(q) = 64
    BY <1>2, <1>5
  <2>2. ASSUME NEW i \in 1 .. 64 PROVE q[i] = p[64 * k - 64 + i]
    <3>1. i \in 1 .. to - from + 1 /\ from + i - 1 = 64 * k - 64 + i
      BY <1>2, <1>3
    <3> QED
      BY <1>5, <3>1
  <2> QED
    BY <2>1, <2>2
<1> QED
  BY <1>4, <1>6

\* Whole blocks first: how many there are, and where they stand.
LEMMA BlockCount ==
    ASSUME NEW a \in Nat, NEW b \in Nat, a % 64 = 0
    PROVE  /\ a \div 64 \in Nat /\ b \div 64 \in Nat
           /\ 64 * (a \div 64) = a /\ 64 * (b \div 64) <= b
           /\ (a + b) \div 64 = a \div 64 + b \div 64
  OBVIOUS

\* The blocks of p \o q are those of p and then those of q, when p is whole blocks.
LEMMA PiecesOfTwo ==
    ASSUME NEW p \in Seq(Nat), NEW q \in Seq(Nat), Len(p) % 64 = 0
    PROVE  /\ \A k \in 1 .. Len(p) \div 64 : Piece(p \o q, k) = Piece(p, k)
           /\ \A k \in 1 .. Len(q) \div 64 :
                Piece(p \o q, Len(p) \div 64 + k) = Piece(q, k)
           /\ Len(p \o q) \div 64 = Len(p) \div 64 + Len(q) \div 64
<1> DEFINE a == Len(p)
           b == Len(q)
           n == a \div 64
           m == b \div 64
           x == p \o q
<1>1. a \in Nat /\ b \in Nat /\ a % 64 = 0
  OBVIOUS
<1>2. /\ x \in Seq(Nat) /\ Len(x) = a + b
      /\ \A i \in 1 .. a + b : x[i] = IF i <= a THEN p[i] ELSE q[i - a]
  BY ConcatProperties
<1> HIDE DEF a, b, x
<1>3. n \in Nat /\ m \in Nat /\ 64 * n = a /\ 64 * m <= b /\ (a + b) \div 64 = n + m
  BY <1>1, BlockCount
<1>4. Len(x) \in Nat /\ Len(x) = a + b
  BY <1>1, <1>2
<1> HIDE DEF n, m
<1>5. ASSUME NEW k \in 1 .. n PROVE Piece(x, k) = Piece(p, k)
  <2>1. k \in Nat \ {0} /\ 64 * k <= a /\ 64 * k <= a + b
    BY <1>1, <1>3
  <2> DEFINE y == Piece(x, k)
             z == Piece(p, k)
  <2>2. /\ z \in Seq(Nat) /\ Len(z) = 64
        /\ \A i \in 1 .. 64 : z[i] = p[64 * k - 64 + i]
    BY <2>1, PieceBytes DEF a
  <2>3. /\ y \in Seq(Nat) /\ Len(y) = 64
        /\ \A i \in 1 .. 64 : y[i] = x[64 * k - 64 + i]
    <3>1. x \in Seq(Nat) /\ k \in Nat \ {0} /\ 64 * k <= Len(x)
      BY <1>2, <2>1
    <3> QED
      BY <3>1, PieceBytes
  <2> HIDE DEF y, z
  <2>4. ASSUME NEW i \in 1 .. 64 PROVE y[i] = z[i]
    <3> DEFINE j == 64 * k - 64 + i
    <3>1. j \in 1 .. a + b /\ j <= a
      BY <1>1, <2>1
    <3>2. y[i] = x[j] /\ z[i] = p[j]
      BY <2>2, <2>3
    <3> HIDE DEF j
    <3> QED
      BY <1>2, <3>1, <3>2
  <2>5. Len(y) = Len(z) /\ \A i \in 1 .. Len(y) : y[i] = z[i]
    BY <2>2, <2>3, <2>4
  <2>6. y = z
    BY <2>2, <2>3, <2>5, SeqEqual
  <2> QED
    BY <2>6 DEF y, z
<1>6. ASSUME NEW k \in 1 .. m PROVE Piece(x, n + k) = Piece(q, k)
  <2> DEFINE l == n + k
  <2>1. /\ k \in Nat \ {0} /\ 64 * k <= b
        /\ l \in Nat \ {0} /\ 64 * l <= a + b /\ 64 * l = a + 64 * k
    BY <1>1, <1>3
  <2> DEFINE y == Piece(x, l)
             z == Piece(q, k)
  <2>2. /\ z \in Seq(Nat) /\ Len(z) = 64
        /\ \A i \in 1 .. 64 : z[i] = q[64 * k - 64 + i]
    BY <2>1, PieceBytes DEF b
  <2> HIDE DEF l
  <2>3. /\ y \in Seq(Nat) /\ Len(y) = 64
        /\ \A i \in 1 .. 64 : y[i] = x[64 * l - 64 + i]
    <3>1. x \in Seq(Nat) /\ l \in Nat \ {0} /\ 64 * l <= Len(x)
      BY <1>2, <2>1
    <3> QED
      BY <3>1, PieceBytes
  <2> HIDE DEF y, z
  <2>4. ASSUME NEW i \in 1 .. 64 PROVE y[i] = z[i]
    <3> DEFINE j == 64 * l - 64 + i
               h == 64 * k - 64 + i
    <3>1. j \in 1 .. a + b /\ ~(j <= a) /\ j - a = h
      BY <1>1, <2>1
    <3>2. y[i] = x[j] /\ z[i] = q[h]
      BY <2>2, <2>3
    <3> HIDE DEF j, h
    <3> QED
      BY <1>2, <3>1, <3>2
  <2>5. Len(y) = Len(z) /\ \A i \in 1 .. Len(y) : y[i] = z[i]
    BY <2>2, <2>3, <2>4
  <2>6. y = z
    BY <2>2, <2>3, <2>5, SeqEqual
  <2> QED
    BY <2>6 DEF y, z, l
<1> QED
  BY <1>3, <1>4, <1>5, <1>6 DEF n, m, a, b, x

\* md5() may be given whole blocks first and the others later.
LEMMA BlocksOfTwo ==
    ASSUME NEW state, NEW p \in Seq(Nat), NEW q \in Seq(Nat), Len(p) % 64 = 0
    PROVE  Blocks(state, p \o q) = Blocks(Blocks(state, p), q)
<1> DEFINE n == Len(p) \div 64
           m == Len(q) \div 64
           x == p \o q
           middle == Blocks(state, p)
<1>1. /\ n \in Nat /\ m \in Nat /\ Len(p) \in Nat /\ Len(q) \in Nat
      /\ Len(x) \in Nat
  <2>1. x \in Seq(Nat)
    BY ConcatProperties
  <2> QED
    BY <2>1
<1>2. /\ \A k \in 1 .. n : Piece(x, k) = Piece(p, k)
      /\ \A k \in 1 .. m : Piece(x, n + k) = Piece(q, k)
      /\ Len(x) \div 64 = n + m
  BY PiecesOfTwo
<1>a. PICK a : States(a, state, p, n, middle)
  BY <1>1, BlockByBlock
<1>b. PICK b : States(b, middle, q, m, Blocks(middle, q))
  BY <1>1, BlockByBlock
<1>t. PICK t : States(t, state, x, n + m, Blocks(state, x))
  BY <1>1, <1>2, BlockByBlock
<1> HIDE DEF n, m, x, middle
<1>3. /\ a[0] = state /\ a[n] = middle
      /\ \A k \in 1 .. n : a[k] = Transform(a[k - 1], Piece(p, k))
  BY <1>a DEF States
<1>4. /\ b[0] = middle /\ b[m] = Blocks(middle, q)
      /\ \A k \in 1 .. m : b[k] = Transform(b[k - 1], Piece(q, k))
  BY <1>b DEF States
<1>6. /\ t[0] = state /\ t[n + m] = Blocks(state, x)
      /\ \A k \in 1 .. n + m : t[k] = Transform(t[k - 1], Piece(x, k))
  BY <1>t DEF States
<1>7. t[n] = a[n]
  <2> DEFINE S == {k \in Nat : k <= n => t[k] = a[k]}
  <2>1. 0 \in S
    BY <1>3, <1>6
  <2>2. ASSUME NEW k \in Nat, k \in S PROVE k + 1 \in S
    <3> SUFFICES ASSUME k + 1 <= n PROVE t[k + 1] = a[k + 1]
      OBVIOUS
    <3> DEFINE l == k + 1
    <3>1. l \in 1 .. n /\ l \in 1 .. n + m /\ l - 1 = k /\ t[k] = a[k]
      BY <1>1, <2>2
    <3> HIDE DEF l
    <3>2. t[l] = a[l]
      BY <1>2, <1>3, <1>6, <3>1
    <3> QED
      BY <3>2 DEF l
  <2> HIDE DEF S
  <2>3. Nat \subseteq S
    BY <2>1, <2>2, SetInduction
  <2> QED
    BY <1>1, <2>3 DEF S
<1>8. t[n + m] = b[m]
  <2> DEFINE S == {k \in Nat : k <= m => t[n + k] = b[k]}
  <2>1. 0 \in S
    <3>1. n + 0 = n
      BY <1>1
    <3> QED
      BY <1>3, <1>4, <1>7, <3>1
  <2>2. ASSUME NEW k \in Nat, k \in S PROVE k + 1 \in S
    <3> SUFFICES ASSUME k + 1 <= m PROVE t[n + (k + 1)] = b[k + 1]
      OBVIOUS
    <3> DEFINE l == k + 1
               j == n + l
    <3>1. /\ l \in 1 .. m /\ l - 1 = k /\ j \in 1 .. n + m /\ j - 1 = n + k
          /\ t[n + k] = b[k]
      BY <1>1, <2>2
    <3>2. Piece(x, j) = Piece(q, l)
      BY <1>2, <3>1
    <3> HIDE DEF j, l
    <3>3. t[j] = b[l]
      BY <1>4, <1>6, <3>1, <3>2
    <3> QED
      BY <3>3 DEF j, l
  <2> HIDE DEF S
  <2>3. Nat \subseteq S
    BY <2>1, <2>2, SetInduction
  <2> QED
    BY <1>1, <2>3 DEF S
<1> QED
  BY <1>4, <1>6, <1>8 DEF x, middle

-----------------------------------------------------------------------------
(* The padding.                                                            *)

\* Four bytes and four more.
LEMMA FourAndFour ==
    ASSUME NEW x \in Seq(Nat), NEW y \in Seq(Nat), Len(x) = 4, Len(y) = 4
    PROVE  x \o y = <<x[1], x[2], x[3], x[4], y[1], y[2], y[3], y[4]>>
<1> DEFINE z == <<x[1], x[2], x[3], x[4], y[1], y[2], y[3], y[4]>>
<1>1. /\ x[1] \in Nat /\ x[2] \in Nat /\ x[3] \in Nat /\ x[4] \in Nat
      /\ y[1] \in Nat /\ y[2] \in Nat /\ y[3] \in Nat /\ y[4] \in Nat
  <2>1. \A i \in 1 .. 4 : x[i] \in Nat
    BY ElementOfSeq
  <2>2. \A i \in 1 .. 4 : y[i] \in Nat
    BY ElementOfSeq
  <2> QED
    BY <2>1, <2>2
<1>2. z \in Seq(Nat) /\ Len(z) = 8
  BY <1>1
<1>3. \A i \in 1 .. 8 : z[i] = IF i <= 4 THEN x[i] ELSE y[i - 4]
  <2>1. /\ z[1] = x[1] /\ z[2] = x[2] /\ z[3] = x[3] /\ z[4] = x[4]
        /\ z[5] = y[1] /\ z[6] = y[2] /\ z[7] = y[3] /\ z[8] = y[4]
    OBVIOUS
  <2> HIDE DEF z
  <2> QED
    BY <2>1
<1> HIDE DEF z
<1>4. /\ x \o y \in Seq(Nat) /\ Len(x \o y) = 8
      /\ \A i \in 1 .. 8 : (x \o y)[i] = IF i <= 4 THEN x[i] ELSE y[i - 4]
  <2>1. /\ x \o y \in Seq(Nat) /\ Len(x \o y) = Len(x) + Len(y)
        /\ \A i \in 1 .. Len(x) + Len(y) :
             (x \o y)[i] = IF i <= Len(x) THEN x[i] ELSE y[i - Len(x)]
    BY ConcatProperties
  <2>2. Len(x) + Len(y) = 8
    OBVIOUS
  <2> QED
    BY <2>1, <2>2
<1>5. \A i \in 1 .. 8 : (x \o y)[i] = z[i]
  BY <1>3, <1>4
<1>6. x \o y = z
  BY <1>2, <1>4, <1>5, SeqEqual
<1> QED
  BY <1>6 DEF z

\* n << 3 and n >> 29 in eight bytes are the length in bits.
LEMMA CountBytes ==
    ASSUME NEW n \in Nat, n \div Half < Half
    PROVE  Encoded(n) = LengthInBits(n) /\ LengthInBits(n) \in Seq(Nat)
<1> DEFINE low == (8 * n) % 65536
           high == (n \div 8192) % 65536
           top == n \div 536870912
           x == <<low % 256, low \div 256, high % 256, high \div 256>>
           y == <<top % 256, top \div 256, 0, 0>>
<1>1. /\ low % 256 = (8 * n) % 256
      /\ low \div 256 = (n \div 32) % 256
  OBVIOUS
<1>2. /\ high % 256 = (n \div 8192) % 256
      /\ high \div 256 = (n \div 2097152) % 256
  OBVIOUS
<1>3. /\ top \in Nat /\ top < 8
  BY DEF Half
<1>4. top % 256 = top /\ top \div 256 = 0
  BY <1>3
<1>5. Encoded(n) = x \o y
  <2>1. 0 % 256 = 0 /\ 0 \div 256 = 0
    OBVIOUS
  <2> QED
    BY <2>1 DEF Encoded, ToBytes, Half
<1>6. LengthInBits(n) = <<low % 256, low \div 256, high % 256, high \div 256,
                          top % 256, top \div 256, 0, 0>>
  BY <1>1, <1>2, <1>4 DEF LengthInBits
<1>7. /\ low % 256 \in Nat /\ low \div 256 \in Nat /\ high % 256 \in Nat
      /\ high \div 256 \in Nat /\ top % 256 \in Nat /\ top \div 256 \in Nat
  OBVIOUS
<1> HIDE DEF low, high, top
<1>8. x \o y = <<low % 256, low \div 256, high % 256, high \div 256,
                 top % 256, top \div 256, 0, 0>>
  <2>1. /\ x \in Seq(Nat) /\ Len(x) = 4
        /\ x[1] = low % 256 /\ x[2] = low \div 256
        /\ x[3] = high % 256 /\ x[4] = high \div 256
    BY <1>7
  <2>2. /\ y \in Seq(Nat) /\ Len(y) = 4
        /\ y[1] = top % 256 /\ y[2] = top \div 256 /\ y[3] = 0 /\ y[4] = 0
    BY <1>7
  <2> HIDE DEF x, y
  <2>3. x \o y = <<x[1], x[2], x[3], x[4], y[1], y[2], y[3], y[4]>>
    BY <2>1, <2>2, FourAndFour
  <2> QED
    BY <2>1, <2>2, <2>3
<1> QED
  BY <1>5, <1>6, <1>7, <1>8

\* The padding of a piece is that of the whole before which whole blocks were fed.
LEMMA PaddingOfPiece ==
    ASSUME NEW n \in Nat, NEW l \in Nat, l % 64 = 0
    PROVE  /\ PadLength(n) = 1 + ((119 - ((l + n) % 64)) % 64)
           /\ (119 - ((l + n) % 64)) % 64 \in Nat
           /\ PadLength(n) \in 1 .. 64 /\ (n + PadLength(n) + 8) % 64 = 0
<1> DEFINE i == n % 64
<1>1. i \in 0 .. 63 /\ (l + n) % 64 = i
  OBVIOUS
<1>2. PadLength(n) = IF i < 56 THEN 56 - i ELSE 120 - i
  BY DEF PadLength
<1>3. (n + (56 - i) + 8) % 64 = 0 /\ (n + (120 - i) + 8) % 64 = 0
  OBVIOUS
<1> HIDE DEF i
<1>4. (119 - i) % 64 = IF i < 56 THEN 55 - i ELSE 119 - i
  <2>1. 119 - i = 64 + (55 - i) /\ 119 - i \in Nat
    BY <1>1
  <2>2. CASE i < 56
    <3>1. 55 - i \in 0 .. 63
      BY <1>1, <2>2
    <3> QED
      BY <2>1, <2>2, <3>1
  <2>3. CASE ~(i < 56)
    <3>1. 119 - i \in 0 .. 63
      BY <1>1, <2>3
    <3> QED
      BY <2>3, <3>1
  <2> QED
    BY <2>2, <2>3
<1> QED
  BY <1>1, <1>2, <1>3, <1>4

\* A one bit and n zero bytes, in one function and in two sequences.
LEMMA PaddingBytes ==
    ASSUME NEW n \in Nat
    PROVE  /\ <<128>> \o [i \in 1 .. n |-> 0]
                = [i \in 1 .. 1 + n |-> IF i = 1 THEN 128 ELSE 0]
           /\ [i \in 1 .. 1 + n |-> IF i = 1 THEN 128 ELSE 0] \in Seq(Nat)
           /\ <<128>> \in Seq(Nat) /\ [i \in 1 .. n |-> 0] \in Seq(Nat)
<1> DEFINE x == <<128>>
           z == [i \in 1 .. n |-> 0]
           y == [i \in 1 .. 1 + n |-> IF i = 1 THEN 128 ELSE 0]
<1>1. x \in Seq(Nat) /\ z \in Seq(Nat) /\ y \in Seq(Nat)
      /\ Len(x) = 1 /\ Len(z) = n /\ Len(y) = 1 + n
  OBVIOUS
<1>2. /\ x \o z \in Seq(Nat) /\ Len(x \o z) = 1 + n
      /\ \A i \in 1 .. 1 + n : (x \o z)[i] = IF i <= 1 THEN x[i] ELSE z[i - 1]
  BY <1>1, ConcatProperties
<1>3. ASSUME NEW i \in 1 .. 1 + n PROVE (x \o z)[i] = y[i]
  <2>1. CASE i = 1
    BY <2>1, <1>2
  <2>2. CASE i # 1
    <3>1. ~(i <= 1) /\ i - 1 \in 1 .. n
      BY <2>2
    <3> QED
      BY <3>1, <2>2, <1>2
  <2> QED
    BY <2>1, <2>2
<1> HIDE DEF x, y, z
<1>4. x \o z = y
  BY <1>1, <1>2, <1>3, SeqEqual
<1> QED
  BY <1>1, <1>4 DEF x, y, z

\* Concatenation of sequences of numbers.
LEMMA InARow ==
    /\ \A a, b \in Seq(Nat) : a \o b \in Seq(Nat)
    /\ \A a, b, c \in Seq(Nat) : (a \o b) \o c = a \o (b \o c)
  BY ConcatProperties, ConcatAssociative

\* Whole blocks and then a piece, padded by md5(), are the whole, padded.
LEMMA PaddedInPlace ==
    ASSUME NEW p \in Seq(Nat), NEW q \in Seq(Nat), Len(p) % 64 = 0, NEW t,
           t.len = Len(p), Len(p \o q) \div Half < Half
    PROVE  p \o Completed(q, t) = Padded(p \o q) /\ Completed(q, t) \in Seq(Nat)
<1> DEFINE n == (119 - (Len(p \o q) % 64)) % 64
           one == <<128>>
           zeros == [i \in 1 .. n |-> 0]
           pad == [i \in 1 .. PadLength(Len(q)) |-> IF i = 1 THEN 128 ELSE 0]
           length == LengthInBits(Len(p \o q))
<1>1. Len(p) \in Nat /\ Len(q) \in Nat /\ p \o q \in Seq(Nat)
      /\ Len(p \o q) = Len(p) + Len(q) /\ Len(p \o q) \in Nat
  BY ConcatProperties
<1>2. PadLength(Len(q)) = 1 + n /\ n \in Nat
  <2> DEFINE a == Len(p)
             b == Len(q)
  <2>1. a \in Nat /\ b \in Nat /\ a % 64 = 0 /\ Len(p \o q) = a + b
    BY <1>1
  <2> HIDE DEF a, b
  <2>2. /\ PadLength(b) = 1 + ((119 - ((a + b) % 64)) % 64)
        /\ (119 - ((a + b) % 64)) % 64 \in Nat
    BY <2>1, PaddingOfPiece
  <2>3. n = (119 - ((a + b) % 64)) % 64
    BY <2>1
  <2> QED
    BY <2>2, <2>3 DEF b
<1>3. Encoded(Count(t, Len(q))) = length /\ length \in Seq(Nat)
  <2>1. Count(t, Len(q)) = Len(p \o q)
    BY <1>1 DEF Count
  <2> QED
    BY <1>1, <2>1, CountBytes
<1>4. Completed(q, t) = q \o pad \o length
  BY <1>3 DEF Completed
<1>5. Padded(p \o q) = p \o q \o one \o zeros \o length
  BY DEF Padded
<1>6. one \o zeros = pad /\ pad \in Seq(Nat) /\ one \in Seq(Nat) /\ zeros \in Seq(Nat)
  BY <1>2, PaddingBytes
<1> HIDE DEF n, one, zeros, pad, length
<1>7. q \o pad \in Seq(Nat) /\ (q \o pad) \o length \in Seq(Nat)
  BY <1>3, <1>6, InARow
<1>8. ((p \o q) \o one) \o zeros = (p \o q) \o (one \o zeros)
  <2> DEFINE u == p \o q
  <2>1. u \in Seq(Nat) /\ one \in Seq(Nat) /\ zeros \in Seq(Nat)
    BY <1>1, <1>6
  <2> HIDE DEF u
  <2>2. (u \o one) \o zeros = u \o (one \o zeros)
    BY <2>1, InARow, Zenon
  <2> QED
    BY <2>2 DEF u
<1>9. (p \o q) \o pad = p \o (q \o pad)
  BY <1>6, InARow, Zenon
<1>10. (p \o (q \o pad)) \o length = p \o ((q \o pad) \o length)
  <2> DEFINE u == q \o pad
  <2>1. u \in Seq(Nat) /\ length \in Seq(Nat)
    BY <1>3, <1>7
  <2> HIDE DEF u
  <2>2. (p \o u) \o length = p \o (u \o length)
    BY <2>1, InARow, Zenon
  <2> QED
    BY <2>2 DEF u
<1> QED
  BY <1>4, <1>5, <1>6, <1>7, <1>8, <1>9, <1>10

-----------------------------------------------------------------------------
(* The reading loop.                                                       *)

\* Without a failed calloc the state has seen the whole blocks read so far, and
\* the buffer holds the rest.
Carried ==
    \E p \in Seq(Nat) : /\ Len(p) % 64 = 0
                        /\ p \o buf = SubSeq(file, 1, taken)
                        /\ s.len = Len(p) /\ s.state = Blocks(Seed.state, p)

SumInv ==
    /\ file \in Seq(Nat) /\ Len(file) \div Half < Half
    /\ taken \in Nat /\ taken <= Len(file)
    /\ buf \in Seq(Nat) /\ Len(buf) < ReadCap
    /\ ~noMemory => Carried
    /\ SumOfWhole

\* What fread has returned so far, and what it returns next.
LEMMA NextPiece ==
    ASSUME NEW f \in Seq(Nat), NEW n \in Nat, NEW i \in Nat, n + i <= Len(f)
    PROVE  /\ SubSeq(f, n + 1, n + i) \in Seq(Nat) /\ Len(SubSeq(f, n + 1, n + i)) = i
           /\ SubSeq(f, 1, n) \in Seq(Nat) /\ Len(SubSeq(f, 1, n)) = n
           /\ SubSeq(f, 1, n) \o SubSeq(f, n + 1, n + i) = SubSeq(f, 1, n + i)
<1> DEFINE x == SubSeq(f, 1, n)
           y == SubSeq(f, n + 1, n + i)
           z == SubSeq(f, 1, n + i)
<1>1. /\ Len(f) \in Nat /\ \A j \in 1 .. n : f[j] \in Nat
      /\ \A j \in n + 1 .. n + i : f[j] \in Nat
      /\ \A j \in 1 .. n + i : f[j] \in Nat
  OBVIOUS
<1>2. x \in Seq(Nat) /\ Len(x) = n /\ \A j \in 1 .. n : x[j] = f[j]
  <2>1. /\ x \in Seq(Nat) /\ Len(x) = IF 1 <= n THEN n - 1 + 1 ELSE 0
        /\ \A j \in 1 .. n - 1 + 1 : x[j] = f[1 + j - 1]
    BY <1>1, SubSeqProperties
  <2> HIDE DEF x
  <2>2. n - 1 + 1 = n /\ \A j \in 1 .. n : 1 + j - 1 = j
    OBVIOUS
  <2> QED
    BY <2>1, <2>2
<1>3. y \in Seq(Nat) /\ Len(y) = i /\ \A j \in 1 .. i : y[j] = f[n + j]
  <2>1. /\ y \in Seq(Nat)
        /\ Len(y) = IF n + 1 <= n + i THEN n + i - (n + 1) + 1 ELSE 0
        /\ \A j \in 1 .. n + i - (n + 1) + 1 : y[j] = f[n + 1 + j - 1]
    BY <1>1, SubSeqProperties
  <2> HIDE DEF y
  <2>2. n + i - (n + 1) + 1 = i /\ \A j \in 1 .. i : n + 1 + j - 1 = n + j
    OBVIOUS
  <2> QED
    BY <2>1, <2>2
<1>4. z \in Seq(Nat) /\ Len(z) = n + i /\ \A j \in 1 .. n + i : z[j] = f[j]
  <2> DEFINE m == n + i
  <2>1. m \in Nat /\ z = SubSeq(f, 1, m) /\ \A j \in 1 .. m : f[j] \in Nat
    BY <1>1
  <2> HIDE DEF m, z
  <2>2. /\ z \in Seq(Nat) /\ Len(z) = IF 1 <= m THEN m - 1 + 1 ELSE 0
        /\ \A j \in 1 .. m - 1 + 1 : z[j] = f[1 + j - 1]
    BY <2>1, SubSeqProperties
  <2>3. m - 1 + 1 = m /\ \A j \in 1 .. m : 1 + j - 1 = j
    BY <2>1
  <2>4. z \in Seq(Nat) /\ Len(z) = m /\ \A j \in 1 .. m : z[j] = f[j]
    BY <2>1, <2>2, <2>3
  <2> QED
    BY <2>4 DEF m
<1> HIDE DEF x, y, z
<1>5. /\ x \o y \in Seq(Nat) /\ Len(x \o y) = n + i
      /\ \A j \in 1 .. n + i : (x \o y)[j] = IF j <= n THEN x[j] ELSE y[j - n]
  <2>1. /\ x \o y \in Seq(Nat) /\ Len(x \o y) = Len(x) + Len(y)
        /\ \A j \in 1 .. Len(x) + Len(y) :
             (x \o y)[j] = IF j <= Len(x) THEN x[j] ELSE y[j - Len(x)]
    BY <1>2, <1>3, ConcatProperties
  <2> QED
    BY <1>2, <1>3, <2>1
<1>6. ASSUME NEW j \in 1 .. n + i PROVE (x \o y)[j] = z[j]
  <2>1. CASE j <= n
    <3>1. j \in 1 .. n
      BY <2>1
    <3> QED
      BY <2>1, <3>1, <1>2, <1>4, <1>5
  <2>2. CASE ~(j <= n)
    <3>1. j - n \in 1 .. i /\ n + (j - n) = j
      BY <2>2
    <3> QED
      BY <2>2, <3>1, <1>3, <1>4, <1>5
  <2> QED
    BY <2>1, <2>2
<1>7. x \o y = z
  BY <1>4, <1>5, <1>6, SeqEqual
<1> QED
  BY <1>2, <1>3, <1>7 DEF x, y, z

\* At first nothing has been read.
LEMMA SumInit == Init => SumInv
<1> SUFFICES ASSUME Init PROVE SumInv
  OBVIOUS
<1>1. /\ file \in Files /\ taken = 0 /\ buf = <<>> /\ s = Seed /\ sum_buffer = Nil
  BY DEF Init
<1>2. file \in Seq(Nat) /\ Len(file) \in Nat /\ Len(file) \div Half < Half
  <2>1. file \in Seq(0 .. 255) /\ Len(file) \div Half < Half
    BY <1>1, Md5Assumption
  <2>2. file \in Seq(0 .. 255)
    BY <2>1
  <2>3. file \in Seq(Nat) /\ Len(file) \in Nat
    <3> DEFINE Bytes == 0 .. 255
    <3>1. Bytes \subseteq Nat /\ file \in Seq(Bytes)
      BY <2>2
    <3> HIDE DEF Bytes
    <3> QED
      BY <3>1, SeqMonotonic, LenProperties
  <2> QED
    BY <2>1, <2>3
<1>3. Len(buf) = 0 /\ 0 < ReadCap /\ buf \in Seq(Nat)
  BY <1>1, Md5Assumption
<1>4. SumOfWhole
  BY <1>1 DEF SumOfWhole
<1>5. Carried
  <2> DEFINE p == <<>>
  <2>1. p \in Seq(Nat) /\ Len(p) = 0 /\ Len(p) % 64 = 0
    OBVIOUS
  <2>2. p \o buf = SubSeq(file, 1, taken)
    <3>1. SubSeq(file, 1, 0) = <<>>
      BY SubSeqEmpty
    <3> QED
      BY <1>1, <3>1, ConcatEmptySeq
  <2>3. Blocks(Seed.state, p) = Seed.state
    <3>1. Len(p) \in Nat /\ Len(p) \div 64 = 0
      BY <2>1
    <3>2. PICK t : States(t, Seed.state, p, Len(p) \div 64, Blocks(Seed.state, p))
      BY <3>1, BlockByBlock
    <3> QED
      BY <3>1, <3>2 DEF States
  <2>4. s.len = Len(p) /\ s.state = Seed.state
    BY <1>1, <2>1 DEF Seed
  <2> QED
    BY <2>1, <2>2, <2>3, <2>4 DEF Carried
<1> QED
  BY <1>1, <1>2, <1>3, <1>4, <1>5 DEF SumInv

\* What fread returned is kept, or goes into the state with what was kept.
LEMMA ReadKeeps == SumInv /\ Read => SumInv'
<1> SUFFICES ASSUME SumInv, Read PROVE SumInv'
  OBVIOUS
<1> DEFINE left == Len(file) - taken
           most == IF Room < left THEN Room ELSE left
<1>1. PICK i \in {j \in 1 .. most : j \in Pieces \/ j = most} :
        LET p == buf \o SubSeq(file, taken + 1, taken + i) IN
        /\ taken' = taken + i
        /\ \/ /\ Len(p) % 64 # 0
              /\ buf' = p
              /\ UNCHANGED <<s, noMemory>>
           \/ /\ Len(p) % 64 = 0
              /\ buf' = <<>>
              /\ s' = Fed(p, s)
              /\ UNCHANGED noMemory
           \/ /\ Len(p) % 64 = 0 /\ s.len = 0
              /\ buf' = <<>>
              /\ noMemory' = TRUE
              /\ UNCHANGED s
  BY DEF Read
<1> DEFINE new == SubSeq(file, taken + 1, taken + i)
           p == buf \o new
<1>2. sum_buffer = Nil /\ file' = file /\ sum_buffer' = sum_buffer /\ taken' = taken + i
  BY <1>1 DEF Read
<1>3. /\ file \in Seq(Nat) /\ Len(file) \in Nat /\ Len(file) \div Half < Half
      /\ taken \in Nat /\ taken <= Len(file)
      /\ buf \in Seq(Nat) /\ Len(buf) \in Nat /\ Len(buf) < ReadCap
      /\ ReadCap \in Nat /\ ReadCap % 64 = 0 /\ ReadCap > 0
  BY Md5Assumption DEF SumInv
<1>4. i \in Nat /\ taken + i <= Len(file) /\ Len(buf) + i <= ReadCap
  BY <1>3 DEF Room
<1>5. /\ new \in Seq(Nat) /\ Len(new) = i
      /\ SubSeq(file, 1, taken) \in Seq(Nat)
      /\ SubSeq(file, 1, taken) \o new = SubSeq(file, 1, taken + i)
  <2>1. file \in Seq(Nat) /\ taken \in Nat /\ i \in Nat /\ taken + i <= Len(file)
    BY <1>3, <1>4
  <2> QED
    BY <2>1, NextPiece
<1>6. /\ Len(p) % 64 # 0 /\ buf' = p /\ s' = s /\ noMemory' = noMemory
      \/ /\ Len(p) % 64 = 0 /\ buf' = <<>> /\ s' = Fed(p, s) /\ noMemory' = noMemory
      \/ /\ Len(p) % 64 = 0 /\ buf' = <<>> /\ noMemory' = TRUE
  BY <1>1
<1> HIDE DEF new
<1>7. p \in Seq(Nat) /\ Len(p) = Len(buf) + i /\ Len(p) \in Nat
  <2>1. p \in Seq(Nat) /\ Len(p) = Len(buf) + Len(new)
    BY <1>3, <1>5, ConcatProperties
  <2> QED
    BY <1>5, <2>1
<1>8. file' \in Seq(Nat) /\ Len(file') \div Half < Half /\ taken' \in Nat /\ taken' <= Len(file')
  BY <1>2, <1>3, <1>4
<1>9. ASSUME ~noMemory
      PROVE  \E q \in Seq(Nat) :
               /\ Len(q) % 64 = 0
               /\ q \o p = SubSeq(file, 1, taken + i)
               /\ s.len = Len(q) /\ s.state = Blocks(Seed.state, q)
  <2>1. PICK q \in Seq(Nat) : /\ Len(q) % 64 = 0
                              /\ q \o buf = SubSeq(file, 1, taken)
                              /\ s.len = Len(q) /\ s.state = Blocks(Seed.state, q)
    BY <1>9 DEF SumInv, Carried
  <2>2. q \o p = (q \o buf) \o new
    BY <1>3, <1>5, InARow
  <2> QED
    BY <1>5, <2>1, <2>2
<1> HIDE DEF p
<1>10. SumOfWhole'
  BY <1>2 DEF SumOfWhole
<1>11. CASE Len(p) % 64 # 0 /\ buf' = p /\ s' = s /\ noMemory' = noMemory
  <2>1. Len(p) <= ReadCap /\ Len(p) # ReadCap
    BY <1>3, <1>4, <1>7, <1>11
  <2>2. buf' \in Seq(Nat) /\ Len(buf') < ReadCap
    <3>1. Len(p) < ReadCap
      BY <1>3, <1>7, <2>1
    <3> QED
      BY <1>7, <1>11, <3>1
  <2>3. ~noMemory' => Carried'
    BY <1>2, <1>9, <1>11 DEF Carried
  <2> QED
    BY <1>8, <1>10, <2>2, <2>3 DEF SumInv
<1>12. CASE Len(p) % 64 = 0 /\ buf' = <<>> /\ s' = Fed(p, s) /\ noMemory' = noMemory
  <2>1. buf' \in Seq(Nat) /\ Len(buf') < ReadCap
    BY <1>3, <1>12
  <2>2. ASSUME ~noMemory PROVE Carried'
    <3>1. PICK q \in Seq(Nat) : /\ Len(q) % 64 = 0
                                /\ q \o p = SubSeq(file, 1, taken + i)
                                /\ s.len = Len(q) /\ s.state = Blocks(Seed.state, q)
      BY <1>9, <2>2
    <3> DEFINE r == q \o p
    <3>2. r \in Seq(Nat) /\ Len(r) = Len(q) + Len(p)
      BY <1>7, ConcatProperties
    <3>3. Len(r) % 64 = 0
      <4> DEFINE a == Len(q)
                 b == Len(p)
      <4>1. a \in Nat /\ b \in Nat /\ a % 64 = 0 /\ b % 64 = 0 /\ Len(r) = a + b
        BY <1>7, <1>12, <3>1, <3>2
      <4> HIDE DEF a, b, r
      <4> QED
        BY <4>1
    <3>4. r \o buf' = SubSeq(file', 1, taken')
      BY <1>2, <1>12, <3>1, <3>2, ConcatEmptySeq
    <3>5. s'.len = Len(r) /\ s'.state = Blocks(s.state, p)
      BY <1>12, <3>1, <3>2 DEF Fed, Count
    <3>6. Blocks(s.state, p) = Blocks(Seed.state, r)
      <4>1. Blocks(Seed.state, q \o p) = Blocks(Blocks(Seed.state, q), p)
        BY <1>7, <3>1, BlocksOfTwo
      <4> QED
        BY <3>1, <4>1
    <3> HIDE DEF r
    <3> QED
      BY <3>2, <3>3, <3>4, <3>5, <3>6 DEF Carried
  <2> QED
    BY <1>8, <1>10, <1>12, <2>1, <2>2 DEF SumInv
<1>13. CASE Len(p) % 64 = 0 /\ buf' = <<>> /\ noMemory' = TRUE
  <2>1. buf' \in Seq(Nat) /\ Len(buf') < ReadCap
    BY <1>3, <1>13
  <2> QED
    BY <1>8, <1>10, <1>13, <2>1 DEF SumInv
<1> QED
  BY <1>6, <1>11, <1>12, <1>13

\* At the end the last piece, padded, completes the file, padded.
LEMMA EndSums == SumInv /\ ReadEnds => SumInv'
<1> SUFFICES ASSUME SumInv, ReadEnds PROVE SumInv'
  OBVIOUS
<1>1. file' = file /\ taken' = taken /\ buf' = buf /\ s' = s
  BY DEF ReadEnds
<1>2. /\ file \in Seq(Nat) /\ Len(file) \in Nat /\ Len(file) \div Half < Half
      /\ taken \in Nat /\ taken <= Len(file)
      /\ buf \in Seq(Nat) /\ Len(buf) < ReadCap
  BY DEF SumInv
<1>3. ~noMemory' => ~noMemory /\ sum_buffer' = Ended(buf, s)
  BY DEF ReadEnds
<1>4. ~noMemory' => Carried'
  BY <1>1, <1>3 DEF SumInv, Carried
<1>5. ASSUME ~noMemory'
      PROVE  Ended(buf, s) = DigestOf(Blocks(Seed.state, Padded(SubSeq(file, 1, taken))))
  <2>1. PICK q \in Seq(Nat) : /\ Len(q) % 64 = 0
                              /\ q \o buf = SubSeq(file, 1, taken)
                              /\ s.len = Len(q) /\ s.state = Blocks(Seed.state, q)
    BY <1>3, <1>5 DEF SumInv, Carried
  <2>2. Len(q \o buf) = taken
    <3>1. taken + 0 <= Len(file)
      BY <1>2
    <3>2. Len(SubSeq(file, 1, taken)) = taken
      BY <1>2, <3>1, NextPiece
    <3> QED
      BY <2>1, <3>2
  <2>3. Len(q \o buf) \div Half < Half
    BY <1>2, <2>2 DEF Half
  <2>4. q \o Completed(buf, s) = Padded(q \o buf) /\ Completed(buf, s) \in Seq(Nat)
    BY <1>2, <2>1, <2>3, PaddedInPlace
  <2>5. Blocks(s.state, Completed(buf, s)) = Blocks(Seed.state, Padded(q \o buf))
    <3> DEFINE last == Completed(buf, s)
    <3>1. last \in Seq(Nat) /\ q \o last = Padded(q \o buf)
      BY <2>4
    <3> HIDE DEF last
    <3>2. Blocks(Seed.state, q \o last) = Blocks(Blocks(Seed.state, q), last)
      BY <2>1, <3>1, BlocksOfTwo
    <3>3. Blocks(Seed.state, q) = s.state
      BY <2>1
    <3> QED
      BY <3>1, <3>2, <3>3 DEF last
  <2> QED
    BY <2>1, <2>5 DEF Ended
<1>6. SumOfWhole'
  BY <1>1, <1>3, <1>5 DEF SumOfWhole
<1> QED
  BY <1>1, <1>2, <1>4, <1>6 DEF SumInv

\* The state carries the file: inductive invariant of the reading loop.
THEOREM SumInvariant == Spec => []SumInv
<1>1. SumInv /\ [Next]_vars => SumInv'
  <2> SUFFICES ASSUME SumInv, [Next]_vars PROVE SumInv'
    OBVIOUS
  <2>1. CASE Read
    BY <2>1, ReadKeeps
  <2>2. CASE ReadEnds
    BY <2>2, EndSums
  <2>3. CASE UNCHANGED vars
    BY <2>3 DEF vars, SumInv, Carried, SumOfWhole
  <2> QED
    BY <2>1, <2>2, <2>3 DEF Next
<1> QED
  BY <1>1, SumInit, PTL DEF Spec

\* The digest does not depend on how fread cut the file, whatever md5() makes of
\* a block: it is that of what was read, padded in one piece (md5sum.c:217-281,
\* the loop of sum()).
THEOREM CutsDoNotMatter == Spec => []SumOfWhole
<1>1. SumInv => SumOfWhole
  BY DEF SumInv
<1> QED
  BY <1>1, SumInvariant, PTL

\* The last piece, padded and counted, fits into the buffer of sum() for every
\* ReadCap of whole blocks (md5sum.c:223, "assume there's room").
THEOREM PaddingRoom == Spec => []PaddingFits
<1>1. SumInv => PaddingFits
  <2> SUFFICES ASSUME SumInv PROVE PaddingFits
    OBVIOUS
  <2> DEFINE n == Len(buf)
  <2>1. n \in Nat /\ n < ReadCap /\ ReadCap \in Nat /\ ReadCap % 64 = 0
    BY Md5Assumption DEF SumInv
  <2> HIDE DEF n
  <2>2. PadLength(n) \in 1 .. 64 /\ (n + PadLength(n) + 8) % 64 = 0
    BY <2>1, PaddingOfPiece
  <2>3. PadLength(n) = IF (n % 64) < 56 THEN 56 - (n % 64) ELSE 120 - (n % 64)
    BY DEF PadLength
  <2>4. n + PadLength(n) + 8 <= ReadCap + ReadCap
    BY <2>1, <2>2
  <2> QED
    BY <2>1, <2>4 DEF PaddingFits, BufSize, n
<1> QED
  BY <1>1, SumInvariant, PTL
=============================================================================
