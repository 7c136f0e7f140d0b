------------------------------ MODULE Md5Block ------------------------------
(***************************************************************************)
(* file_manager/md5sum.c: what md5() makes of its state and one block of   *)
(* 64 bytes, with the code's table and its switch.                         *)
(***************************************************************************)
EXTENDS Rfc1321

\* The columns of tab: the data word and the rotation of each operation.
tab == [sin |-> T,
        x   |-> <<0, 1, 2, 3, 4, 5, 6, 7, 8, 9, 10, 11, 12, 13, 14, 15,
                  1, 6, 11, 0, 5, 10, 15, 4, 9, 14, 3, 8, 13, 2, 7, 12,
                  5, 8, 11, 14, 1, 4, 7, 10, 13, 0, 3, 6, 9, 12, 15, 2,
                  0, 7, 14, 5, 12, 3, 10, 1, 8, 15, 6, 13, 4, 11, 2, 9>>,
        rot |-> [i \in 1 .. 64 |->
                   CASE i <= 16 -> <<7, 12, 17, 22>>[((i - 1) % 4) + 1]
                     [] i \in 17 .. 32 -> <<5, 9, 14, 20>>[((i - 1) % 4) + 1]
                     [] i \in 33 .. 48 -> <<4, 11, 16, 23>>[((i - 1) % 4) + 1]
                     [] OTHER -> <<6, 10, 15, 21>>[((i - 1) % 4) + 1]]]

\* Mutant: case 1 has the operands of case 0.
MixedAsFirst(b, c, d, i) ==
    CASE i <= 32 -> OrW(AndW(b, c), AndW(NotW(b), d))
      [] i \in 33 .. 48 -> XorW(XorW(b, c), d)
      [] OTHER -> XorW(c, OrW(b, NotW(d)))

\* What the switch adds to a.
Mixed(b, c, d, i) ==
    CASE i <= 16 -> OrW(AndW(b, c), AndW(NotW(b), d))
      [] i \in 17 .. 32 -> OrW(AndW(b, d), AndW(c, NotW(d)))
      [] i \in 33 .. 48 -> XorW(XorW(b, c), d)
      [] OTHER -> XorW(c, OrW(b, NotW(d)))

\* One turn of the 64: v is a, b, c, d, which rotate.
Turn(v, x, i) ==
    LET b == v[2]
        c == v[3]
        d == v[4]
        a == Add(Add(v[1], Mixed(b, c, d, i)), Add(x[tab.x[i] + 1], tab.sin[i]))
    IN  <<d, Add(Rotate(a, tab.rot[i]), b), b, c>>

BlockDone(state, block) ==
    LET x == [j \in 1 .. 16 |-> FromBytes(SubSeq(block, 4 * j - 3, 4 * j))]
        v == FoldLeftDomain(LAMBDA u, i : Turn(u, x, i), state, tab.x)
    IN  [j \in 1 .. 4 |-> Add(state[j], v[j])]
=============================================================================
