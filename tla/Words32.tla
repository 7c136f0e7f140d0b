------------------------------ MODULE Words32 ------------------------------
(* What MD5 does with 32-bit words.                                        *)
EXTENDS WordBytes, Bitwise

Add(x, y) == LET low == x[2] + y[2]
             IN  <<(x[1] + y[1] + (low \div Half)) % Half, low % Half>>

AndW(x, y) == <<x[1] & y[1], x[2] & y[2]>>
OrW(x, y)  == <<x[1] | y[1], x[2] | y[2]>>
XorW(x, y) == <<x[1] ^^ y[1], x[2] ^^ y[2]>>
NotW(x)    == <<Half - 1 - x[1], Half - 1 - x[2]>>

\* (x << n) | (x >> (32 - n)) for 0 < n < 32.
Rotate(x, n) ==
    LET y == IF n < 16 THEN x ELSE <<x[2], x[1]>>
        k == 2 ^ (n % 16)
    IN  <<((y[1] * k) % Half) + ((y[2] * k) \div Half),
          ((y[2] * k) % Half) + ((y[1] * k) \div Half)>>
=============================================================================
