-------------------------- MODULE MCSlingshotStream --------------------------
\* A few lines, one split and one too large, and logs with damaged envelopes
\* or with chunks that cross.
EXTENDS SlingshotStream

TooLargeThenSplit == <<0, 2, 1>>

Item(m, s, n, k) == [msg |-> m, seg |-> s, of |-> n, kind |-> k]
Damaged == <<Item(1, 1, 2, "good"), Item(1, 2, 2, "good"), Item(2, 1, 2, "good"),
             Item(2, 2, 2, "bad"), Item(3, 1, 1, "good")>>
Unreadable == <<Item(1, 1, 1, "good"), Item(2, 1, 1, "bad"), Item(3, 1, 1, "undecodable")>>
Interleaved == <<Item(1, 2, 2, "good"), Item(2, 1, 1, "good"), Item(1, 1, 2, "good")>>
Logs == {<<>>, Damaged, Unreadable, Interleaved}
=============================================================================
