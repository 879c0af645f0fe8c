---- MODULE MC_SerialBoot ----
EXTENDS SerialBoot

\* With ByteBase = 8 the bytes of the protocol are 2..5, so that a size and an
\* image are plain when they avoid 2..5. INIT read as the low byte of a size
\* followed by a low byte 1 gives 10, which fits the memory.
Zeros(n) == [i \in 1 .. n |-> 0]
PlainImages == {<<>>, <<0>>, <<1>>, <<0, 1, 0, 0, 6, 7>>, Zeros(8)}

\* Any bytes: INIT, INIT_ACK, END and END_ACK as data and INIT as either byte
\* of a size (2 and 16, which does not fit), before INIT_ACK as the first byte;
\* and an image that fills the memory.
AnyImages == {<<>>, <<0>>, <<2, 0>>, <<3, 4, 5>>, <<3, 2>>, <<7, 2, 4, 5>>, Zeros(10), <<3>> \o Zeros(15)}
=============================
