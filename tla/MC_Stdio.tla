------------------------------ MODULE MC_Stdio ------------------------------
(* Stdio for TLC: integers of 4 bits, a buffer of 2 bytes.                   *)
EXTENDS Stdio, TLC

SomeTexts == {<<97>>, <<98, 97>>}
SomeConversions ==
    {[spec |-> "u", value |-> 0], [spec |-> "u", value |-> 12],
     [spec |-> "x", value |-> 15], [spec |-> "d", value |-> -8]}
SomeOffsets == {-2, 0, 2}
=============================================================================
