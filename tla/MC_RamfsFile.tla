---------------------------- MODULE MC_RamfsFile ----------------------------
(* RamfsFile for TLC: files that grow from 1 byte, in a heap of a few blocks. *)
EXTENDS RamfsFile

\* From one byte to a write that needs two doublings.
ShortBuffers == {<<>>, <<1>>, <<2, 2, 1>>}
ShortOffsets == {-1, 0, 1}
=============================================================================
