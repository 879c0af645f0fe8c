------------------------------ MODULE ByteFile ------------------------------
(***************************************************************************)
(* What the regular files of a file system promise: a file is a sequence of *)
(* bytes, an open file a position in it. There is no memory, and several    *)
(* open files of one file see the same bytes.                               *)
(***************************************************************************)
EXTENDS Integers, Sequences

CONSTANTS
    Buffers,    \* what programs write
    ReadSizes,  \* how much they read
    Positions,  \* where they seek to
    Counts,     \* a write returns how much it wrote; otherwise 0
    Refusals    \* what calls return that change nothing

VARIABLES
    contents,   \* file -> its bytes
    opened,     \* open file -> [ino, pos]
    result,     \* status and bytes that the last call returned
    stopped     \* the machine has stopped

vars == <<contents, opened, result, stopped>>

Returned(status, data) == [status |-> status, data |-> data]
Failed == Returned(-1, <<>>)
Done == Returned(0, <<>>)

Init == contents = <<>> /\ opened = <<>> /\ result = Done /\ stopped = FALSE

Create == /\ ~ stopped /\ contents' = Append(contents, <<>>)
          /\ result' = Done /\ UNCHANGED <<opened, stopped>>

Open(ino) == /\ ~ stopped /\ opened' = Append(opened, [ino |-> ino, pos |-> 0])
             /\ result' = Done /\ UNCHANGED <<contents, stopped>>

\* A call that is refused changes nothing.
Refuse == /\ ~ stopped /\ \E status \in Refusals : result' = Returned(status, <<>>)
          /\ UNCHANGED <<contents, opened, stopped>>

\* A read returns the bytes at the position, as many as there are.
Read(f, size) ==
    LET bytes == contents[opened[f].ino]
        pos == opened[f].pos
        end == IF pos + size < Len(bytes) THEN pos + size ELSE Len(bytes)
    IN  /\ ~ stopped /\ pos < end
        /\ opened' = [opened EXCEPT ![f].pos = end]
        /\ result' = Returned(end - pos, SubSeq(bytes, pos + 1, end))
        /\ UNCHANGED <<contents, stopped>>

\* bytes with data at pos.
Overwritten(bytes, pos, data) ==
    SubSeq(bytes, 1, pos) \o data \o SubSeq(bytes, pos + Len(data) + 1, Len(bytes))

\* A write replaces or appends, and leaves no gap.
Write(f, data) ==
    LET ino == opened[f].ino
        pos == opened[f].pos
    IN  /\ ~ stopped /\ pos <= Len(contents[ino])
        /\ contents' = [contents EXCEPT ![ino] = Overwritten(@, pos, data)]
        /\ opened' = [opened EXCEPT ![f].pos = pos + Len(data)]
        /\ result' = Returned(IF Counts THEN Len(data) ELSE 0, <<>>)
        /\ UNCHANGED stopped

Seek(f, pos) ==
    /\ ~ stopped /\ opened' = [opened EXCEPT ![f].pos = pos]
    /\ result' = Returned(pos, <<>>) /\ UNCHANGED <<contents, stopped>>

\* The memory is exhausted, or a call is not allowed.
Stop == ~ stopped /\ stopped' = TRUE /\ UNCHANGED <<contents, opened, result>>

Restart == /\ stopped /\ contents' = <<>> /\ opened' = <<>>
           /\ result' = Done /\ stopped' = FALSE

Next ==
    \/ Create \/ Refuse \/ Stop \/ Restart
    \/ \E ino \in DOMAIN contents : Open(ino)
    \/ \E f \in DOMAIN opened : \/ \E size \in ReadSizes : Read(f, size)
                                \/ \E data \in Buffers : Write(f, data)
                                \/ \E pos \in Positions : Seek(f, pos)

Spec == Init /\ [][Next]_vars
=============================================================================
