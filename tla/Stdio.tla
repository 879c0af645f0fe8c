------------------------------- MODULE Stdio -------------------------------
(***************************************************************************)
(* Buffered streams of the user library (userland/lib/stdio.c) over the     *)
(* files of the kernel, which are those of ByteFile. Output goes through a   *)
(* buffer of WRITE_BUFFER_SIZE bytes; input does not. A step is one turn of   *)
(* a loop or one system call. The file belongs to one program.               *)
(***************************************************************************)
EXTENDS Integers, Sequences

CONSTANTS
    WRITE_BUFFER_SIZE,  \* bytes of the buffer
    HeapFiles,          \* FILE objects that the heap of a process has room for
    Texts,              \* what programs pass to fwrite and fputs
    Conversions,        \* what they pass to printf: [spec, value]
    ReadSizes,          \* how much they read
    Offsets,            \* offsets passed to fseek
    Modulus,            \* uint32_t is computed modulo 2^32
    MaxPos,             \* bound: positions in a file
    MaxOpens            \* bound: how often the file is opened

ASSUME StdioAssumption ==
    /\ {WRITE_BUFFER_SIZE, Modulus} \subseteq Nat \ {0} /\ {HeapFiles, MaxPos, MaxOpens} \subseteq Nat
    /\ ReadSizes \subseteq Nat /\ Offsets \subseteq Int
    /\ Texts \subseteq Seq(Nat)

\* uint32_t and int32_t
ASSUME ConversionsAssumption ==
    \A conversion \in Conversions :
        \/ conversion.spec \in {"u", "x"} /\ conversion.value \in 0 .. Modulus - 1
        \/ /\ conversion.spec = "d" /\ conversion.value \in Int
           /\ 2 * conversion.value \in -Modulus .. Modulus - 1

VARIABLES
    contents, opened, result, stopped,  \* the kernel: see ByteFile
    stream,     \* the open FILE: descriptor (0: none) and buffer
    heap,       \* FILE objects allocated so far
    call,       \* the call that is going on: [op, todo, offset, whence]
    last        \* what the last call returned

kernel == <<contents, opened, result, stopped>>
vars == <<contents, opened, result, stopped, stream, heap, call, last>>

\* The bytes that the library may pass to the kernel at once.
Segments(bytes) == {SubSeq(bytes, i, j) : i, j \in 1 .. Len(bytes)} \ {<<>>}

-----------------------------------------------------------------------------
(* Conversions of vfprintf                                                 *)

\* Faulty variant: the loop ends before the first digit of 0.
DigitsWhile(x, base) ==
    LET digits[n \in 0 .. Modulus - 1] ==
          IF n = 0 THEN <<>> ELSE digits[n \div base] \o <<n % base>>
    IN  digits[x]

\* The loops of _fput_uint and _fput_uint_hex.
Digits(x, base) ==
    LET digits[n \in 0 .. Modulus - 1] ==
          (IF n < base THEN <<>> ELSE digits[n \div base]) \o <<n % base>>
    IN  digits[x]

\* Their characters, and the zero at the end of the array, which fwrite gets too.
FputUint(x, base) ==
    [i \in DOMAIN Digits(x, base) |->
        LET d == Digits(x, base)[i] IN IF d < 10 THEN 48 + d ELSE 87 + d] \o <<0>>

\* _fput_int
FputInt(x) == IF x < 0 THEN <<45>> \o FputUint(-x % Modulus, 10) ELSE FputUint(x, 10)

\* vfprintf
Formatted(conversion) ==
    CASE conversion.spec = "u" -> FputUint(conversion.value, 10)
      [] conversion.spec = "x" -> FputUint(conversion.value, 16)
      [] conversion.spec = "d" -> FputInt(conversion.value)

Buffers == UNION {Segments(t) : t \in Texts \cup {Formatted(c) : c \in Conversions}}

-----------------------------------------------------------------------------
(* Streams                                                                 *)

Kernel == INSTANCE ByteFile WITH Positions <- 0 .. MaxPos, Counts <- TRUE, Refusals <- {-1}

CLOSED == [fd |-> 0, buffer |-> <<>>]
IDLE == [op |-> "none", todo |-> <<>>, offset |-> 0, whence |-> "SEEK_SET"]
CallOf(op) == [IDLE EXCEPT !.op = op]

File == opened[stream.fd]
Size == Len(contents[File.ino])
Ahead == File.pos + Len(stream.buffer)
Reaches == File.pos <= Size
Usable == ~ stopped /\ stream # CLOSED /\ call = IDLE

\* open and creat in the kernel: one file.
Create == /\ contents = <<>> /\ Kernel!Create
          /\ last' = Kernel!Done /\ UNCHANGED <<stream, heap, call>>

\* malloc has room for one more FILE: nothing is ever freed.
Allocates == heap < HeapFiles

\* fopen, fdopen: without memory the descriptor is closed again.
Fopen ==
    /\ ~ stopped /\ contents # <<>> /\ stream = CLOSED
    /\ Allocates => Len(opened) < MaxOpens
    /\ IF Allocates
       THEN /\ Kernel!Open(1)
            /\ stream' = [fd |-> Len(opened) + 1, buffer |-> <<>>]
            /\ heap' = heap + 1 /\ last' = Kernel!Done
       ELSE last' = Kernel!Failed /\ UNCHANGED <<kernel, stream, heap>>
    /\ UNCHANGED call

\* fwrite, fputs
Fwrite(text) ==
    /\ Usable /\ Ahead + Len(text) <= MaxPos
    /\ call' = [CallOf("fwrite") EXCEPT !.todo = text]
    /\ UNCHANGED <<kernel, stream, heap, last>>

\* fprintf, vfprintf: the characters, then fflush.
Fprintf(conversion) ==
    /\ Usable /\ Ahead + Len(Formatted(conversion)) <= MaxPos
    /\ call' = [CallOf("fprintf") EXCEPT !.todo = Formatted(conversion)]
    /\ UNCHANGED <<kernel, stream, heap, last>>

\* fflush, fclose, fseek; ftell and rewind are fseeks by or to 0. All flush first.
Fflush == Usable /\ call' = CallOf("fflush") /\ UNCHANGED <<kernel, stream, heap, last>>
Fclose == Usable /\ call' = CallOf("fclose") /\ UNCHANGED <<kernel, stream, heap, last>>
Fseek(offset, whence) ==
    /\ Usable /\ \A reference \in {0, Ahead, Size} : reference + offset <= MaxPos
    /\ call' = [op |-> "fseek", todo |-> <<>>, offset |-> offset, whence |-> whence]
    /\ UNCHANGED <<kernel, stream, heap, last>>

\* fread: a read of the kernel at its own position, without a flush. When the
\* kernel refuses it, fread returns 0.
Fread(size) ==
    /\ Usable
    /\ \/ Kernel!Read(stream.fd, size) /\ last' = result'
       \/ File.pos >= Size /\ Kernel!Refuse /\ last' = Kernel!Done
    /\ UNCHANGED <<stream, heap, call>>

\* remaining_buffer_size
Room(buffer) == WRITE_BUFFER_SIZE - Len(buffer)

\* The loop of fwrite: what fits is copied to the buffer.
CopyTurn ==
    LET room == Room(stream.buffer)
        n == IF Len(call.todo) > room THEN room ELSE Len(call.todo)
    IN  /\ ~ stopped /\ call.todo # <<>> /\ room > 0
        /\ stream' = [stream EXCEPT !.buffer = @ \o SubSeq(call.todo, 1, n)]
        /\ call' = [call EXCEPT !.todo = SubSeq(@, n + 1, Len(@))]
        /\ UNCHANGED <<kernel, heap, last>>

\* Faulty variant: the cursor of the buffer is not reset.
EmptiedNot(buffer) == buffer

\* stream->write_buffer_cursor = 0u
Emptied(buffer) == <<>>

\* Faulty variant: the loop of fwrite goes on without fflush.
FlushesInLoopNever(buffer) == FALSE

\* The loop of fwrite calls fflush when the buffer is full.
FlushesInLoop(buffer) == Room(buffer) = 0

\* fflush with a buffer that is not empty: in the loop of fwrite, which does
\* not look at its status, and at the start or end of the other calls, which
\* return -1 when it fails, except printf, which does not look either.
Flushing == /\ ~ stopped /\ stream.buffer # <<>>
            /\ IF call.todo # <<>> THEN FlushesInLoop(stream.buffer)
               ELSE call.op \notin {"none", "fwrite"}

FlushTurn ==
    /\ Flushing /\ Reaches /\ Kernel!Write(stream.fd, stream.buffer)
    /\ stream' = [stream EXCEPT !.buffer = Emptied(@)]
    /\ UNCHANGED <<heap, call, last>>

FlushFails ==
    /\ Flushing /\ ~ Reaches /\ Kernel!Refuse
    /\ IF call.todo # <<>> THEN UNCHANGED <<call, last>>
       ELSE call' = IDLE /\ last' = IF call.op = "fprintf" THEN Kernel!Done ELSE Kernel!Failed
    /\ UNCHANGED <<stream, heap>>

\* The end of a call, once nothing is left to write. fwrite and fputs return what
\* is left, which is 0, and printf and fflush return 0. A seek before the
\* start of the file is refused.
Flushed == ~ stopped /\ call.todo = <<>> /\ stream.buffer = <<>>
Target == call.offset + CASE call.whence = "SEEK_SET" -> 0
                          [] call.whence = "SEEK_CUR" -> File.pos
                          [] OTHER -> Size

EndWrite == /\ ~ stopped /\ call.todo = <<>> /\ call' = IDLE
            /\ call.op = "fwrite" \/ (call.op \in {"fprintf", "fflush"} /\ Flushed)
            /\ last' = Kernel!Done /\ UNCHANGED <<kernel, stream, heap>>

EndSeek == /\ Flushed /\ call.op = "fseek" /\ call' = IDLE
           /\ IF Target >= 0 THEN Kernel!Seek(stream.fd, Target) ELSE Kernel!Refuse
           /\ last' = result' /\ UNCHANGED <<stream, heap>>

EndClose == /\ Flushed /\ call.op = "fclose" /\ call' = IDLE
            /\ stream' = CLOSED /\ last' = Kernel!Done /\ UNCHANGED <<kernel, heap>>

\* exit does not flush: what is in the buffer is lost. Another program starts.
Exit == /\ ~ stopped /\ call = IDLE
        /\ stream' = CLOSED /\ heap' = 0
        /\ UNCHANGED <<kernel, call, last>>

\* The kernel stops; the files of ramfs do not survive.
Stop == Kernel!Stop /\ UNCHANGED <<stream, heap, call, last>>
Restart == Kernel!Restart /\ stream' = CLOSED /\ heap' = 0 /\ call' = IDLE /\ last' = Kernel!Done

Init == Kernel!Init /\ stream = CLOSED /\ heap = 0 /\ call = IDLE /\ last = Kernel!Done

Library == CopyTurn \/ FlushTurn \/ FlushFails \/ EndWrite \/ EndSeek \/ EndClose

Next ==
    \/ Create \/ Fopen \/ Fflush \/ Fclose \/ Exit \/ Stop \/ Restart \/ Library
    \/ \E text \in Texts : Fwrite(text)
    \/ \E conversion \in Conversions : Fprintf(conversion)
    \/ \E size \in ReadSizes : Fread(size)
    \/ \E offset \in Offsets, whence \in {"SEEK_SET", "SEEK_CUR", "SEEK_END"} :
          Fseek(offset, whence)

Spec == Init /\ [][Next]_vars

\* A call that has begun goes on: round robin gives every process its turn.
FairSpec == Spec /\ WF_vars(Library)

-----------------------------------------------------------------------------
(* Properties                                                              *)

\* The file as the program sees it: the buffer is already at its place.
Shown == stream # CLOSED /\ Reaches

\* What it will have been given: calls that write return 0 whatever happens.
Answer == IF call.op \in {"fwrite", "fprintf"} THEN Kernel!Done ELSE last

Stream == INSTANCE ByteFile WITH
    Positions <- 0 .. MaxPos, Counts <- FALSE, Refusals <- {-1, 0},
    contents <- IF Shown THEN [contents EXCEPT ![File.ino] =
                                 Kernel!Overwritten(@, File.pos, stream.buffer)]
                ELSE contents,
    opened <- [f \in DOMAIN opened |-> IF Shown /\ f = stream.fd
                                        THEN [File EXCEPT !.pos = Ahead] ELSE opened[f]],
    result <- Answer

\* fread does not flush, and exit drops the buffer.
Overlooks == stream.buffer # <<>> /\ (Exit \/ \E size \in ReadSizes : Fread(size))

\* The buffer is invisible: a stream is an unbuffered file whose writes return
\* 0, whatever is written, flushed, sought and read in whichever order, but
\* for a read or an exit that overlooks what is in the buffer. Output that
\* cannot be written, after a seek beyond the end, does not count (fwrite,
\* fprintf, fflush, fread, fseek, fclose).
StreamIsFile == Stream!Init /\ [][Stream!Next \/ Overlooks]_(Stream!vars)

\* Every call ends, unless the buffer cannot be written: fwrite then repeats
\* fflush without end as soon as the buffer is full.
WriteEnds == call # IDLE ~> call = IDLE \/ ~ Reaches \/ stopped

\* The number that characters stand for.
ReadBack(chars, base) ==
    LET value[i \in 0 .. Len(chars)] ==
          IF i = 0 THEN 0
          ELSE base * value[i - 1] + (IF chars[i] < 58 THEN chars[i] - 48 ELSE chars[i] - 87)
    IN  value[Len(chars)]

\* A number is printed as its digits: reading them gives the number back, the
\* smallest int32_t and 0 too, and the first digit is 0 for 0 only
\* (_fput_uint, _fput_int, _fput_uint_hex).
NumbersReadBack == [][
    \A conversion \in Conversions : Fprintf(conversion) =>
        LET base == IF conversion.spec = "x" THEN 16 ELSE 10
            text == SubSeq(call'.todo, 1, Len(call'.todo) - 1)
            digits == IF conversion.value < 0 THEN Tail(text) ELSE text
            magnitude == IF conversion.value < 0 THEN -conversion.value ELSE conversion.value
        IN  /\ conversion.value < 0 => text[1] = 45
            /\ digits # <<>> /\ (digits[1] = 48 => Len(digits) = 1)
            /\ magnitude = ReadBack(digits, base)
    ]_vars
=============================================================================
