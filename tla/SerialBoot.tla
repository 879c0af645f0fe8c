----------------------------- MODULE SerialBoot -----------------------------
(***************************************************************************)
(* The serial boot protocol: the loader in the board's memory              *)
(* (serial_loader/loader.c, lib.c) and the tool on the operator's machine  *)
(* (tools/serial_boot.py), joined by a line that keeps the order of bytes. *)
(*                                                                         *)
(* The loader polls: one step takes one byte and reacts to it. The tool    *)
(* reads with a timeout. It may be interrupted and started again at any    *)
(* point, and the board may be switched off or rebooted at any point.      *)
(***************************************************************************)
EXTENDS Integers, Sequences

CONSTANTS
    ByteBase,          \* number of values of a byte: 256 in the code
    SIZE_BYTES,        \* sizeof(uint32_t)
    KERNEL_MAX_SIZE,   \* bytes of memory for the kernel
    Images,            \* kernel images that operators send over a punctual line
    LateImages,        \* and over one that may be late
    MaxPending,        \* bound: bytes in flight when the tool repeats INIT
    MaxFaults          \* bound: interruptions of the tool, resets of the board

SERIAL_LOADER_INIT     == ByteBase - 6
SERIAL_LOADER_INIT_ACK == ByteBase - 5
SERIAL_LOADER_END      == ByteBase - 4
SERIAL_LOADER_END_ACK  == ByteBase - 3

Bytes == 0 .. ByteBase - 1

ASSUME LineAssumption ==
    /\ ByteBase \in Nat /\ ByteBase > 6
    /\ SIZE_BYTES \in Nat \ {0} /\ KERNEL_MAX_SIZE \in Nat
    /\ \A image \in Images \cup LateImages : image \in Seq(Bytes)
    /\ MaxPending \in Nat \ {0} /\ MaxFaults \in Nat

VARIABLES
    host,       \* the tool: where it is, its image, bytes acknowledged
    dev,        \* the board: where it is, size bytes, datasize, buffer
    to_dev,     \* bytes on their way to the board
    to_host,    \* bytes on their way to the tool
    punctual,   \* the line: answers of the loader arrive before the timeout
    confirmed,  \* history: the image of the last session that sent END_ACK
    faults      \* interruptions and resets so far

vars == <<host, dev, to_dev, to_host, punctual, confirmed, faults>>

HostStates == {"closed", "handshake", "send", "echo", "final"}
LoaderStates == {"wait_init", "size", "data", "end_ack"}
DevStates == {"off", "kernel"} \cup LoaderStates

-----------------------------------------------------------------------------
(* Conversions                                                             *)

\* int.to_bytes(4, 'little'): the remainders of a number and its quotients.
Quotients(n) ==
    LET rest[i \in 0 .. SIZE_BYTES] == IF i = 0 THEN n ELSE rest[i - 1] \div ByteBase
    IN  rest
ToBytes(n) == [i \in 1 .. SIZE_BYTES |-> Quotients(n)[i - 1] % ByteBase]

\* The bytes that loader_mini_uart_recv stores over a uint32_t: the value of
\* the last i of them.
FromBytes(bytes) ==
    LET value[i \in 0 .. Len(bytes)] ==
            IF i = 0 THEN 0 ELSE bytes[Len(bytes) - i + 1] + ByteBase * value[i - 1]
    IN  value[Len(bytes)]

\* An image that cannot be taken for the protocol: neither its bytes nor the
\* bytes of its size are signals.
Signals == {SERIAL_LOADER_INIT, SERIAL_LOADER_INIT_ACK, SERIAL_LOADER_END, SERIAL_LOADER_END_ACK}
Plain(image) ==
    /\ \A i \in DOMAIN image : image[i] \notin Signals
    /\ \A i \in 1 .. SIZE_BYTES : ToBytes(Len(image))[i] \notin Signals

ASSUME PlainAssumption == \A image \in LateImages : Plain(image)

\* The length of an image is a number of SIZE_BYTES bytes (to_bytes refuses a
\* longer one), and 0xFB as the most significant byte of a size is beyond the
\* memory of the kernel.
ASSUME SizeAssumption ==
    /\ \A image \in Images : Quotients(Len(image))[SIZE_BYTES] = 0
    /\ \A size \in [1 .. SIZE_BYTES -> Bytes] :
          size[SIZE_BYTES] = SERIAL_LOADER_INIT_ACK => FromBytes(size) > KERNEL_MAX_SIZE

-----------------------------------------------------------------------------
(* The line                                                                *)

\* The bytes in flight after the tool writes: nobody reads them while the
\* board is off, and a running kernel takes them for its terminal.
Written(bytes) == IF dev.pc \in LoaderStates THEN to_dev \o bytes ELSE <<>>

\* The loader has taken all that the tool wrote.
Settled == dev.pc \in LoaderStates => to_dev = <<>>

\* port.read returns nothing. A punctual line has brought the loader's answer
\* by then.
TimedOut == to_host = <<>> /\ (punctual => Settled)

-----------------------------------------------------------------------------
(* The tool                                                                *)

\* serial.Serial: opening the port drops the bytes that were not read. A line
\* that answers before a timeout has also answered before the tool is started
\* again.
Open(image) ==
    /\ host.pc = "closed"
    /\ punctual => Settled
    /\ host' = [pc |-> "handshake", image |-> image, idx |-> 0]
    /\ to_host' = <<>>
    /\ UNCHANGED <<dev, to_dev, punctual, confirmed, faults>>

\* perform_handshake, the read timed out: ask (again).
HandshakeTimeout ==
    /\ host.pc = "handshake" /\ TimedOut
    /\ Len(to_dev) < MaxPending
    /\ to_dev' = Written(<<SERIAL_LOADER_INIT>>)
    /\ UNCHANGED <<host, dev, to_host, punctual, confirmed, faults>>

\* Where the loop over the bytes of the image stands after idx echoes.
LoopState(idx) == IF idx < Len(host.image) THEN "send" ELSE "final"

\* perform_handshake, a byte arrived. INIT is the echo of a loader that is
\* still inside a transfer: keep feeding it. Another byte is dropped.
HandshakeRead ==
    /\ host.pc = "handshake" /\ to_host # <<>>
    /\ to_host' = Tail(to_host)
    /\ CASE Head(to_host) = SERIAL_LOADER_INIT_ACK ->
              /\ host' = [host EXCEPT !.pc = LoopState(0)]
              /\ to_dev' = Written(ToBytes(Len(host.image)))
         [] Head(to_host) = SERIAL_LOADER_INIT ->
              to_dev' = Written(<<SERIAL_LOADER_INIT>>) /\ UNCHANGED host
         [] OTHER -> UNCHANGED <<host, to_dev>>
    /\ UNCHANGED <<dev, punctual, confirmed, faults>>

\* serial_send: write the next byte of the image.
SendByte ==
    /\ host.pc = "send"
    /\ host' = [host EXCEPT !.pc = "echo"]
    /\ to_dev' = Written(<<host.image[host.idx + 1]>>)
    /\ UNCHANGED <<dev, to_host, punctual, confirmed, faults>>

\* Faulty variant: any byte is taken for the echo.
EchoMatchesAny == TRUE

EchoMatches == Head(to_host) = host.image[host.idx + 1]

\* serial_send: an echo that differs raises an exception, which ends the tool.
ReadEcho ==
    /\ host.pc = "echo" /\ to_host # <<>>
    /\ to_host' = Tail(to_host)
    /\ host' = IF EchoMatches
               THEN [host EXCEPT !.pc = LoopState(host.idx + 1), !.idx = @ + 1]
               ELSE [host EXCEPT !.pc = "closed"]
    /\ UNCHANGED <<dev, to_dev, punctual, confirmed, faults>>

\* serial_send: the final acknowledge. The tool ends either way.
ReadFinal ==
    /\ host.pc = "final" /\ to_host # <<>>
    /\ to_host' = Tail(to_host)
    /\ host' = [host EXCEPT !.pc = "closed"]
    /\ IF Head(to_host) = SERIAL_LOADER_END
       THEN to_dev' = Written(<<SERIAL_LOADER_END_ACK>>) /\ confirmed' = host.image
       ELSE UNCHANGED <<to_dev, confirmed>>
    /\ UNCHANGED <<dev, punctual, faults>>

\* serial_send: an echo or the final acknowledge does not come in time.
TransferTimeout ==
    /\ host.pc \in {"echo", "final"} /\ TimedOut
    /\ host' = [host EXCEPT !.pc = "closed"]
    /\ UNCHANGED <<dev, to_dev, to_host, punctual, confirmed, faults>>

\* The operator interrupts the tool.
Interrupt ==
    /\ host.pc # "closed" /\ faults < MaxFaults
    /\ host' = [host EXCEPT !.pc = "closed"]
    /\ faults' = faults + 1
    /\ UNCHANGED <<dev, to_dev, to_host, punctual, confirmed>>

-----------------------------------------------------------------------------
(* The board                                                               *)

\* serial_load begins: wait for the start signal.
Waiting(d) == [d EXCEPT !.pc = "wait_init", !.size = <<>>, !.datasize = 0, !.buffer = <<>>]

\* loader_main copies itself below the kernel, runs the copy and clears the
\* queues of the UART.
PowerOn ==
    /\ dev.pc = "off"
    /\ dev' = Waiting(dev)
    /\ to_dev' = <<>>
    /\ UNCHANGED <<host, to_host, punctual, confirmed, faults>>

\* The board is switched off, or the kernel reboots it.
Reset ==
    /\ dev.pc # "off" /\ faults < MaxFaults
    /\ dev' = [pc |-> "off", size |-> <<>>, datasize |-> 0, buffer |-> <<>>]
    /\ to_dev' = <<>>
    /\ faults' = faults + 1
    /\ UNCHANGED <<host, to_host, punctual, confirmed>>

\* loader_mini_uart_getc returns in this state of serial_load.
Arrived(state) == dev.pc = state /\ to_dev # <<>>
byte == Head(to_dev)

\* serial_load takes the byte, answers and goes on.
Take(answer, next) ==
    /\ to_dev' = Tail(to_dev)
    /\ to_host' = to_host \o answer
    /\ dev' = next
    /\ UNCHANGED <<host, punctual, confirmed, faults>>

\* The start signal; any other byte is skipped.
ReceiveInit ==
    /\ Arrived("wait_init")
    /\ IF byte = SERIAL_LOADER_INIT
       THEN Take(<<SERIAL_LOADER_INIT_ACK>>, [dev EXCEPT !.pc = "size"])
       ELSE Take(<<>>, dev)

\* Faulty variant: a size beyond the memory of the kernel is accepted.
FitsAlways(datasize) == TRUE

\* Faulty variant: an image that just fits is refused.
FitsBelow(datasize) == datasize < KERNEL_MAX_SIZE

Fits(datasize) == datasize <= KERNEL_MAX_SIZE

\* A byte of the size. After the last one a size that does not fit ends
\* serial_load, and an empty image is complete at once.
ReceiveSize ==
    LET size == Append(dev.size, byte)
        n == FromBytes(size)
        sized == [dev EXCEPT !.size = size, !.datasize = n]
    IN  /\ Arrived("size")
        /\ IF Len(size) < SIZE_BYTES THEN Take(<<>>, [dev EXCEPT !.size = size])
           ELSE IF ~ Fits(n) THEN Take(<<>>, Waiting(dev))
           ELSE IF n = 0
           THEN Take(<<SERIAL_LOADER_END>>, [sized EXCEPT !.pc = "end_ack"])
           ELSE Take(<<>>, [sized EXCEPT !.pc = "data"])

\* A byte of the image is echoed and stored; the end signal follows the last.
ReceiveData ==
    LET stored == [dev EXCEPT !.buffer = Append(@, byte)]
    IN  /\ Arrived("data")
        /\ IF Len(stored.buffer) = dev.datasize
           THEN Take(<<byte, SERIAL_LOADER_END>>, [stored EXCEPT !.pc = "end_ack"])
           ELSE Take(<<byte>>, stored)

\* Faulty variant: whatever follows the end signal starts the kernel.
LaunchesAlways == dev.datasize # 0

\* serial_load returned a size: loader_main jumps to the kernel.
Launches == byte = SERIAL_LOADER_END_ACK /\ dev.datasize # 0

\* Any other answer, or an empty image: loader_main calls serial_load again.
ReceiveEndAck ==
    /\ Arrived("end_ack")
    /\ Take(<<>>, IF Launches THEN [dev EXCEPT !.pc = "kernel"] ELSE Waiting(dev))

-----------------------------------------------------------------------------
(* Specification                                                           *)

Init ==
    /\ host = [pc |-> "closed", image |-> <<>>, idx |-> 0]
    /\ dev = [pc |-> "off", size |-> <<>>, datasize |-> 0, buffer |-> <<>>]
    /\ to_dev = <<>> /\ to_host = <<>> /\ punctual \in BOOLEAN
    /\ confirmed = <<>> /\ faults = 0

Operator == \E image \in IF punctual THEN Images ELSE LateImages : Open(image)
Tool == HandshakeTimeout \/ HandshakeRead \/ SendByte \/ ReadEcho \/ ReadFinal
        \/ TransferTimeout
Loader == PowerOn \/ ReceiveInit \/ ReceiveSize \/ ReceiveData \/ ReceiveEndAck

Next == Operator \/ Tool \/ Loader \/ Interrupt \/ Reset

Spec == Init /\ [][Next]_vars

\* The tool and the loader run on, and the operator tries again.
FairSpec == Spec /\ WF_vars(Operator) /\ WF_vars(Tool) /\ WF_vars(Loader)

-----------------------------------------------------------------------------
(* Properties                                                              *)

\* The variables have their types, and serial_load stores no byte beyond the
\* memory of the kernel.
TypeOK ==
    /\ host \in [pc : HostStates, image : Images \cup LateImages \cup {<<>>}, idx : Nat]
    /\ host.idx <= Len(host.image)
    /\ dev \in [pc : DevStates, size : Seq(Bytes), datasize : 0 .. KERNEL_MAX_SIZE,
               buffer : Seq(Bytes)]
    /\ Len(dev.buffer) <= dev.datasize
    /\ to_dev \in Seq(Bytes) /\ to_host \in Seq(Bytes)
    /\ confirmed \in Images \cup LateImages \cup {<<>>}
    /\ punctual \in BOOLEAN

\* loader_main jumps to a kernel only when its buffer holds, byte for byte, the
\* image of the session that acknowledged the end of the transfer, whatever
\* was interrupted, reset, repeated or left over on the line before.
LaunchedIntact == dev.pc = "kernel" => dev.buffer = confirmed

\* When the tool reports success (it takes END for the final acknowledge), the
\* board holds the whole image and waits for END_ACK or has started it, unless
\* it went on in the meantime: it was switched off, took another byte for the
\* answer, or, over a line that may be late, has answered a start signal that
\* was late, which the tool would read next.
SuccessMeansReceived ==
    [][(/\ host.pc = "final" /\ host'.pc = "closed"
        /\ to_host # <<>> /\ to_host' # to_host /\ Head(to_host) = SERIAL_LOADER_END)
       => \/ dev.pc \in {"end_ack", "kernel"} /\ dev.buffer = host.image
          \/ dev.pc \in {"off", "wait_init"}
          \/ ~ punctual /\ to_host' # <<>> /\ Head(to_host') = SERIAL_LOADER_INIT_ACK]_vars

\* Over a punctual line the operator's retries end with a running kernel: after
\* the last interruption no leftover of an earlier session (a repeated INIT
\* read as a size, a half-filled buffer, a pending END) keeps the loader from
\* starting. An operator who goes on sending empty images, or images that do
\* not fit, does not get there.
EventuallyBoots ==
    punctual => \/ <>[](dev.pc = "kernel")
                \/ []<>(host.pc = "handshake" /\ Len(host.image) \notin 1 .. KERNEL_MAX_SIZE)
=============================================================================
