------------------------------- MODULE SdHost -------------------------------
(***************************************************************************)
(* The sd card as a block device: the driver of the EMMC controller          *)
(* (hardware/sd_host/sd_host.c), the block devices of the driver registry     *)
(* (vfs/dev/sdcard.c, vfs/dev/ramdisk.c) and the reads of a block device      *)
(* file (vfs/dev/block_device_file_ops.c). The driver polls; the controller    *)
(* and the card, which are not part of the source, take steps of their own     *)
(* between two polls.                                                          *)
(***************************************************************************)
EXTENDS Integers, Sequences

CONSTANTS
    BLOCK_SIZE,     \* bytes of a block
    CardBlocks,     \* blocks of the sd card
    RamBlocks,      \* SECTION_RAMDISK_BLOCK_COUNT
    ReadSizes,      \* how much programs read
    PollPeriod,     \* the wait for a command looks at its counter every 256 polls
    PollLimit,      \* and gives up above 2048
    MaxFaults       \* bound: lost commands, lost answers, damaged or lost blocks

ASSUME SdHostAssumption ==
    /\ {BLOCK_SIZE, PollPeriod} \subseteq Nat \ {0}
    /\ {CardBlocks, RamBlocks, PollLimit, MaxFaults} \subseteq Nat
    /\ ReadSizes \subseteq Nat

VARIABLES
    host,       \* the driver: where it is, the command it waits for, its polls, the RCA
    emmc,       \* the registers of the controller, and what it is busy with
    card,       \* the card
    file,       \* the open block device file
    call,       \* the read of the file that is going on
    ret,        \* what the last read returned
    panic,      \* the machine has stopped
    faults      \* faults so far

vars == <<host, emmc, card, file, call, ret, panic, faults>>

MinOf(a, b) == IF a < b THEN a ELSE b

-----------------------------------------------------------------------------
(* The controller and the card (external): what the driver relies on.      *)

IDLE_BUS == [cmd |-> "none", arg |-> 0]
NO_DATA == -1

\* RESP0, as far as the driver looks: the echo of CMD8, the two flags of
\* ACMD41, the upper half word.
NO_RESPONSE == [echo |-> FALSE, power_up |-> FALSE, high_capacity |-> FALSE, upper |-> 0]

\* Byte a of a device; what is read when no block has arrived, or a damaged one.
Byte(dev, a) == <<dev, a>>
BlockOf(dev, index) == [i \in 1 .. BLOCK_SIZE |-> Byte(dev, index * BLOCK_SIZE + i - 1)]
GARBAGE == [i \in 1 .. BLOCK_SIZE |-> Byte("garbage", 0)]

CardKinds == {"SDHC", "SDSC", "SD1"}
CardReset(kind) == [kind |-> kind, state |-> "idle", rca |-> 0, app |-> FALSE, busy |-> TRUE]

\* The card answers a command (or obeys CMD0, which has no answer).
Answers(c) ==
    CASE c.cmd = "CMD0" -> TRUE
      [] c.cmd = "CMD8" -> card.state = "idle" /\ card.kind # "SD1"
      [] c.cmd = "CMD55" -> c.arg = card.rca
      [] c.cmd = "ACMD41" -> card.state = "idle" /\ card.app
      [] c.cmd = "CMD2" -> card.state = "ready"
      [] c.cmd = "CMD3" -> card.state \in {"ident", "stdby"}
      [] c.cmd = "CMD7" -> card.state = "stdby" /\ c.arg = card.rca
      [] c.cmd = "CMD13" -> card.state \in {"stdby", "transfert"} /\ c.arg = card.rca
      [] c.cmd = "CMD17" -> card.state = "transfert"

\* What the command does to the card.
Obeyed(c) ==
    CASE c.cmd = "CMD0" -> CardReset(card.kind)
      [] c.cmd = "CMD55" -> [card EXCEPT !.app = TRUE]
      [] c.cmd = "ACMD41" -> [card EXCEPT !.state = IF card.busy THEN @ ELSE "ready",
                                          !.app = FALSE]
      [] c.cmd = "CMD2" -> [card EXCEPT !.state = "ident"]
      [] c.cmd = "CMD3" -> [card EXCEPT !.state = "stdby", !.rca = 1]
      [] c.cmd = "CMD7" -> [card EXCEPT !.state = "transfert"]
      [] OTHER -> card

\* What it answers. The upper half of a part of the CID is some number.
ResponseTo(c) ==
    CASE c.cmd = "CMD0" -> emmc.resp
      [] c.cmd = "CMD8" -> [NO_RESPONSE EXCEPT !.echo = c.arg = 426]
      [] c.cmd = "ACMD41" -> [NO_RESPONSE EXCEPT !.power_up = ~ card.busy,
                                                 !.high_capacity = card.kind = "SDHC"]
      [] c.cmd = "CMD2" -> [NO_RESPONSE EXCEPT !.upper = 2]
      [] c.cmd = "CMD3" -> [NO_RESPONSE EXCEPT !.upper = 1]
      [] OTHER -> NO_RESPONSE

\* The card powers up, after any time or never.
PowersUp ==
    /\ card.busy /\ card' = [card EXCEPT !.busy = FALSE]
    /\ UNCHANGED <<host, emmc, file, call, ret, panic, faults>>

\* A reset ends what the controller was doing.
EmmcReset ==
    /\ emmc.resetting
    /\ emmc' = [emmc EXCEPT !.resetting = FALSE, !.flags = {}, !.bus = IDLE_BUS,
                            !.data = NO_DATA, !.fifo = GARBAGE, !.resp = NO_RESPONSE,
                            !.silent = FALSE]
    /\ UNCHANGED <<host, card, file, call, ret, panic, faults>>

\* A command ends with an answer; a block to read follows.
CardAnswers ==
    /\ ~ emmc.resetting /\ emmc.bus # IDLE_BUS /\ Answers(emmc.bus)
    /\ emmc' = [emmc EXCEPT !.flags = @ \cup {"CMD_DONE"}, !.resp = ResponseTo(emmc.bus),
                            !.bus = IDLE_BUS,
                            !.data = IF emmc.bus.cmd = "CMD17" THEN emmc.bus.arg ELSE @]
    /\ card' = Obeyed(emmc.bus)
    /\ UNCHANGED <<host, file, call, ret, panic, faults>>

\* It ends without one. Some controllers then set CMD_DONE as well ("Once the
\* command has executed or timed-out bit 0 of register INTERRUPT will be set"),
\* others only the error flag.
TimedOut == [emmc EXCEPT !.flags = @ \cup {"CTO_ERR"}
                                     \cup (IF emmc.done_on_timeout THEN {"CMD_DONE"} ELSE {}),
                         !.bus = IDLE_BUS, !.silent = @ \/ emmc.done_on_timeout]

CommandTimesOut ==
    /\ ~ emmc.resetting /\ emmc.bus # IDLE_BUS /\ ~ Answers(emmc.bus)
    /\ emmc' = TimedOut
    /\ UNCHANGED <<host, card, file, call, ret, panic, faults>>

\* The command, or its answer, is lost on the way.
CommandLost ==
    /\ ~ emmc.resetting /\ emmc.bus # IDLE_BUS /\ faults < MaxFaults
    /\ emmc' = TimedOut /\ faults' = faults + 1
    /\ card' \in {card} \cup {Obeyed(c) : c \in {x \in {emmc.bus} : Answers(x)}}
    /\ UNCHANGED <<host, file, call, ret, panic>>

\* A block has arrived, possibly damaged.
DataArrives ==
    /\ ~ emmc.resetting /\ emmc.data \in 0 .. CardBlocks - 1
    /\ \/ /\ emmc' = [emmc EXCEPT !.flags = @ \cup {"READ_READY"}, !.data = NO_DATA,
                                  !.fifo = BlockOf("sdcard", emmc.data)]
          /\ UNCHANGED faults
       \/ /\ faults < MaxFaults /\ faults' = faults + 1
          /\ emmc' = [emmc EXCEPT !.flags = @ \cup {"READ_READY", "DCRC_ERR"},
                                  !.data = NO_DATA, !.fifo = GARBAGE]
    /\ UNCHANGED <<host, card, file, call, ret, panic>>

\* No block arrives: it is lost, or there is none with this index.
DataTimesOut ==
    /\ ~ emmc.resetting /\ emmc.data # NO_DATA
    /\ \/ emmc.data >= CardBlocks /\ UNCHANGED faults
       \/ emmc.data < CardBlocks /\ faults < MaxFaults /\ faults' = faults + 1
    /\ emmc' = [emmc EXCEPT !.flags = @ \cup {"DTO_ERR"}, !.data = NO_DATA]
    /\ UNCHANGED <<host, card, file, call, ret, panic>>

-----------------------------------------------------------------------------
(* Commands of the driver                                                  *)

Running == panic = "none"

\* kernel_fatal_error
Stop(reason) == panic' = reason /\ UNCHANGED <<host, emmc, card, file, call, ret, faults>>

\* Faulty variant: the interrupt register is not reset.
AcknowledgeNothing(flags) == flags

\* mmio_write(REG__SDCARD_INTERRUPT, 0x1): only this flag is reset.
Acknowledge(flags) == flags \ {"CMD_DONE"}

\* The write of ARG1 and CMDTM by _sdhost_send_command and
\* _sdhost_send_data_command, and the start of the wait.
Sent(h, cmd) == [h EXCEPT !.pc = "wait", !.cmd = cmd, !.counter = 0]
OnBus(e, cmd, arg) == [e EXCEPT !.bus = [cmd |-> cmd, arg |-> arg]]

\* sdhost_init: the reset of the controller. The wait for it has no limit.
StartInit ==
    /\ Running /\ host.pc = "off"
    /\ host' = [host EXCEPT !.pc = "reset"]
    /\ emmc' = [emmc EXCEPT !.resetting = TRUE]
    /\ UNCHANGED <<card, file, call, ret, panic, faults>>

ResetDone ==
    /\ Running /\ host.pc = "reset" /\ ~ emmc.resetting
    /\ host' = Sent(host, "CMD0") /\ emmc' = OnBus(emmc, "CMD0", 0)
    /\ UNCHANGED <<card, file, call, ret, panic, faults>>

\* Faulty variant: the card is not selected.
NextCommandUnselected(cmd) ==
    CASE cmd = "CMD0" -> "CMD8" [] cmd = "CMD8" -> "CMD55" [] cmd = "CMD55" -> "ACMD41"
      [] cmd = "ACMD41" -> IF emmc.resp.power_up THEN "CMD2" ELSE "CMD55"
      [] cmd = "CMD2" -> "CMD3" [] cmd = "CMD3" -> "CMD13"

\* The order of the commands of sdhost_init.
NextCommand(cmd) ==
    CASE cmd = "CMD0" -> "CMD8" [] cmd = "CMD8" -> "CMD55" [] cmd = "CMD55" -> "ACMD41"
      [] cmd = "ACMD41" -> IF emmc.resp.power_up THEN "CMD2" ELSE "CMD55"
      [] cmd = "CMD2" -> "CMD3" [] cmd = "CMD3" -> "CMD7" [] cmd = "CMD7" -> "CMD13"

\* Their arguments: the voltage and pattern 0x1AA, the operating conditions
\* 0x40FF8000, the address that the card has published.
ArgumentOf(cmd, rca) ==
    CASE cmd = "CMD8" -> 426 [] cmd = "ACMD41" -> 1090486272 [] cmd \in {"CMD7", "CMD13"} -> rca
      [] OTHER -> 0

\* sdhost_init after a command of it is done. The state that CMD13 returns is
\* only logged.
InitContinues(flags) ==
    LET rca == IF host.cmd = "CMD3" THEN emmc.resp.upper ELSE host.rca
        next == NextCommand(host.cmd)
    IN  IF host.cmd = "CMD8" /\ ~ emmc.resp.echo THEN Stop("assert_negotiation")
        ELSE IF /\ host.cmd = "ACMD41" /\ emmc.resp.power_up
                /\ ~ emmc.resp.high_capacity THEN Stop("sdsc")
        ELSE /\ IF host.cmd = "CMD13"
                THEN /\ host' = [host EXCEPT !.pc = "idle"]
                     /\ emmc' = [emmc EXCEPT !.flags = flags]
                ELSE /\ host' = Sent([host EXCEPT !.rca = rca], next)
                     /\ emmc' = OnBus([emmc EXCEPT !.flags = flags], next, ArgumentOf(next, rca))
             /\ UNCHANGED <<card, file, call, ret, panic, faults>>

\* _sdhost_wait_for_cmd_done sees CMD_DONE, and its caller goes on.
CommandDone ==
    /\ Running /\ host.pc = "wait" /\ "CMD_DONE" \in emmc.flags
    /\ IF host.cmd = "CMD17"
       THEN /\ host' = [host EXCEPT !.pc = "data"]
            /\ emmc' = [emmc EXCEPT !.flags = Acknowledge(@)]
            /\ UNCHANGED <<card, file, call, ret, panic, faults>>
       ELSE InitContinues(Acknowledge(emmc.flags))

\* Faulty variant: a limit between two looks at the counter.
GivesUpBetween(counter) == counter % PollPeriod = 0 /\ counter = PollLimit + 1

\* The limit of _sdhost_wait_for_cmd_done.
GivesUp(counter) == counter % PollPeriod = 0 /\ counter > PollLimit

\* One poll of it without CMD_DONE. The error flags are only logged.
PollAgain ==
    LET counter == MinOf(host.counter + 1, PollLimit + PollPeriod)
    IN  /\ Running /\ host.pc = "wait" /\ "CMD_DONE" \notin emmc.flags
        /\ IF GivesUp(counter) THEN Stop("failed_to_wait")
           ELSE /\ host' = [host EXCEPT !.counter = counter]
                /\ UNCHANGED <<emmc, card, file, call, ret, panic, faults>>

-----------------------------------------------------------------------------
(* Blocks                                                                  *)

CLOSED == [dev |-> "none", pos |-> 0]
NO_CALL == [size |-> 0, block_index |-> 0, block_offset |-> 0, total |-> <<>>]
Returned(status, data, at, size) == [status |-> status, data |-> data, at |-> at, size |-> size]
NO_READ == Returned(0, <<>>, 0, 0)

\* _block_device_open, get_block_device, on the two nodes that the kernel makes.
Open(dev) ==
    /\ Running /\ host.pc = "idle" /\ file' = [dev |-> dev, pos |-> 0] /\ ret' = NO_READ
    /\ UNCHANGED <<host, emmc, card, call, panic, faults>>

\* _block_device_release
Close ==
    /\ Running /\ host.pc = "idle" /\ file # CLOSED /\ file' = CLOSED /\ ret' = NO_READ
    /\ UNCHANGED <<host, emmc, card, call, panic, faults>>

\* _block_device_write, _block_device_seek, _sdcard_disk_write_block
NotImplemented == Running /\ host.pc = "idle" /\ file # CLOSED /\ Stop("not_implemented")

\* The call of read_block: sdhost_read_block sends CMD17, the ram disk copies.
ReadBlock(e, index) ==
    IF file.dev = "sdcard"
    THEN host' = Sent(host, "CMD17") /\ emmc' = OnBus(e, "CMD17", index)
    ELSE host' = [host EXCEPT !.pc = "ram"] /\ emmc' = e

\* The return of _block_device_read.
ReadReturns(e, c, status) ==
    /\ host' = [host EXCEPT !.pc = "idle"] /\ emmc' = e /\ call' = NO_CALL
    /\ file' = [file EXCEPT !.pos = @ + Len(c.total)]
    /\ ret' = Returned(status, c.total, file.pos, Len(c.total) + c.size)

\* _block_device_read, up to its first block.
Read(size) ==
    /\ Running /\ host.pc = "idle" /\ file # CLOSED
    /\ IF size = 0
       THEN /\ ret' = Returned(0, <<>>, file.pos, 0)
            /\ UNCHANGED <<host, emmc, call>>
       ELSE /\ call' = [size |-> size, block_index |-> file.pos \div BLOCK_SIZE,
                        block_offset |-> file.pos % BLOCK_SIZE, total |-> <<>>]
            /\ ReadBlock(emmc, call'.block_index)
            /\ UNCHANGED ret
    /\ UNCHANGED <<card, file, panic, faults>>

\* Faulty variant: the offset of the first block is used in all blocks.
FromBlockSame(c, block) ==
    LET n == MinOf(BLOCK_SIZE - c.block_offset, c.size)
    IN  [size |-> c.size - n, block_index |-> c.block_index + 1, block_offset |-> c.block_offset,
         total |-> c.total \o SubSeq(block, c.block_offset + 1, c.block_offset + n)]

\* What a block adds to the call.
FromBlock(c, block) ==
    LET n == MinOf(BLOCK_SIZE - c.block_offset, c.size)
    IN  [size |-> c.size - n, block_index |-> c.block_index + 1, block_offset |-> 0,
         total |-> c.total \o SubSeq(block, c.block_offset + 1, c.block_offset + n)]

\* The rest of the turn of _block_device_read, and the next one.
BlockRead(e, block) ==
    LET c == FromBlock(call, block)
    IN  IF c.size = 0
        THEN ReadReturns(e, c, Len(c.total))
        ELSE /\ call' = c /\ ReadBlock(e, c.block_index)
             /\ UNCHANGED <<file, ret>>

\* sdhost_read_block sees READ_READY and takes the words of the block.
ReadReady ==
    /\ Running /\ host.pc = "data" /\ "READ_READY" \in emmc.flags
    /\ BlockRead([emmc EXCEPT !.flags = @ \ {"READ_READY"}, !.fifo = GARBAGE], emmc.fifo)
    /\ UNCHANGED <<card, panic, faults>>

\* It sees a timeout instead, or neither: that wait has no limit.
ReadTimeout ==
    /\ Running /\ host.pc = "data" /\ "READ_READY" \notin emmc.flags
    /\ IF "DTO_ERR" \in emmc.flags THEN Stop("read_timeout") ELSE UNCHANGED vars

\* _section_ramdisk_read_block: an error ends the read, with what there is.
RamBlock ==
    /\ Running /\ host.pc = "ram"
    /\ IF call.block_index < RamBlocks THEN BlockRead(emmc, BlockOf("ramdisk", call.block_index))
       ELSE ReadReturns(emmc, call, IF call.total = <<>> THEN -1 ELSE Len(call.total))
    /\ UNCHANGED <<card, panic, faults>>

-----------------------------------------------------------------------------
(* Specification                                                           *)

OFF == [pc |-> "off", cmd |-> "none", counter |-> 0, rca |-> 0]

Init ==
    /\ host = OFF /\ file = CLOSED /\ call = NO_CALL /\ ret = NO_READ
    /\ panic = "none" /\ faults = 0
    /\ \E kind \in CardKinds : card = CardReset(kind)
    /\ \E quirk \in BOOLEAN :
          emmc = [flags |-> {}, resp |-> NO_RESPONSE, bus |-> IDLE_BUS, data |-> NO_DATA,
                  fifo |-> GARBAGE, resetting |-> FALSE, done_on_timeout |-> quirk,
                  silent |-> FALSE]

\* watchdog_reboot: the card and the controller stay as they are.
Reboot ==
    /\ ~ Running
    /\ host' = OFF /\ file' = CLOSED /\ call' = NO_CALL /\ ret' = NO_READ /\ panic' = "none"
    /\ UNCHANGED <<emmc, card, faults>>

Driver == \/ StartInit \/ ResetDone \/ CommandDone \/ PollAgain
          \/ ReadReady \/ ReadTimeout \/ RamBlock
Hardware == EmmcReset \/ CardAnswers \/ CommandTimesOut \/ DataArrives \/ DataTimesOut
Programs == \/ \E dev \in {"sdcard", "ramdisk"} : Open(dev)
            \/ \E size \in ReadSizes : Read(size)
            \/ Close \/ NotImplemented

Next == Driver \/ Hardware \/ PowersUp \/ CommandLost \/ Programs \/ Reboot

Spec == Init /\ [][Next]_vars

\* The driver goes on, and the controller ends what it was asked to do. Nothing
\* makes a card power up.
FairSpec == Spec /\ WF_vars(Driver) /\ WF_vars(Hardware)

-----------------------------------------------------------------------------
(* Properties                                                              *)

\* A command is only written when the one before it and its block are done and
\* no flag of them is left in the INTERRUPT register, which is "not self
\* clearing": no wait can end with the flag of an earlier command, and a
\* machine that starts again does not find what it left behind.
CommandsApart == [][
    emmc'.bus \notin {emmc.bus, IDLE_BUS} =>
        /\ emmc.bus = IDLE_BUS /\ emmc.data = NO_DATA
        /\ emmc'.flags \cap {"CMD_DONE", "READ_READY"} = {}
    ]_vars

\* When sdhost_init has returned, and as long as the driver reads blocks, the
\* card is selected under the address that the driver knows, unless a command
\* timed out and the controller reported it as done, which the driver takes
\* for an answer.
ReadyMeansSelected ==
    Running /\ (host.pc \in {"idle", "data"} \/ host.cmd = "CMD17") =>
        emmc.silent \/ (card.state = "transfert" /\ card.rca = host.rca)

DeviceSize(dev) == BLOCK_SIZE * (IF dev = "sdcard" THEN CardBlocks ELSE RamBlocks)

\* A read of a block device file returns the bytes of the device from the
\* position of the file on, all that were asked for or all that are left (-1
\* when none is), and moves the position behind them, unless a block was
\* damaged, which the driver does not notice.
ReadsDevice ==
    host.pc = "idle" /\ "DCRC_ERR" \notin emmc.flags =>
        LET n == MinOf(ret.size, DeviceSize(file.dev) - ret.at)
        IN  /\ ret.data = [i \in 1 .. n |-> Byte(file.dev, ret.at + i - 1)]
            /\ ret.status = IF n = 0 /\ ret.size > 0 THEN -1 ELSE n
            /\ file.pos = ret.at + n

\* The loop of sdhost_init that sends ACMD41 until the card is powered up.
PowerUpLoop == host.pc = "wait" /\ host.cmd \in {"CMD55", "ACMD41"}

\* The start of the driver and every read end, with a result or with a fatal
\* error: no answer and no block is waited for without end. Two waits of the
\* code have no limit: for a card that is never powered up, which is asked
\* again and again, and after a command that timed out and that the
\* controller reported as done.
CallEnds ==
    Running /\ host.pc # "idle" ~>
        \/ ~ Running \/ host.pc = "idle" \/ emmc.silent
        \/ card.busy /\ PowerUpLoop
=============================================================================
