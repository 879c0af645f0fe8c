----------------------------- MODULE SdHostProofs -----------------------------
(***************************************************************************)
(* Proofs about the module SdHost: no wait of the driver ends with a flag  *)
(* of an earlier command, the card is selected when the driver believes it *)
(* is, and a read returns the bytes of the device.                         *)
(***************************************************************************)
EXTENDS SdHost, TLAPS

-----------------------------------------------------------------------------
(* The inductive invariant                                                 *)

InitCommands == {"CMD0", "CMD8", "CMD55", "ACMD41", "CMD2", "CMD3", "CMD7", "CMD13"}

\* The fields of the records, and the commands the driver may wait for.
Shapes ==
    /\ DOMAIN host = {"pc", "cmd", "counter", "rca"}
    /\ DOMAIN emmc = {"flags", "resp", "bus", "data", "fifo", "resetting",
                      "done_on_timeout", "silent"}
    /\ DOMAIN card = {"kind", "state", "rca", "app", "busy"}
    /\ emmc.silent \in BOOLEAN /\ emmc.done_on_timeout \in BOOLEAN
    /\ emmc.resetting \in BOOLEAN
    /\ host.pc \in {"off", "reset", "wait", "data", "ram", "idle"}
    /\ host.pc \in {"off", "reset"} => host.cmd = "none"
    /\ host.pc = "wait" => host.cmd \in InitCommands \cup {"CMD17"}

\* Nothing is under way and no flag of a command is left.
Quiet ==
    /\ emmc.bus = IDLE_BUS /\ emmc.data = NO_DATA
    /\ "CMD_DONE" \notin emmc.flags /\ "READ_READY" \notin emmc.flags

\* What the controller is busy with is what the driver waits for.
BusInv ==
    /\ emmc.resetting => Running /\ host.pc = "reset"
    /\ host.pc = "reset" /\ ~ emmc.resetting => Quiet
    /\ host.pc \in {"idle", "ram"} => Quiet
    /\ host.pc = "data" => /\ emmc.bus = IDLE_BUS /\ "CMD_DONE" \notin emmc.flags
                           /\ emmc.data = NO_DATA \/ "READ_READY" \notin emmc.flags
    /\ host.pc = "wait" =>
          /\ emmc.bus # IDLE_BUS => /\ emmc.bus.cmd = host.cmd /\ emmc.data = NO_DATA
                                    /\ "CMD_DONE" \notin emmc.flags
                                    /\ "READ_READY" \notin emmc.flags
          /\ emmc.data = NO_DATA \/ "READ_READY" \notin emmc.flags
          /\ emmc.data # NO_DATA \/ "READ_READY" \in emmc.flags => host.cmd = "CMD17"

\* The card is selected under the address that the driver knows.
Selected == card.state = "transfert" /\ card.rca = host.rca

\* It is, once CMD7 has been answered.
SelectInv ==
    /\ host.pc \in {"idle", "data", "ram"} => emmc.silent \/ Selected
    /\ host.pc = "wait" /\ host.cmd \in {"CMD13", "CMD17"} => emmc.silent \/ Selected
    /\ host.pc = "wait" /\ host.cmd = "CMD7" =>
          /\ emmc.bus # IDLE_BUS => emmc.bus.arg = host.rca
          /\ "CMD_DONE" \in emmc.flags => emmc.silent \/ Selected

DriverInv == Shapes /\ BusInv /\ SelectInv

\* The controller ends its reset.
LEMMA ResetInv ==
    ASSUME DriverInv, EmmcReset
    PROVE  DriverInv'
BY DEF DriverInv, Shapes, BusInv, SelectInv, Selected, Quiet, EmmcReset

\* A command without an answer.
LEMMA TimedOutInv ==
    ASSUME DriverInv, ~ emmc.resetting, emmc.bus # IDLE_BUS, emmc' = TimedOut,
           host' = host, panic' = panic,
           \/ card' = card
           \/ Answers(emmc.bus) /\ card' = Obeyed(emmc.bus)
    PROVE  DriverInv'
<1>1. /\ DOMAIN emmc' = DOMAIN emmc /\ emmc'.bus = IDLE_BUS /\ emmc'.data = emmc.data
      /\ emmc'.resetting = emmc.resetting /\ emmc'.done_on_timeout = emmc.done_on_timeout
      /\ emmc'.silent = (emmc.silent \/ emmc.done_on_timeout)
      /\ "READ_READY" \in emmc'.flags <=> "READ_READY" \in emmc.flags
      /\ "CMD_DONE" \in emmc'.flags <=> "CMD_DONE" \in emmc.flags \/ emmc.done_on_timeout
    BY DEF TimedOut, DriverInv, Shapes
<1>2. /\ DOMAIN card' = DOMAIN card
      /\ emmc.bus.cmd \in {"CMD7", "CMD13", "CMD17"} => card'.rca = card.rca
      /\ emmc.bus.cmd \in {"CMD13", "CMD17"} => card'.state = card.state
    BY DEF Obeyed, CardReset, DriverInv, Shapes
<1>3. Shapes'
    BY <1>1, <1>2 DEF DriverInv, Shapes
<1>4. BusInv'
    BY <1>1 DEF DriverInv, BusInv, Quiet, Running
<1>5. SelectInv'
    BY <1>1, <1>2 DEF DriverInv, Shapes, SelectInv, BusInv, Selected, Quiet
<1> QED BY <1>3, <1>4, <1>5 DEF DriverInv

\* A command with one: CMD7 selects the card.
LEMMA CardAnswersInv ==
    ASSUME DriverInv, CardAnswers
    PROVE  DriverInv'
<1> USE DEF CardAnswers
<1>1. /\ DOMAIN emmc' = DOMAIN emmc /\ emmc'.bus = IDLE_BUS
      /\ emmc'.resetting = emmc.resetting /\ emmc'.done_on_timeout = emmc.done_on_timeout
      /\ emmc'.silent = emmc.silent
      /\ emmc.bus.cmd # "CMD17" => emmc'.data = emmc.data
      /\ "READ_READY" \in emmc'.flags <=> "READ_READY" \in emmc.flags
      /\ "CMD_DONE" \in emmc'.flags
    BY DEF DriverInv, Shapes
<1>2. /\ DOMAIN card' = DOMAIN card
      /\ emmc.bus.cmd \in {"CMD7", "CMD13", "CMD17"} => card'.rca = card.rca
      /\ emmc.bus.cmd \in {"CMD13", "CMD17"} => card'.state = card.state
      /\ emmc.bus.cmd = "CMD7" => card'.state = "transfert"
    BY DEF Obeyed, CardReset, DriverInv, Shapes
<1>3. emmc.bus.cmd = "CMD7" => emmc.bus.arg = card.rca
    BY DEF Answers
<1>4. Shapes'
    BY <1>1, <1>2 DEF DriverInv, Shapes
<1>5. BusInv'
    BY <1>1 DEF DriverInv, BusInv, Quiet, Running
<1>6. SelectInv'
    BY <1>1, <1>2, <1>3 DEF DriverInv, Shapes, SelectInv, BusInv, Selected, Quiet
<1> QED BY <1>4, <1>5, <1>6 DEF DriverInv

\* The controller and the card leave the driver's invariant alone.
LEMMA HardwareInv ==
    ASSUME DriverInv, Hardware \/ CommandLost
    PROVE  DriverInv'
<1>1. CASE EmmcReset
    BY <1>1, ResetInv
<1>2. CASE CardAnswers
    BY <1>2, CardAnswersInv
<1>3. CASE CommandTimesOut
    BY <1>3, TimedOutInv DEF CommandTimesOut
<1>4. CASE CommandLost
    BY <1>4, TimedOutInv DEF CommandLost
<1>5. CASE DataArrives \/ DataTimesOut
    <2>1. /\ DOMAIN emmc' = DOMAIN emmc /\ emmc'.bus = emmc.bus /\ emmc'.data = NO_DATA
          /\ emmc.data # NO_DATA
          /\ emmc'.resetting = emmc.resetting /\ emmc'.done_on_timeout = emmc.done_on_timeout
          /\ emmc'.silent = emmc.silent /\ ~ emmc.resetting
          /\ "CMD_DONE" \in emmc'.flags <=> "CMD_DONE" \in emmc.flags
          /\ UNCHANGED <<host, card, panic>>
        <3>1. CASE DataArrives
            <4>1. emmc.data # NO_DATA
                BY <3>1, SdHostAssumption DEF DataArrives, NO_DATA
            <4>2. PICK F \in SUBSET {"READ_READY", "DCRC_ERR"},
                          b \in {BlockOf("sdcard", emmc.data), GARBAGE} :
                     emmc' = [emmc EXCEPT !.flags = @ \cup F, !.data = NO_DATA, !.fifo = b]
                BY <3>1 DEF DataArrives
            <4> QED BY <3>1, <4>1, <4>2 DEF DataArrives, DriverInv, Shapes
        <3>2. CASE DataTimesOut
            BY <3>2 DEF DataTimesOut, DriverInv, Shapes
        <3> QED BY <1>5, <3>1, <3>2
    <2>2. Shapes'
        BY <2>1 DEF DriverInv, Shapes
    <2>3. BusInv'
        BY <2>1 DEF DriverInv, BusInv, Quiet, Running
    <2>4. SelectInv'
        BY <2>1 DEF DriverInv, SelectInv, Selected
    <2> QED BY <2>2, <2>3, <2>4 DEF DriverInv
<1> QED BY <1>1, <1>2, <1>3, <1>4, <1>5 DEF Hardware

\* A fatal error stops the driver where it is.
LEMMA StopInv ==
    ASSUME DriverInv, ~ emmc.resetting, UNCHANGED <<host, emmc, card>>
    PROVE  DriverInv'
BY DEF DriverInv, Shapes, BusInv, SelectInv, Selected, Quiet

\* The step of CommandsApart.
Apart ==
    emmc'.bus \notin {emmc.bus, IDLE_BUS} =>
        /\ emmc.bus = IDLE_BUS /\ emmc.data = NO_DATA
        /\ emmc'.flags \cap {"CMD_DONE", "READ_READY"} = {}

\* What a step keeps of the controller's record, and of the driver's.
SameShape ==
    /\ DOMAIN host' = DOMAIN host /\ DOMAIN emmc' = DOMAIN emmc
    /\ emmc'.silent = emmc.silent /\ emmc'.done_on_timeout = emmc.done_on_timeout
    /\ emmc'.resetting = emmc.resetting /\ emmc'.data = emmc.data /\ card' = card

\* A command is written to a controller that has nothing to do.
LEMMA WrittenInv ==
    ASSUME DriverInv, SameShape, NEW cmd \in InitCommands \cup {"CMD17"}, NEW arg,
           ~ emmc.resetting, emmc.bus = IDLE_BUS, emmc.data = NO_DATA,
           host'.pc = "wait", host'.cmd = cmd, emmc'.bus = [cmd |-> cmd, arg |-> arg],
           "CMD_DONE" \notin emmc'.flags, "READ_READY" \notin emmc'.flags,
           cmd \in {"CMD13", "CMD17"} => host'.rca = host.rca /\ (emmc.silent \/ Selected),
           cmd = "CMD7" => arg = host'.rca
    PROVE  DriverInv' /\ Apart
<1>1. emmc'.bus.cmd = cmd /\ emmc'.bus.arg = arg
    OBVIOUS
<1>2. Shapes'
    BY DEF DriverInv, Shapes, SameShape
<1>3. BusInv'
    BY <1>1 DEF SameShape, BusInv, Quiet
<1>4. SelectInv'
    BY <1>1 DEF SameShape, SelectInv, Selected
<1> QED BY <1>2, <1>3, <1>4 DEF DriverInv, Apart

\* The driver goes on and leaves the bus as it is.
LEMMA IdleInv ==
    ASSUME DriverInv, SameShape, ~ emmc.resetting,
           emmc.bus = IDLE_BUS, emmc'.bus = IDLE_BUS,
           host'.pc \in {"idle", "ram", "data"}, host'.rca = host.rca,
           emmc.silent \/ Selected, "CMD_DONE" \notin emmc'.flags,
           \/ emmc.data = NO_DATA /\ "READ_READY" \notin emmc'.flags
           \/ host'.pc = "data" /\ (emmc.data = NO_DATA \/ "READ_READY" \notin emmc'.flags)
    PROVE  DriverInv' /\ Apart
<1>1. Shapes'
    BY DEF DriverInv, Shapes, SameShape
<1>2. BusInv'
    BY DEF SameShape, BusInv, Quiet
<1>3. SelectInv'
    BY DEF SameShape, SelectInv, Selected
<1> QED BY <1>1, <1>2, <1>3 DEF DriverInv, Apart

\* The start of the driver.
LEMMA StartInv ==
    ASSUME DriverInv, StartInit \/ ResetDone
    PROVE  DriverInv' /\ Apart
<1>1. CASE StartInit
    BY <1>1 DEF StartInit, Running, DriverInv, Shapes, BusInv, SelectInv, Selected, Quiet, Apart
<1>2. CASE ResetDone
    <2>1. /\ SameShape /\ host'.pc = "wait" /\ host'.cmd = "CMD0"
          /\ emmc'.bus = [cmd |-> "CMD0", arg |-> 0] /\ emmc'.flags = emmc.flags
        BY <1>2 DEF ResetDone, Sent, OnBus, SameShape, DriverInv, Shapes
    <2>2. ~ emmc.resetting /\ Quiet
        BY <1>2 DEF ResetDone, DriverInv, BusInv
    <2> QED BY <2>1, <2>2, WrittenInv DEF Quiet, InitCommands
<1> QED BY <1>1, <1>2

\* The commands of sdhost_init, one after the other.
LEMMA InitInv ==
    ASSUME DriverInv, CommandDone, host.cmd # "CMD17"
    PROVE  DriverInv' /\ Apart
<1> DEFINE flags == Acknowledge(emmc.flags)
           rca == IF host.cmd = "CMD3" THEN emmc.resp.upper ELSE host.rca
           next == NextCommand(host.cmd)
<1>1. /\ host.pc = "wait" /\ "CMD_DONE" \in emmc.flags /\ InitContinues(flags)
      /\ host.cmd \in InitCommands
    BY DEF CommandDone, DriverInv, Shapes
<1>2. /\ ~ emmc.resetting /\ emmc.bus = IDLE_BUS /\ emmc.data = NO_DATA
      /\ "READ_READY" \notin emmc.flags
    BY <1>1 DEF DriverInv, Shapes, BusInv
<1>3. "CMD_DONE" \notin flags /\ "READ_READY" \notin flags
    BY <1>2 DEF Acknowledge
<1>4. CASE UNCHANGED <<host, emmc, card>>
    BY <1>2, <1>4, StopInv DEF Apart
<1>5. CASE /\ host.cmd = "CMD13" /\ host' = [host EXCEPT !.pc = "idle"]
           /\ emmc' = [emmc EXCEPT !.flags = flags] /\ card' = card
    <2>1. /\ SameShape /\ emmc'.bus = emmc.bus /\ host'.pc = "idle" /\ host'.rca = host.rca
          /\ emmc'.flags = flags
        BY <1>5 DEF SameShape, DriverInv, Shapes
    <2>2. emmc.silent \/ Selected
        BY <1>1, <1>5 DEF DriverInv, SelectInv
    <2> QED BY <1>2, <1>3, <2>1, <2>2, IdleInv
<1>6. CASE /\ host.cmd # "CMD13" /\ host' = Sent([host EXCEPT !.rca = rca], next)
           /\ emmc' = OnBus([emmc EXCEPT !.flags = flags], next, ArgumentOf(next, rca))
           /\ card' = card
    <2>1. /\ next \in InitCommands
          /\ next = "CMD13" => host.cmd = "CMD7"
          /\ next = "CMD7" => host.cmd = "CMD3"
        BY <1>1, <1>6 DEF NextCommand, InitCommands
    <2>2. next = "CMD7" => ArgumentOf(next, rca) = rca
        BY DEF ArgumentOf
    <2> PICK n, a, r, f : n = next /\ a = ArgumentOf(next, rca) /\ r = rca /\ f = flags
        OBVIOUS
    <2>3. /\ SameShape /\ host'.pc = "wait" /\ host'.cmd = n /\ host'.rca = r
          /\ emmc'.bus = [cmd |-> n, arg |-> a] /\ emmc'.flags = f
        BY <1>6 DEF SameShape, DriverInv, Shapes, Sent, OnBus
    <2>4. n = "CMD13" => r = host.rca /\ (emmc.silent \/ Selected)
        BY <1>1, <2>1 DEF DriverInv, SelectInv
    <2> HIDE DEF next, rca, flags
    <2>5. n \in InitCommands /\ n # "CMD17" /\ (n = "CMD7" => a = r)
        BY <2>1, <2>2 DEF InitCommands
    <2> QED BY <1>2, <1>3, <2>3, <2>4, <2>5, WrittenInv
<1> QED BY <1>1, <1>4, <1>5, <1>6 DEF InitContinues, Stop

\* The waits of the driver.
LEMMA WaitInv ==
    ASSUME DriverInv, CommandDone \/ PollAgain \/ ReadTimeout
    PROVE  DriverInv' /\ Apart
<1>1. CASE CommandDone /\ host.cmd = "CMD17"
    <2>1. /\ host.pc = "wait" /\ "CMD_DONE" \in emmc.flags
          /\ host' = [host EXCEPT !.pc = "data"]
          /\ emmc' = [emmc EXCEPT !.flags = Acknowledge(@)] /\ card' = card
        BY <1>1 DEF CommandDone
    <2>2. /\ SameShape /\ emmc'.bus = emmc.bus /\ host'.pc = "data" /\ host'.rca = host.rca
          /\ emmc'.flags = emmc.flags \ {"CMD_DONE"}
        BY <2>1 DEF SameShape, DriverInv, Shapes, Acknowledge
    <2>3. /\ ~ emmc.resetting /\ emmc.bus = IDLE_BUS
          /\ emmc.silent \/ Selected
          /\ emmc.data = NO_DATA \/ "READ_READY" \notin emmc.flags
        BY <1>1, <2>1 DEF DriverInv, BusInv, SelectInv
    <2> QED BY <2>2, <2>3, IdleInv
<1>2. CASE CommandDone /\ host.cmd # "CMD17"
    BY <1>2, InitInv
<1>3. CASE PollAgain
    <2> DEFINE counter == MinOf(host.counter + 1, PollLimit + PollPeriod)
    <2>1. /\ host.pc = "wait" /\ UNCHANGED <<emmc, card>>
          /\ \/ UNCHANGED host
             \/ host' = [host EXCEPT !.counter = counter] /\ panic' = panic
        BY <1>3 DEF PollAgain, Stop
    <2>2. /\ DOMAIN host' = DOMAIN host
          /\ host'.pc = host.pc /\ host'.cmd = host.cmd /\ host'.rca = host.rca
        BY <2>1 DEF DriverInv, Shapes
    <2>3. Apart
        BY <2>1 DEF Apart
    <2>4. Shapes' /\ SelectInv'
        BY <2>1, <2>2 DEF DriverInv, Shapes, SelectInv, Selected
    <2>5. BusInv'
        BY <2>1, <2>2 DEF DriverInv, BusInv, Quiet
    <2> QED BY <2>3, <2>4, <2>5 DEF DriverInv
<1>4. CASE ReadTimeout
    <2>1. UNCHANGED <<host, emmc, card>> /\ host.pc = "data"
        BY <1>4 DEF ReadTimeout, Stop, vars
    <2>2. ~ emmc.resetting
        BY <2>1 DEF DriverInv, BusInv
    <2> QED BY <2>1, <2>2, StopInv DEF Apart
<1> QED BY <1>1, <1>2, <1>3, <1>4

\* Nothing is under way, and e is the controller without a block to take.
Cleared(e) ==
    /\ ~ emmc.resetting /\ emmc.bus = IDLE_BUS /\ emmc.data = NO_DATA
    /\ emmc.silent \/ Selected
    /\ "CMD_DONE" \notin emmc.flags
    /\ \/ e = emmc /\ "READ_READY" \notin emmc.flags
       \/ e = [emmc EXCEPT !.flags = @ \ {"READ_READY"}, !.fifo = GARBAGE]

\* The next block is asked for, or the read returns.
LEMMA ReadBlockInv ==
    ASSUME DriverInv, NEW e, NEW index, Cleared(e), card' = card,
           \/ ReadBlock(e, index)
           \/ host' = [host EXCEPT !.pc = "idle"] /\ emmc' = e
    PROVE  DriverInv' /\ Apart
<1> USE DEF Cleared
<1>1. /\ DOMAIN e = DOMAIN emmc /\ e.silent = emmc.silent
      /\ e.done_on_timeout = emmc.done_on_timeout /\ e.data = emmc.data
      /\ e.resetting = emmc.resetting /\ e.bus = emmc.bus
      /\ "READ_READY" \notin e.flags /\ "CMD_DONE" \notin e.flags
    <2>1. CASE e = emmc /\ "READ_READY" \notin emmc.flags
        BY <2>1
    <2>2. CASE e = [emmc EXCEPT !.flags = @ \ {"READ_READY"}, !.fifo = GARBAGE]
        BY <2>2 DEF DriverInv, Shapes
    <2> QED BY <2>1, <2>2
<1>2. CASE host' = Sent(host, "CMD17") /\ emmc' = OnBus(e, "CMD17", index)
    <2>1. /\ SameShape /\ host'.pc = "wait" /\ host'.cmd = "CMD17" /\ host'.rca = host.rca
          /\ emmc'.bus = [cmd |-> "CMD17", arg |-> index] /\ emmc'.flags = e.flags
        BY <1>1, <1>2 DEF SameShape, DriverInv, Shapes, Sent, OnBus
    <2> QED BY <1>1, <2>1, WrittenInv
<1>3. CASE \E pc \in {"ram", "idle"} : host' = [host EXCEPT !.pc = pc] /\ emmc' = e
    <2>1. /\ SameShape /\ host'.pc \in {"ram", "idle"} /\ host'.rca = host.rca
        BY <1>1, <1>3 DEF SameShape, DriverInv, Shapes
    <2> QED BY <1>1, <1>3, <2>1, IdleInv
<1> QED BY <1>2, <1>3 DEF ReadBlock

\* Programs, and the reads of blocks.
LEMMA ProgramsInv ==
    ASSUME DriverInv, Programs \/ ReadReady \/ RamBlock
    PROVE  DriverInv' /\ Apart
<1>1. host.pc \in {"idle", "data", "ram"} =>
          ~ emmc.resetting /\ emmc.bus = IDLE_BUS /\ "CMD_DONE" \notin emmc.flags
    BY DEF DriverInv, BusInv, Quiet
<1>2. host.pc \in {"idle", "data", "ram"} => emmc.silent \/ Selected
    BY DEF DriverInv, SelectInv
<1>3. host.pc \in {"idle", "ram"} => Cleared(emmc)
    BY <1>2, <1>1 DEF DriverInv, BusInv, Quiet, Cleared
<1>4. CASE UNCHANGED <<host, emmc, card>> /\ host.pc = "idle"
    <2>1. Apart
        BY <1>4 DEF Apart
    <2>2. ~ emmc.resetting /\ UNCHANGED <<host, emmc, card>>
        BY <1>1, <1>4
    <2>3. DriverInv'
        BY <2>2, StopInv
    <2> QED BY <2>1, <2>3
<1>5. ASSUME NEW size \in ReadSizes, Read(size), ~ UNCHANGED host
      PROVE  DriverInv' /\ Apart
    <2>1. host.pc = "idle" /\ card' = card /\ ReadBlock(emmc, call'.block_index)
        BY <1>5 DEF Read
    <2> QED BY <1>3, <2>1, ReadBlockInv
<1>6. CASE ReadReady
    <2> DEFINE e == [emmc EXCEPT !.flags = @ \ {"READ_READY"}, !.fifo = GARBAGE]
    <2>1. /\ host.pc = "data" /\ card' = card /\ "READ_READY" \in emmc.flags
          /\ BlockRead(e, emmc.fifo)
        BY <1>6 DEF ReadReady
    <2>2. Cleared(e)
        BY <1>2, <1>1, <2>1 DEF DriverInv, BusInv, Cleared
    <2>3. PICK index : ReadBlock(e, index) \/ (host' = [host EXCEPT !.pc = "idle"] /\ emmc' = e)
        BY <2>1 DEF BlockRead, ReadReturns
    <2> HIDE DEF e
    <2> QED BY <2>1, <2>2, <2>3, ReadBlockInv
<1>7. CASE RamBlock
    <2>1. /\ host.pc = "ram" /\ card' = card
        BY <1>7 DEF RamBlock
    <2>2. PICK index : \/ ReadBlock(emmc, index)
                       \/ host' = [host EXCEPT !.pc = "idle"] /\ emmc' = emmc
        BY <1>7 DEF RamBlock, BlockRead, ReadReturns
    <2> QED BY <1>3, <2>1, <2>2, ReadBlockInv
<1>8. ASSUME NEW size \in ReadSizes, Read(size), UNCHANGED host
      PROVE  UNCHANGED <<host, emmc, card>> /\ host.pc = "idle"
    BY <1>8 DEF Read, ReadBlock, Sent, DriverInv, Shapes
<1>9. (\E dev \in {"sdcard", "ramdisk"} : Open(dev)) \/ Close \/ NotImplemented
      => UNCHANGED <<host, emmc, card>> /\ host.pc = "idle"
    BY DEF Open, Close, NotImplemented, Stop
<1> QED BY <1>4, <1>5, <1>6, <1>7, <1>8, <1>9 DEF Programs

\* Every step keeps the invariant and keeps the commands apart.
LEMMA StepInv ==
    ASSUME DriverInv, [Next]_vars
    PROVE  DriverInv' /\ Apart
<1>1. CASE Hardware \/ CommandLost
    <2>1. DriverInv'
        BY <1>1, HardwareInv
    <2>2. Apart
        BY <1>1 DEF Hardware, EmmcReset, CardAnswers, CommandTimesOut, CommandLost, TimedOut,
                    DataArrives, DataTimesOut, DriverInv, Shapes, Apart
    <2> QED BY <2>1, <2>2
<1>2. CASE Driver
    BY <1>2, StartInv, WaitInv, ProgramsInv DEF Driver
<1>3. CASE Programs
    BY <1>3, ProgramsInv
<1>4. CASE Reboot
    <2>1. /\ host' = OFF /\ emmc' = emmc /\ card' = card /\ ~ emmc.resetting
        BY <1>4 DEF Reboot, DriverInv, BusInv
    <2> QED BY <2>1 DEF OFF, DriverInv, Shapes, BusInv, SelectInv, Apart
<1>5. CASE UNCHANGED vars
    BY <1>5 DEF vars, DriverInv, Shapes, BusInv, SelectInv, Selected, Quiet, Running, Apart
<1>6. CASE PowersUp
    <2>1. /\ UNCHANGED <<host, emmc, panic>> /\ DOMAIN card' = DOMAIN card
          /\ card'.state = card.state /\ card'.rca = card.rca
        BY <1>6 DEF PowersUp, DriverInv, Shapes
    <2> QED BY <2>1 DEF DriverInv, Shapes, BusInv, SelectInv, Selected, Quiet, Running, Apart
<1> QED BY <1>1, <1>2, <1>3, <1>4, <1>5, <1>6 DEF Next

\* The strengthening behind the two theorems below: the controller is busy
\* with nothing but what the driver waits for, a flag in the INTERRUPT
\* register belongs to that command, and once CMD7 has been answered the card
\* is selected under the address that the driver remembers. It holds through
\* lost commands and answers, through the fatal errors and the reboot, which
\* leaves the controller as it is.
THEOREM DriverSafe == Spec => []DriverInv
<1>1. Init => DriverInv
    BY DEF Init, OFF, CardReset, DriverInv, Shapes, BusInv, SelectInv, Running
<1>2. DriverInv /\ [Next]_vars => DriverInv'
    BY StepInv
<1> QED BY <1>1, <1>2, PTL DEF Spec

\* When sdhost_init has returned, and as long as the driver reads blocks, the
\* card is selected under the address that the driver knows, or the controller
\* has reported a timed out command as done.
THEOREM CardSelected == Spec => []ReadyMeansSelected
<1>1. DriverInv => ReadyMeansSelected
    BY DEF DriverInv, Shapes, SelectInv, Selected, ReadyMeansSelected
<1> QED BY <1>1, DriverSafe, PTL

\* No command of _sdhost_send_command or _sdhost_send_data_command is written
\* while another one is under way, or with a flag of one left in the register.
THEOREM CommandsStayApart == Spec => CommandsApart
<1>1. DriverInv /\ [Next]_vars => [Apart]_vars
    BY StepInv
<1>2. Spec => [][Apart]_vars
    BY <1>1, DriverSafe, PTL DEF Spec
<1> QED BY <1>2 DEF CommandsApart, Apart

-----------------------------------------------------------------------------
(* What a read returns                                                     *)

Bytes == {"sdcard", "ramdisk", "garbage"} \X Nat
Blocks == [1 .. BLOCK_SIZE -> Bytes]

\* The driver reads a block of the card, or the kernel one of the ram disk.
ReadsCard == host.pc = "data" \/ (host.pc = "wait" /\ host.cmd = "CMD17")
ReadsRam == host.pc = "ram"

\* s holds the n bytes of the device from position at on.
Holds(s, dev, at, n) == s = [i \in 1 .. n |-> Byte(dev, at + i - 1)]

FileInv ==
    /\ file \in [dev : {"none", "sdcard", "ramdisk"}, pos : Nat]
    /\ file.dev = "none" => file.pos = 0
    /\ file.pos <= DeviceSize(file.dev)
    /\ emmc.fifo \in Blocks

\* Where a read is between two blocks: what it has is what was before the next
\* block, and the next byte is at block_offset of the block block_index.
CallInv ==
    /\ call \in [size : Nat \ {0}, block_index : Nat, block_offset : 0 .. BLOCK_SIZE - 1,
                 total : Seq(Bytes)]
    /\ call.block_index * BLOCK_SIZE + call.block_offset = file.pos + Len(call.total)
    /\ file.pos + Len(call.total) <= DeviceSize(file.dev)
    /\ "DCRC_ERR" \notin emmc.flags =>
          Holds(call.total, file.dev, file.pos, Len(call.total))

\* The controller reads the block of the call, if the card has it.
FetchInv ==
    /\ file.dev = "sdcard"
    /\ emmc.bus # IDLE_BUS => emmc.bus.arg = call.block_index
    /\ emmc.data # NO_DATA => emmc.data = call.block_index
    /\ "READ_READY" \in emmc.flags =>
          /\ call.block_index < CardBlocks
          /\ "DCRC_ERR" \notin emmc.flags => emmc.fifo = BlockOf("sdcard", call.block_index)

ReadInv ==
    /\ FileInv
    /\ host.pc = "idle" => ReadsDevice
    /\ ReadsRam => CallInv /\ file.dev = "ramdisk"
    /\ ReadsCard => CallInv /\ FetchInv
    /\ host.pc # "idle" /\ ~ ReadsRam /\ ~ ReadsCard => file = CLOSED /\ ret = NO_READ


\* Positions and blocks.
LEMMA Multiples ==
    ASSUME NEW a \in Nat, NEW b \in Nat, NEW c \in Nat
    PROVE  /\ a * c \in Nat /\ a * c = c * a
           /\ (a + 1) * c = a * c + c
           /\ a <= b => a * c <= b * c
<1>1. /\ a * c \in Nat /\ a * c = c * a
      /\ (a + 1) * c = a * c + c
    OBVIOUS
<1>2. ASSUME a <= b PROVE a * c <= b * c
    <2>1. PICK d \in Nat : b = a + d
        <3>1. b - a \in Nat /\ b = a + (b - a)
            BY <1>2
        <3> QED BY <3>1
    <2>2. b * c = a * c + d * c /\ d * c >= 0 /\ a * c \in Nat /\ d * c \in Nat
        BY <2>1
    <2> QED BY <2>2
<1> QED BY <1>1, <1>2

LEMMA DivMod ==
    ASSUME NEW p \in Nat, NEW b \in Nat \ {0}
    PROVE  \E q \in Nat, r \in 0 .. b - 1 :
               q = p \div b /\ r = p % b /\ q * b + r = p
<1>1. p \div b \in Nat /\ p % b \in 0 .. b - 1
    OBVIOUS
<1>2. PICK q \in Nat, r \in 0 .. b - 1 : q = p \div b /\ r = p % b
    BY <1>1
<1>3. p = b * q + r
    BY <1>2
<1>4. q * b = b * q
    OBVIOUS
<1> QED BY <1>2, <1>3, <1>4

LEMMA BlockTypes ==
    /\ GARBAGE \in Blocks
    /\ \A dev \in {"sdcard", "ramdisk"}, k \in Nat : BlockOf(dev, k) \in Blocks
<1>1. BLOCK_SIZE \in Nat
    BY SdHostAssumption
<1>2. GARBAGE \in Blocks
    BY <1>1 DEF GARBAGE, Byte, Blocks, Bytes
<1>3. ASSUME NEW dev \in {"sdcard", "ramdisk"}, NEW k \in Nat PROVE BlockOf(dev, k) \in Blocks
    <2>1. PICK p \in Nat : p = k * BLOCK_SIZE
        BY <1>1, Multiples
    <2>2. \A i \in 1 .. BLOCK_SIZE : p + i - 1 \in Nat
        BY <1>1, <2>1
    <2>3. BlockOf(dev, k) = [i \in 1 .. BLOCK_SIZE |-> <<dev, p + i - 1>>]
        BY <2>1 DEF BlockOf, Byte
    <2> QED BY <2>2, <2>3 DEF Blocks, Bytes
<1> QED BY <1>2, <1>3

\* Blocks of a device.
BlocksOf(dev) == IF dev = "sdcard" THEN CardBlocks ELSE RamBlocks

LEMMA BlocksOfType ==
    ASSUME NEW dev
    PROVE  /\ BlocksOf(dev) \in Nat /\ BLOCK_SIZE \in Nat \ {0}
           /\ DeviceSize(dev) = BlocksOf(dev) * BLOCK_SIZE /\ DeviceSize(dev) \in Nat
<1>1. BlocksOf(dev) \in Nat /\ BLOCK_SIZE \in Nat \ {0}
    BY SdHostAssumption DEF BlocksOf
<1>2. DeviceSize(dev) = BLOCK_SIZE * BlocksOf(dev)
    BY DEF DeviceSize, BlocksOf
<1> QED BY <1>1, <1>2, Multiples

\* u is t and behind it n bytes of the block from offset o on.
Extended(u, t, block, o, n, T) ==
    /\ u \in Seq(T) /\ Len(u) = Len(t) + n
    /\ \A j \in 1 .. Len(t) : u[j] = t[j]
    /\ \A j \in Len(t) + 1 .. Len(t) + n : u[j] = block[o + (j - Len(t))]

\* A part of a block is put behind the bytes that are there already.
LEMMA Appended ==
    ASSUME NEW T, NEW b \in Nat, NEW t \in Seq(T), NEW block \in [1 .. b -> T],
           NEW o \in 0 .. b - 1, NEW n \in 1 .. b - o
    PROVE  Extended(t \o SubSeq(block, o + 1, o + n), t, block, o, n, T)
<1>1. block \in Seq(T) /\ Len(block) = b
    OBVIOUS
<1>2. PICK s : s = SubSeq(block, o + 1, o + n)
    OBVIOUS
<1>3. /\ s \in Seq(T) /\ Len(s) = n
      /\ \A j \in 1 .. n : s[j] = block[o + j]
    <2>1. PICK f \in Nat, g \in Nat : f = o + 1 /\ g = o + n
        OBVIOUS
    <2>2. s = SubSeq(block, f, g)
        BY <1>2, <2>1
    <2>3. f \in 1 .. b /\ g \in f .. b /\ g - f + 1 = n
        BY <2>1
    <2>4. s \in Seq(T) /\ Len(s) = g - f + 1
        BY <1>1, <2>2, <2>3
    <2>5. ASSUME NEW j \in 1 .. n PROVE s[j] = block[o + j]
        <3>1. s[j] = block[f + j - 1]
            BY <1>1, <2>2, <2>3
        <3>2. f + j - 1 = o + j
            BY <2>1
        <3> QED BY <3>1, <3>2
    <2> QED BY <2>3, <2>4, <2>5
<1>4. /\ t \o s \in Seq(T) /\ Len(t \o s) = Len(t) + n
      /\ \A j \in 1 .. Len(t) : (t \o s)[j] = t[j]
    <2>1. s \in Seq(T) /\ Len(s) = n
        BY <1>3
    <2>2. t \o s \in Seq(T) /\ Len(t \o s) = Len(t) + Len(s)
        BY <2>1
    <2>3. \A j \in 1 .. Len(t) : (t \o s)[j] = t[j]
        BY <2>1
    <2> QED BY <2>1, <2>2, <2>3
<1>5. ASSUME NEW j \in Len(t) + 1 .. Len(t) + n PROVE (t \o s)[j] = block[o + (j - Len(t))]
    <2>1. Len(t) \in Nat
        OBVIOUS
    <2>2. (t \o s)[j] = s[j - Len(t)] /\ j - Len(t) \in 1 .. n
        BY <1>3, <2>1
    <2> QED BY <1>3, <2>2
<1>6. Extended(t \o s, t, block, o, n, T)
    BY <1>4, <1>5 DEF Extended
<1> QED BY <1>2, <1>6

\* The device's bytes from pos on, continued with a part of one of its blocks.
LEMMA Continued ==
    ASSUME NEW b \in Nat, NEW t \in Seq(Bytes), NEW block \in [1 .. b -> Bytes],
           NEW o \in 0 .. b - 1, NEW n \in 1 .. b - o, NEW m \in Nat, NEW pos \in Nat, NEW dev,
           m + o = pos + Len(t), Holds(t, dev, pos, Len(t)), Holds(block, dev, m, b)
    PROVE  Holds(t \o SubSeq(block, o + 1, o + n), dev, pos, Len(t) + n)
<1>1. PICK u : u = t \o SubSeq(block, o + 1, o + n)
    OBVIOUS
<1>2. PICK l \in Nat : l = Len(t)
    OBVIOUS
<1>3. /\ u \in Seq(Bytes) /\ Len(u) = l + n
      /\ \A j \in 1 .. l : u[j] = t[j]
      /\ \A j \in l + 1 .. l + n : u[j] = block[o + (j - l)]
    <2>1. Extended(u, t, block, o, n, Bytes)
        BY <1>1, Appended
    <2> QED BY <1>2, <2>1 DEF Extended
<1>4. \A j \in 1 .. b : block[j] = Byte(dev, m + j - 1)
    <2>1. PICK f : f = [j \in 1 .. b |-> Byte(dev, m + j - 1)]
        OBVIOUS
    <2> QED BY <2>1 DEF Holds
<1>5. \A j \in 1 .. l : t[j] = Byte(dev, pos + j - 1)
    BY <1>2 DEF Holds
<1>6. ASSUME NEW j \in 1 .. l + n PROVE u[j] = Byte(dev, pos + j - 1)
    <2>1. CASE j \in 1 .. l
        BY <1>3, <1>5, <2>1
    <2>2. CASE j \in l + 1 .. l + n
        <3>1. PICK i \in 1 .. b : i = o + (j - l)
            BY <2>2
        <3>2. u[j] = Byte(dev, m + i - 1)
            BY <1>3, <1>4, <2>2, <3>1
        <3>3. m + i - 1 = pos + j - 1
            BY <1>2, <3>1
        <3> QED BY <3>2, <3>3
    <2> QED BY <2>1, <2>2
<1>7. DOMAIN u = 1 .. l + n /\ u = [j \in DOMAIN u |-> u[j]]
    BY <1>3
<1>8. u = [j \in 1 .. l + n |-> Byte(dev, pos + j - 1)]
    BY <1>6, <1>7
<1> QED BY <1>1, <1>2, <1>8 DEF Holds

\* What FromBlock takes from a block of the device, and where the call is then.
LEMMA TakesBlock ==
    ASSUME FileInv, CallInv, NEW block \in Blocks, NEW c,
           c = FromBlock(call, block),
           call.block_index < BlocksOf(file.dev)
    PROVE  /\ c \in [size : Nat, block_index : Nat, block_offset : 0 .. BLOCK_SIZE - 1,
                     total : Seq(Bytes)]
           /\ c.size > 0 => c.block_index * BLOCK_SIZE + c.block_offset
                            = file.pos + Len(c.total)
           /\ file.pos + Len(c.total) <= DeviceSize(file.dev)
           /\ Len(c.total) > 0
           /\ \/ "DCRC_ERR" \in emmc.flags
              \/ block # BlockOf(file.dev, call.block_index)
              \/ Holds(c.total, file.dev, file.pos, Len(c.total))
<1>1. PICK k \in Nat, b \in Nat : k = BlocksOf(file.dev) /\ b = BLOCK_SIZE /\ b > 0
    BY BlocksOfType
<1>2. PICK bi \in Nat, o \in 0 .. b - 1, sz \in Nat, t \in Seq(Bytes), pos \in Nat :
        /\ bi = call.block_index /\ o = call.block_offset /\ sz = call.size /\ sz > 0
        /\ t = call.total /\ pos = file.pos
    BY <1>1 DEF CallInv, FileInv
<1>3. PICK m \in Nat : m = bi * b
    BY Multiples
<1>4. PICK l \in Nat : l = Len(t)
    OBVIOUS
<1>5. m + o = pos + l
    BY <1>1, <1>2, <1>3, <1>4 DEF CallInv
<1>6. PICK n \in 1 .. b - o : /\ n = MinOf(b - o, sz)
                             /\ n <= sz /\ (n = b - o \/ n = sz)
    <2>1. PICK a \in Nat : a = b - o /\ a > 0
        OBVIOUS
    <2>2. CASE a < sz
        <3>1. MinOf(b - o, sz) = a /\ a \in 1 .. b - o /\ a <= sz /\ a = b - o
            BY <2>1, <2>2 DEF MinOf
        <3> QED BY <3>1
    <2>3. CASE ~ (a < sz)
        <3>1. MinOf(b - o, sz) = sz /\ sz \in 1 .. b - o /\ sz <= sz
            BY <1>2, <2>1, <2>3 DEF MinOf
        <3> QED BY <3>1
    <2> QED BY <2>2, <2>3
<1>7. PICK u : u = t \o SubSeq(block, o + 1, o + n)
    OBVIOUS
<1>8. block \in [1 .. b -> Bytes]
    BY <1>1 DEF Blocks
<1>9. u \in Seq(Bytes) /\ Len(u) = l + n
    <2>1. Extended(u, t, block, o, n, Bytes)
        BY <1>7, <1>8, Appended
    <2> QED BY <1>4, <2>1 DEF Extended
<1>10. BLOCK_SIZE - call.block_offset = b - o
    BY <1>1, <1>2
<1>11. c = [size |-> sz - n, block_index |-> bi + 1, block_offset |-> 0, total |-> u]
    BY <1>10, <1>2, <1>6, <1>7 DEF FromBlock
<1>12. PICK d \in Nat : d = sz - n
    BY <1>6
<1>13. /\ c = [size |-> d, block_index |-> bi + 1, block_offset |-> 0, total |-> u]
       /\ c.size = d /\ c.block_index = bi + 1 /\ c.block_offset = 0 /\ c.total = u
    BY <1>11, <1>12
<1>14. c \in [size : Nat, block_index : Nat, block_offset : 0 .. b - 1, total : Seq(Bytes)]
    BY <1>1, <1>9, <1>13
<1>15. (bi + 1) * b = m + b
    BY <1>3, Multiples
<1>16. c.size > 0 => c.block_index * b + c.block_offset = pos + Len(c.total)
    <2>1. d > 0 => n = b - o
        BY <1>6, <1>12
    <2>2. n = b - o => m + b = pos + (l + n)
        BY <1>5
    <2> QED BY <1>9, <1>13, <1>15, <2>1, <2>2, SMTT(30)
<1>17. pos + Len(c.total) <= DeviceSize(file.dev)
    <2>1. bi + 1 \in Nat /\ bi + 1 <= k
        BY <1>1, <1>2
    <2>2. (bi + 1) * b <= k * b
        <3>1. PICK i \in Nat : i = bi + 1 /\ i <= k
            BY <2>1
        <3>2. i * b <= k * b
            BY <3>1, Multiples
        <3> QED BY <3>1, <3>2
    <2>3. PICK z \in Nat : z = k * b /\ DeviceSize(file.dev) = z
        BY <1>1, BlocksOfType
    <2>4. m + b <= z
        BY <1>15, <2>2, <2>3
    <2>5. pos + Len(u) <= m + b
        BY <1>5, <1>9
    <2> QED BY <1>9, <1>13, <2>3, <2>4, <2>5
<1>18. ASSUME "DCRC_ERR" \notin emmc.flags, block = BlockOf(file.dev, call.block_index)
       PROVE  Holds(c.total, file.dev, pos, Len(c.total))
    <2>1. Holds(block, file.dev, m, b)
        BY <1>1, <1>2, <1>3, <1>18 DEF BlockOf, Holds
    <2>2. Holds(t, file.dev, pos, Len(t))
        BY <1>2, <1>18 DEF CallInv
    <2>3. Holds(u, file.dev, pos, l + n)
        BY <1>4, <1>5, <1>7, <1>8, <2>1, <2>2, Continued
    <2> QED BY <1>9, <1>13, <2>3
<1>19. Len(c.total) > 0
    BY <1>9, <1>13
<1> QED BY <1>1, <1>2, <1>14, <1>16, <1>17, <1>18, <1>19

\* What a read that ended returned.
LEMMA ReturnedReads ==
    ASSUME NEW total \in Seq(Bytes), NEW size \in Nat, NEW pos \in Nat, NEW status, NEW dev,
           ret' = Returned(status, total, pos, Len(total) + size),
           file' = [dev |-> dev, pos |-> pos + Len(total)],
           pos + Len(total) <= DeviceSize(dev),
           size = 0 \/ pos + Len(total) = DeviceSize(dev),
           status = IF Len(total) = 0 /\ size > 0 THEN -1 ELSE Len(total),
           "DCRC_ERR" \notin emmc'.flags => Holds(total, dev, pos, Len(total))
    PROVE  ReadsDevice'
<1>1. PICK l \in Nat : l = Len(total)
    OBVIOUS
<1>2. PICK z \in Nat : z = DeviceSize(dev)
    BY BlocksOfType
<1>3. MinOf(l + size, z - pos) = l
    BY <1>1, <1>2 DEF MinOf
<1>4. /\ ret'.size = l + size /\ ret'.at = pos /\ ret'.data = total /\ ret'.status = status
      /\ file'.dev = dev /\ file'.pos = pos + l
    BY <1>1 DEF Returned
<1>5. MinOf(ret'.size, DeviceSize(file'.dev) - ret'.at) = l
    BY <1>2, <1>3, <1>4
<1>6. status = IF l = 0 /\ ret'.size > 0 THEN -1 ELSE l
    <2>1. l = 0 => (l + size > 0 <=> size > 0)
        OBVIOUS
    <2> QED BY <1>1, <1>4, <2>1
<1>7. "DCRC_ERR" \notin emmc'.flags =>
          ret'.data = [i \in 1 .. l |-> Byte(file'.dev, ret'.at + i - 1)]
    BY <1>1, <1>4 DEF Holds
<1> QED BY <1>4, <1>5, <1>6, <1>7 DEF ReadsDevice, DeviceSize

\* No file is open, or it has just been opened.
LEMMA NothingRead ==
    ASSUME NEW dev \in {"none", "sdcard", "ramdisk"}, NEW pos \in Nat,
           file' = [dev |-> dev, pos |-> pos], ret' = Returned(0, <<>>, pos, 0),
           pos <= DeviceSize(dev)
    PROVE  ReadsDevice'
<1>1. <<>> \in Seq(Bytes) /\ Len(<<>>) = 0
    OBVIOUS
<1>2. pos + 0 = pos /\ 0 + 0 = 0
    OBVIOUS
<1>3. Holds(<<>>, dev, pos, 0)
    BY DEF Holds
<1>4. PICK t \in Seq(Bytes) : t = <<>> /\ Len(t) = 0
    BY <1>1
<1>5. /\ ret' = Returned(0, t, pos, Len(t) + 0)
      /\ file' = [dev |-> dev, pos |-> pos + Len(t)]
      /\ pos + Len(t) <= DeviceSize(dev)
      /\ 0 = IF Len(t) = 0 /\ 0 > 0 THEN -1 ELSE Len(t)
      /\ Holds(t, dev, pos, Len(t))
    BY <1>2, <1>3, <1>4
<1> QED BY <1>5, ReturnedReads

\* Nothing the read depends on is lost.
LEMMA SameRead ==
    ASSUME ReadInv, UNCHANGED <<file, call, ret>>, emmc'.fifo \in Blocks,
           host'.pc = host.pc, host'.cmd = host.cmd,
           host.pc = "idle" \/ ReadsRam \/ ReadsCard =>
               ("DCRC_ERR" \in emmc.flags => "DCRC_ERR" \in emmc'.flags),
           ReadsCard => FetchInv'
    PROVE  ReadInv'
<1>1. /\ ReadsCard' <=> ReadsCard
      /\ ReadsRam' <=> ReadsRam
    BY DEF ReadsCard, ReadsRam
<1>2. FileInv'
    BY DEF ReadInv, FileInv, DeviceSize
<1>3. ReadsRam \/ ReadsCard => CallInv'
    BY DEF ReadInv, CallInv, DeviceSize, Holds, Byte
<1>4. host.pc = "idle" => ReadsDevice'
    BY DEF ReadInv, ReadsDevice, DeviceSize, Byte
<1> QED BY <1>1, <1>2, <1>3, <1>4 DEF ReadInv, CLOSED, NO_READ, Returned

\* The controller and the card work for the call that is going on.
LEMMA HardwareReads ==
    ASSUME DriverInv, ReadInv, Hardware \/ CommandLost
    PROVE  ReadInv'
<1>1. UNCHANGED <<host, file, call, ret>>
    BY DEF Hardware, EmmcReset, CardAnswers, CommandTimesOut, CommandLost, DataArrives,
           DataTimesOut
<1>2. ReadsCard' <=> ReadsCard
    BY <1>1 DEF ReadsCard
<1>3. host.pc \in {"idle", "ram"} => Quiet
    BY DEF DriverInv, BusInv
<1>4. CASE EmmcReset
    <2>1. host.pc = "reset" /\ emmc'.fifo = GARBAGE
        BY <1>4 DEF EmmcReset, DriverInv, Shapes, BusInv
    <2> QED BY <1>1, <2>1, BlockTypes, SameRead DEF ReadsCard, ReadsRam
<1>5. CASE CardAnswers \/ CommandTimesOut \/ CommandLost
    <2>1. /\ emmc'.fifo = emmc.fifo /\ emmc'.bus = IDLE_BUS
          /\ "DCRC_ERR" \in emmc'.flags <=> "DCRC_ERR" \in emmc.flags
          /\ "READ_READY" \in emmc'.flags <=> "READ_READY" \in emmc.flags
          /\ \/ emmc'.data = emmc.data
             \/ emmc'.data = emmc.bus.arg
          /\ emmc.bus # IDLE_BUS
        <3>1. CASE CardAnswers
            BY <3>1 DEF CardAnswers, DriverInv, Shapes
        <3>2. CASE CommandTimesOut \/ CommandLost
            <4>1. emmc' = TimedOut /\ emmc.bus # IDLE_BUS
                BY <3>2 DEF CommandTimesOut, CommandLost
            <4> QED BY <4>1 DEF TimedOut, DriverInv, Shapes
        <3> QED BY <1>5, <3>1, <3>2
    <2>2. ReadsCard => FetchInv'
        BY <1>1, <2>1 DEF ReadInv, FetchInv
    <2>3. emmc'.fifo \in Blocks
        BY <2>1 DEF ReadInv, FileInv
    <2> QED BY <1>1, <2>1, <2>2, <2>3, SameRead
<1>6. CASE DataArrives
    <2>1. PICK k \in Nat : k = emmc.data /\ k < CardBlocks
        BY <1>6, SdHostAssumption DEF DataArrives
    <2>2. PICK F \in SUBSET {"READ_READY", "DCRC_ERR"}, g \in {BlockOf("sdcard", k), GARBAGE} :
             /\ emmc' = [emmc EXCEPT !.flags = @ \cup F, !.data = NO_DATA, !.fifo = g]
             /\ \/ g = BlockOf("sdcard", k)
                \/ g = GARBAGE /\ "DCRC_ERR" \in F
        BY <1>6, <2>1, ZenonT(30) DEF DataArrives
    <2>3. /\ emmc'.bus = emmc.bus /\ emmc'.data = NO_DATA
          /\ "DCRC_ERR" \in emmc.flags => "DCRC_ERR" \in emmc'.flags
          /\ \/ emmc'.fifo = BlockOf("sdcard", k)
             \/ emmc'.fifo = GARBAGE /\ "DCRC_ERR" \in emmc'.flags
        BY <2>1, <2>2 DEF DriverInv, Shapes
    <2>4. emmc'.fifo \in Blocks
        BY <2>3, BlockTypes
    <2>5. k # NO_DATA
        BY DEF NO_DATA
    <2>6. ReadsCard => FetchInv'
        BY <1>1, <2>1, <2>3, <2>5 DEF ReadInv, FetchInv, BlockOf, Byte
    <2> QED BY <1>1, <2>3, <2>4, <2>6, SameRead
<1>7. CASE DataTimesOut
    <2>1. /\ emmc'.fifo = emmc.fifo /\ emmc'.bus = emmc.bus /\ emmc'.data = NO_DATA
          /\ "DCRC_ERR" \in emmc'.flags <=> "DCRC_ERR" \in emmc.flags
          /\ "READ_READY" \in emmc'.flags <=> "READ_READY" \in emmc.flags
        BY <1>7 DEF DataTimesOut, DriverInv, Shapes
    <2>2. ReadsCard => FetchInv'
        BY <1>1, <2>1 DEF ReadInv, FetchInv
    <2>3. emmc'.fifo \in Blocks
        BY <2>1 DEF ReadInv, FileInv
    <2> QED BY <1>1, <2>1, <2>2, <2>3, SameRead
<1> QED BY <1>4, <1>5, <1>6, <1>7 DEF Hardware

\* A fatal error.
LEMMA StoppedReads ==
    ASSUME ReadInv, UNCHANGED <<host, emmc, file, call, ret>>
    PROVE  ReadInv'
<1>1. ReadsCard => FetchInv'
    BY DEF ReadInv, FetchInv
<1>2. emmc'.fifo \in Blocks
    BY DEF ReadInv, FileInv
<1> QED BY <1>1, <1>2, SameRead

\* No file is open: sdhost_init goes on, or ends.
LEMMA ClosedReads ==
    ASSUME file' = CLOSED, ret' = NO_READ, emmc'.fifo \in Blocks, ~ ReadsRam', ~ ReadsCard'
    PROVE  ReadInv'
<1>1. PICK z \in Nat : z = DeviceSize("none") /\ 0 <= z
    BY BlocksOfType
<1>2. ReadsDevice'
    BY <1>1, NothingRead DEF CLOSED, NO_READ
<1>3. FileInv'
    BY <1>1 DEF FileInv, CLOSED, DeviceSize
<1> QED BY <1>2, <1>3 DEF ReadInv, CLOSED, NO_READ, Returned

\* The steps of sdhost_init and the waits for a command.
LEMMA WaitReads ==
    ASSUME DriverInv, ReadInv, StartInit \/ ResetDone \/ CommandDone \/ PollAgain \/ ReadTimeout
    PROVE  ReadInv'
<1>1. CASE UNCHANGED <<host, emmc, file, call, ret>>
    BY <1>1, StoppedReads
<1>2. CASE CommandDone /\ host.cmd = "CMD17"
    <2>1. /\ host.pc = "wait" /\ "CMD_DONE" \in emmc.flags
          /\ host' = [host EXCEPT !.pc = "data"]
          /\ emmc' = [emmc EXCEPT !.flags = Acknowledge(@)] /\ UNCHANGED <<file, call, ret>>
        BY <1>2 DEF CommandDone
    <2>2. /\ host'.pc = "data" /\ emmc'.bus = emmc.bus /\ emmc'.data = emmc.data
          /\ emmc'.fifo = emmc.fifo /\ emmc'.flags = emmc.flags \ {"CMD_DONE"}
        BY <2>1 DEF DriverInv, Shapes, Acknowledge
    <2>3. ReadsCard /\ ReadsCard' /\ ~ ReadsRam'
        BY <1>2, <2>1, <2>2 DEF ReadsCard, ReadsRam
    <2>4. CallInv' /\ FileInv'
        BY <2>1, <2>2, <2>3 DEF ReadInv, CallInv, FileInv, DeviceSize, Holds, Byte
    <2>5. FetchInv'
        BY <2>1, <2>2, <2>3 DEF ReadInv, FetchInv
    <2> QED BY <2>2, <2>3, <2>4, <2>5 DEF ReadInv
<1>3. CASE PollAgain /\ ~ UNCHANGED host
    <2> DEFINE counter == MinOf(host.counter + 1, PollLimit + PollPeriod)
    <2>1. host' = [host EXCEPT !.counter = counter] /\ UNCHANGED <<emmc, file, call, ret>>
        BY <1>3 DEF PollAgain, Stop
    <2>2. host'.pc = host.pc /\ host'.cmd = host.cmd
        BY <2>1 DEF DriverInv, Shapes
    <2>3. ReadsCard => FetchInv'
        BY <2>1 DEF ReadInv, FetchInv
    <2>4. emmc'.fifo \in Blocks
        BY <2>1 DEF ReadInv, FileInv
    <2> QED BY <2>1, <2>2, <2>3, <2>4, SameRead
<1>4. CASE StartInit \/ ResetDone \/ (CommandDone /\ host.cmd # "CMD17" /\ ~ UNCHANGED <<host, emmc>>)
    <2>1. host.pc # "idle" /\ ~ ReadsRam /\ ~ ReadsCard
        BY <1>4 DEF StartInit, ResetDone, CommandDone, ReadsRam, ReadsCard, DriverInv, Shapes
    <2>2. /\ UNCHANGED <<file, call, ret>> /\ emmc'.fifo = emmc.fifo
          /\ host'.pc # "ram" /\ host'.pc # "data"
          /\ host'.pc = "wait" => host'.cmd # "CMD17"
        <3>1. CASE StartInit
            BY <3>1 DEF StartInit, DriverInv, Shapes
        <3>2. CASE ResetDone
            BY <3>2 DEF ResetDone, DriverInv, Shapes, Sent, OnBus
        <3>3. CASE CommandDone /\ host.cmd # "CMD17" /\ ~ UNCHANGED <<host, emmc>>
            <4> DEFINE flags == Acknowledge(emmc.flags)
                       rca == IF host.cmd = "CMD3" THEN emmc.resp.upper ELSE host.rca
                       next == NextCommand(host.cmd)
            <4>1. InitContinues(flags) /\ host.cmd \in InitCommands
                BY <3>3 DEF CommandDone, DriverInv, Shapes
            <4>2. host.cmd # "CMD13" => next # "CMD17"
                BY <4>1 DEF NextCommand, InitCommands
            <4>3. PICK n, a, r, f : n = next /\ a = ArgumentOf(next, rca) /\ r = rca /\ f = flags
                OBVIOUS
            <4>4. /\ UNCHANGED <<file, call, ret>>
                  /\ \/ /\ host' = [host EXCEPT !.pc = "idle"]
                        /\ emmc' = [emmc EXCEPT !.flags = f]
                     \/ /\ host' = Sent([host EXCEPT !.rca = r], n) /\ n # "CMD17"
                        /\ emmc' = OnBus([emmc EXCEPT !.flags = f], n, a)
                BY <3>3, <4>1, <4>2, <4>3 DEF InitContinues, Stop
            <4> HIDE DEF flags, rca, next
            <4> QED BY <4>4 DEF Sent, OnBus, DriverInv, Shapes
        <3> QED BY <1>4, <3>1, <3>2, <3>3
    <2>3. file' = CLOSED /\ ret' = NO_READ /\ emmc'.fifo \in Blocks
        BY <2>1, <2>2 DEF ReadInv, FileInv
    <2>4. ~ ReadsRam' /\ ~ ReadsCard'
        BY <2>2 DEF ReadsRam, ReadsCard
    <2> QED BY <2>3, <2>4, ClosedReads
<1>5. ReadTimeout => UNCHANGED <<host, emmc, file, call, ret>>
    BY DEF ReadTimeout, Stop, vars
<1>6. PollAgain /\ UNCHANGED host => UNCHANGED <<host, emmc, file, call, ret>>
    BY DEF PollAgain, Stop
<1>7. CommandDone /\ host.cmd # "CMD17" /\ UNCHANGED <<host, emmc>>
      => UNCHANGED <<host, emmc, file, call, ret>>
    BY DEF CommandDone, InitContinues, Stop
<1> QED BY <1>1, <1>2, <1>3, <1>4, <1>5, <1>6, <1>7

\* The controller's record that a step of a read leaves.
LEMMA ClearedShape ==
    ASSUME DriverInv, FileInv, NEW e, Cleared(e)
    PROVE  /\ e.fifo \in Blocks /\ e.bus = IDLE_BUS /\ e.data = NO_DATA
           /\ DOMAIN e = DOMAIN emmc /\ "READ_READY" \notin e.flags
           /\ "DCRC_ERR" \in e.flags <=> "DCRC_ERR" \in emmc.flags
<1>1. CASE e = emmc /\ "READ_READY" \notin emmc.flags
    BY <1>1 DEF Cleared, FileInv
<1>2. CASE e = [emmc EXCEPT !.flags = @ \ {"READ_READY"}, !.fifo = GARBAGE]
    BY <1>2, BlockTypes DEF Cleared, DriverInv, Shapes
<1> QED BY <1>1, <1>2 DEF Cleared

\* The next block is asked for.
LEMMA AskedReads ==
    ASSUME DriverInv, FileInv, NEW e, Cleared(e), ReadBlock(e, call'.block_index),
           file.dev # "none", file' = file, CallInv'
    PROVE  ReadInv'
<1>1. FileInv'
    <2>1. emmc'.fifo = e.fifo
        BY ClearedShape DEF ReadBlock, OnBus, DriverInv, Shapes
    <2>2. emmc'.fifo \in Blocks
        BY <2>1, ClearedShape
    <2> QED BY <2>2 DEF FileInv, DeviceSize
<1>2. CASE file.dev = "sdcard"
    <2>1. host' = Sent(host, "CMD17") /\ emmc' = OnBus(e, "CMD17", call'.block_index)
        BY <1>2 DEF ReadBlock
    <2>2. host'.pc = "wait" /\ host'.cmd = "CMD17"
        BY <2>1 DEF Sent, DriverInv, Shapes
    <2>3. /\ emmc'.bus = [cmd |-> "CMD17", arg |-> call'.block_index]
          /\ emmc'.data = e.data /\ emmc'.flags = e.flags
        BY <2>1, ClearedShape DEF OnBus, DriverInv, Shapes
    <2>4. FetchInv'
        BY <1>2, <2>3, ClearedShape DEF FetchInv
    <2> QED BY <1>1, <2>2, <2>4 DEF ReadInv, ReadsCard, ReadsRam
<1>3. CASE file.dev # "sdcard"
    <2>1. host'.pc = "ram"
        BY <1>3 DEF ReadBlock, DriverInv, Shapes
    <2>2. file'.dev = "ramdisk"
        BY <1>3 DEF FileInv
    <2> QED BY <1>1, <2>1, <2>2 DEF ReadInv, ReadsCard, ReadsRam
<1> QED BY <1>2, <1>3

\* The read returns.
LEMMA ReturnReads ==
    ASSUME DriverInv, FileInv, NEW e, Cleared(e), NEW status, file.dev # "none",
           NEW total \in Seq(Bytes), NEW size \in Nat,
           host' = [host EXCEPT !.pc = "idle"], emmc' = e,
           file' = [file EXCEPT !.pos = @ + Len(total)],
           ret' = Returned(status, total, file.pos, Len(total) + size),
           file.pos + Len(total) <= DeviceSize(file.dev),
           size = 0 \/ file.pos + Len(total) = DeviceSize(file.dev),
           status = IF Len(total) = 0 /\ size > 0 THEN -1 ELSE Len(total),
           \/ "DCRC_ERR" \in emmc.flags
           \/ Holds(total, file.dev, file.pos, Len(total))
    PROVE  ReadInv'
<1>1. PICK pos \in Nat, dev \in {"sdcard", "ramdisk"} :
          /\ pos = file.pos /\ dev = file.dev /\ file = [dev |-> dev, pos |-> pos]
    BY DEF FileInv
<1>2. PICK l \in Nat : l = Len(total)
    OBVIOUS
<1>3. file' = [dev |-> dev, pos |-> pos + l]
    BY <1>1, <1>2
<1>4. ReadsDevice'
    <2>1. "DCRC_ERR" \notin emmc'.flags => Holds(total, dev, pos, Len(total))
        BY <1>1, ClearedShape
    <2> QED BY <1>1, <1>2, <1>3, <2>1, ReturnedReads
<1>5. emmc'.fifo \in Blocks
    BY ClearedShape
<1>6. FileInv'
    <2>1. file' \in [dev : {"none", "sdcard", "ramdisk"}, pos : Nat]
        <3>1. PICK p \in Nat : p = pos + l
            OBVIOUS
        <3>2. [dev |-> dev, pos |-> p] \in [dev : {"none", "sdcard", "ramdisk"}, pos : Nat]
            OBVIOUS
        <3> QED BY <1>3, <3>1, <3>2
    <2>2. file'.dev = dev /\ file'.pos = pos + l
        BY <1>3
    <2>3. pos + l <= DeviceSize(dev)
        BY <1>1, <1>2
    <2> QED BY <1>5, <2>1, <2>2, <2>3 DEF FileInv, DeviceSize
<1>7. host'.pc = "idle"
    BY DEF DriverInv, Shapes
<1> QED BY <1>4, <1>6, <1>7 DEF ReadInv, ReadsRam, ReadsCard

\* A block of the device has been read.
LEMMA BlockReads ==
    ASSUME DriverInv, FileInv, CallInv, NEW e, Cleared(e), NEW block \in Blocks,
           BlockRead(e, block), file.dev # "none", call.block_index < BlocksOf(file.dev),
           \/ "DCRC_ERR" \in emmc.flags
           \/ block = BlockOf(file.dev, call.block_index)
    PROVE  ReadInv'
<1>1. PICK c : c = FromBlock(call, block)
    OBVIOUS
<1>2. /\ c \in [size : Nat, block_index : Nat, block_offset : 0 .. BLOCK_SIZE - 1,
                total : Seq(Bytes)]
      /\ c.size > 0 => c.block_index * BLOCK_SIZE + c.block_offset = file.pos + Len(c.total)
      /\ file.pos + Len(c.total) <= DeviceSize(file.dev)
      /\ Len(c.total) > 0
      /\ \/ "DCRC_ERR" \in emmc.flags
         \/ Holds(c.total, file.dev, file.pos, Len(c.total))
    BY <1>1, TakesBlock
<1>3. CASE c.size = 0
    <2>1. ReadReturns(e, c, Len(c.total))
        BY <1>1, <1>3 DEF BlockRead
    <2>2. PICK t \in Seq(Bytes) : t = c.total /\ Len(t) > 0
        BY <1>2
    <2>3. /\ host' = [host EXCEPT !.pc = "idle"] /\ emmc' = e
          /\ file' = [file EXCEPT !.pos = @ + Len(t)]
          /\ ret' = Returned(Len(t), t, file.pos, Len(t) + 0)
        BY <1>3, <2>1, <2>2 DEF ReadReturns
    <2>4. Len(t) = IF Len(t) = 0 /\ 0 > 0 THEN -1 ELSE Len(t)
        BY <2>2
    <2>5. /\ file.pos + Len(t) <= DeviceSize(file.dev)
          /\ \/ "DCRC_ERR" \in emmc.flags
             \/ Holds(t, file.dev, file.pos, Len(t))
        BY <1>2, <2>2
    <2> QED BY <2>3, <2>4, <2>5, ReturnReads
<1>4. CASE c.size # 0
    <2>1. call' = c /\ ReadBlock(e, c.block_index) /\ UNCHANGED <<file, ret>>
        BY <1>1, <1>4 DEF BlockRead
    <2>2. emmc'.flags = e.flags
        BY <2>1, ClearedShape DEF ReadBlock, OnBus, DriverInv, Shapes
    <2>3. "DCRC_ERR" \in emmc'.flags <=> "DCRC_ERR" \in emmc.flags
        BY <2>2, ClearedShape
    <2>4. c \in [size : Nat \ {0}, block_index : Nat, block_offset : 0 .. BLOCK_SIZE - 1,
                 total : Seq(Bytes)] /\ c.size > 0
        BY <1>2, <1>4
    <2>5. CallInv'
        BY <1>2, <2>1, <2>3, <2>4 DEF CallInv, DeviceSize, Holds, Byte
    <2> QED BY <2>1, <2>5, AskedReads
<1> QED BY <1>3, <1>4

\* sdhost_read_block returns, or the ram disk has copied a block.
LEMMA TurnReads ==
    ASSUME DriverInv, ReadInv, ReadReady \/ RamBlock
    PROVE  ReadInv'
<1>1. FileInv
    BY DEF ReadInv
<1>2. CASE ReadReady
    <2>1. PICK e : e = [emmc EXCEPT !.flags = @ \ {"READ_READY"}, !.fifo = GARBAGE]
        OBVIOUS
    <2>2. /\ host.pc = "data" /\ "READ_READY" \in emmc.flags /\ BlockRead(e, emmc.fifo)
        BY <1>2, <2>1 DEF ReadReady
    <2>3. Cleared(e)
        BY <2>1, <2>2 DEF DriverInv, BusInv, SelectInv, Cleared
    <2>4. CallInv /\ FetchInv
        BY <2>2 DEF ReadInv, ReadsCard
    <2>5. /\ emmc.fifo \in Blocks /\ file.dev = "sdcard"
          /\ call.block_index < BlocksOf(file.dev)
          /\ \/ "DCRC_ERR" \in emmc.flags
             \/ emmc.fifo = BlockOf(file.dev, call.block_index)
        BY <1>1, <2>2, <2>4 DEF FileInv, FetchInv, BlocksOf
    <2> QED BY <1>1, <2>2, <2>3, <2>4, <2>5, BlockReads
<1>3. CASE RamBlock
    <2>1. host.pc = "ram" /\ Cleared(emmc)
        BY <1>3 DEF RamBlock, DriverInv, BusInv, SelectInv, Cleared, Quiet
    <2>2. CallInv /\ file.dev = "ramdisk"
        BY <2>1 DEF ReadInv, ReadsRam
    <2>3. BlocksOf(file.dev) = RamBlocks /\ RamBlocks \in Nat
        BY <2>2, BlocksOfType DEF BlocksOf
    <2>4. call.block_index \in Nat /\ call.size \in Nat \ {0} /\ call.total \in Seq(Bytes)
        BY <2>2 DEF CallInv
    <2>5. CASE call.block_index < RamBlocks
        <3>1. BlockRead(emmc, BlockOf("ramdisk", call.block_index))
            BY <1>3, <2>5 DEF RamBlock
        <3>2. BlockOf("ramdisk", call.block_index) \in Blocks
            BY <2>4, BlockTypes
        <3> QED BY <1>1, <2>1, <2>2, <2>3, <2>5, <3>1, <3>2, BlockReads
    <2>6. CASE ~ (call.block_index < RamBlocks)
        <3>1. ReadReturns(emmc, call, IF call.total = <<>> THEN -1 ELSE Len(call.total))
            BY <1>3, <2>6 DEF RamBlock
        <3>2. PICK t \in Seq(Bytes), size \in Nat : t = call.total /\ size = call.size /\ size > 0
            BY <2>4
        <3>3. PICK status : status = IF Len(t) = 0 /\ size > 0 THEN -1 ELSE Len(t)
            OBVIOUS
        <3>4. t = <<>> <=> Len(t) = 0
            OBVIOUS
        <3>5. /\ host' = [host EXCEPT !.pc = "idle"] /\ emmc' = emmc
              /\ file' = [file EXCEPT !.pos = @ + Len(t)]
              /\ ret' = Returned(status, t, file.pos, Len(t) + size)
            BY <3>1, <3>2, <3>3, <3>4 DEF ReadReturns
        <3>6. file.pos + Len(t) = DeviceSize(file.dev)
            <4>1. PICK bi \in Nat, k \in Nat, b \in Nat, o \in Nat, l \in Nat, p \in Nat :
                      /\ bi = call.block_index /\ k = RamBlocks /\ b = BLOCK_SIZE
                      /\ o = call.block_offset /\ l = Len(t) /\ p = file.pos /\ k <= bi
                <5>1. BLOCK_SIZE \in Nat /\ call.block_offset \in Nat
                    BY <2>2, BlocksOfType DEF CallInv
                <5>2. Len(t) \in Nat /\ file.pos \in Nat
                    BY <1>1 DEF FileInv
                <5>3. RamBlocks <= call.block_index
                    BY <2>3, <2>4, <2>6
                <5> QED BY <2>3, <2>4, <5>1, <5>2, <5>3
            <4>2. k * b <= bi * b /\ k * b \in Nat /\ bi * b \in Nat
                BY <4>1, Multiples
            <4>3. bi * b + o = p + l /\ p + l <= k * b
                BY <2>2, <2>3, <3>2, <4>1, BlocksOfType DEF CallInv
            <4>4. p + l = k * b
                BY <4>2, <4>3
            <4> QED BY <2>3, <4>1, <4>4, BlocksOfType
        <3>7. file.pos + Len(t) <= DeviceSize(file.dev)
            BY <2>2, <3>2 DEF CallInv
        <3>8. \/ "DCRC_ERR" \in emmc.flags
              \/ Holds(t, file.dev, file.pos, Len(t))
            BY <2>2, <3>2 DEF CallInv
        <3> QED BY <1>1, <2>1, <2>2, <3>3, <3>5, <3>6, <3>7, <3>8, ReturnReads
    <2> QED BY <2>5, <2>6
<1> QED BY <1>2, <1>3

\* Programs open, close and start to read.
LEMMA ProgramsRead ==
    ASSUME DriverInv, ReadInv, Programs
    PROVE  ReadInv'
<1>1. FileInv /\ host.pc = "idle"
    BY DEF ReadInv, Programs, Open, Close, NotImplemented, Read
<1>2. Cleared(emmc)
    BY <1>1 DEF DriverInv, BusInv, SelectInv, Cleared, Quiet
<1>3. CASE \E dev \in {"sdcard", "ramdisk"} : Open(dev)
    <2>1. PICK dev \in {"sdcard", "ramdisk"} : Open(dev)
        BY <1>3
    <2>2. file' = [dev |-> dev, pos |-> 0] /\ ret' = NO_READ /\ UNCHANGED <<host, emmc>>
        BY <2>1 DEF Open
    <2>3. PICK z \in Nat : z = DeviceSize(dev) /\ 0 <= z
        BY BlocksOfType
    <2>4. ReadsDevice'
        BY <2>2, <2>3, NothingRead DEF NO_READ
    <2>5. FileInv'
        BY <1>1, <2>2, <2>3 DEF FileInv, DeviceSize
    <2> QED BY <1>1, <2>2, <2>4, <2>5 DEF ReadInv, ReadsRam, ReadsCard
<1>4. CASE Close
    <2>1. file' = CLOSED /\ ret' = NO_READ /\ UNCHANGED <<host, emmc>>
        BY <1>4 DEF Close
    <2>2. emmc'.fifo \in Blocks /\ ~ ReadsRam' /\ ~ ReadsCard'
        BY <1>1, <2>1 DEF FileInv, ReadsRam, ReadsCard
    <2> QED BY <2>1, <2>2, ClosedReads
<1>5. CASE NotImplemented
    BY <1>5, StoppedReads DEF NotImplemented, Stop
<1>6. ASSUME NEW size \in ReadSizes, Read(size) PROVE ReadInv'
    <2>1. PICK pos \in Nat, dev \in {"sdcard", "ramdisk"} :
              /\ pos = file.pos /\ dev = file.dev /\ file = [dev |-> dev, pos |-> pos]
              /\ pos <= DeviceSize(dev)
        BY <1>1, <1>6 DEF Read, FileInv, CLOSED
    <2>2. size \in Nat
        BY SdHostAssumption
    <2>3. CASE size = 0
        <3>1. ret' = Returned(0, <<>>, pos, 0) /\ UNCHANGED <<host, emmc, call, file>>
            BY <1>6, <2>1, <2>3 DEF Read
        <3>2. file' = [dev |-> dev, pos |-> pos]
            BY <2>1, <3>1
        <3>3. ReadsDevice'
            BY <2>1, <3>1, <3>2, NothingRead
        <3>4. FileInv'
            BY <1>1, <3>1 DEF FileInv, DeviceSize
        <3> QED BY <1>1, <3>1, <3>3, <3>4 DEF ReadInv, ReadsRam, ReadsCard
    <2>4. CASE size # 0
        <3>1. PICK b \in Nat \ {0} : b = BLOCK_SIZE
            BY BlocksOfType
        <3>2. PICK q \in Nat, r \in 0 .. b - 1 :
                  q = pos \div b /\ r = pos % b /\ q * b + r = pos
            BY DivMod
        <3>3. /\ call' = [size |-> size, block_index |-> q, block_offset |-> r, total |-> <<>>]
              /\ ReadBlock(emmc, call'.block_index) /\ file' = file
            BY <1>6, <2>1, <2>4, <3>1, <3>2 DEF Read
        <3>4. Len(<<>>) = 0 /\ <<>> \in Seq(Bytes) /\ Holds(<<>>, dev, pos, 0)
            BY DEF Holds
        <3>5. /\ call' \in [size : Nat \ {0}, block_index : Nat, block_offset : 0 .. b - 1,
                            total : Seq(Bytes)]
              /\ call'.block_index = q /\ call'.block_offset = r /\ call'.total = <<>>
            BY <2>2, <2>4, <3>3, <3>4
        <3>6. q * b + r = pos + Len(<<>>) /\ pos + Len(<<>>) <= DeviceSize(dev)
            <4>1. q * b + r = pos + 0 /\ pos + 0 <= DeviceSize(dev)
                <5>1. pos + 0 = pos
                    OBVIOUS
                <5> QED BY <2>1, <3>2, <5>1
            <4> QED BY <3>4, <4>1
        <3>7. CallInv'
            <4>1. /\ file'.pos = pos /\ file'.dev = dev
                  /\ pos + Len(<<>>) <= DeviceSize(dev)
                BY <2>1, <3>3, <3>6
            <4>2. call' \in [size : Nat \ {0}, block_index : Nat,
                             block_offset : 0 .. BLOCK_SIZE - 1, total : Seq(Bytes)]
                BY <3>1, <3>5
            <4>3. call'.block_index * BLOCK_SIZE + call'.block_offset
                  = file'.pos + Len(call'.total)
                BY <3>1, <3>5, <3>6, <4>1
            <4>4. file'.pos + Len(call'.total) <= DeviceSize(file'.dev)
                BY <3>5, <4>1
            <4>5. Holds(call'.total, file'.dev, file'.pos, Len(call'.total))
                BY <3>4, <3>5, <4>1
            <4> QED BY <4>2, <4>3, <4>4, <4>5 DEF CallInv, DeviceSize, Holds, Byte
        <3> QED BY <1>1, <1>2, <2>1, <3>3, <3>7, AskedReads
    <2> QED BY <2>3, <2>4
<1> QED BY <1>3, <1>4, <1>5, <1>6 DEF Programs

\* The strengthening behind the next theorem: between two blocks, what
\* _block_device_read has is what lies before the block it asks for next, and
\* the controller works on that block and on no other.
THEOREM ReadsSafe == Spec => []ReadInv
<1>1. Init => ReadInv
    <2>1. SUFFICES ASSUME Init PROVE ReadInv
        OBVIOUS
    <2>2. /\ file = [dev |-> "none", pos |-> 0] /\ ret = NO_READ /\ host.pc = "off"
          /\ emmc.fifo = GARBAGE
        BY <2>1 DEF Init, OFF, CLOSED
    <2>3. PICK z \in Nat : z = DeviceSize("none") /\ 0 <= z
        BY BlocksOfType
    <2>4. FileInv
        BY <2>2, <2>3, BlockTypes DEF FileInv
    <2> QED BY <2>2, <2>4 DEF ReadInv, ReadsRam, ReadsCard, CLOSED
<1>2. DriverInv /\ ReadInv /\ [Next]_vars => ReadInv'
    <2>1. SUFFICES ASSUME DriverInv, ReadInv, [Next]_vars PROVE ReadInv'
        OBVIOUS
    <2>2. CASE Hardware \/ CommandLost
        BY <2>1, <2>2, HardwareReads
    <2>3. CASE Driver
        BY <2>1, <2>3, WaitReads, TurnReads DEF Driver
    <2>4. CASE Programs
        BY <2>1, <2>4, ProgramsRead
    <2>5. CASE Reboot
        <3>1. /\ file' = CLOSED /\ ret' = NO_READ /\ emmc' = emmc /\ host' = OFF
            BY <2>5 DEF Reboot
        <3>2. emmc'.fifo \in Blocks /\ ~ ReadsRam' /\ ~ ReadsCard'
            BY <2>1, <3>1 DEF ReadInv, FileInv, ReadsRam, ReadsCard, OFF
        <3> QED BY <3>1, <3>2, ClosedReads
    <2>6. CASE UNCHANGED vars
        BY <2>1, <2>6, StoppedReads DEF vars
    <2>7. CASE PowersUp
        BY <2>1, <2>7, StoppedReads DEF PowersUp
    <2> QED BY <2>1, <2>2, <2>3, <2>4, <2>5, <2>6, <2>7 DEF Next
<1> QED BY <1>1, <1>2, DriverSafe, PTL DEF Spec

\* _block_device_read returns the bytes of the device from the position of the
\* file on, all that were asked for or all that are left, and moves the
\* position behind them: for every block size, device size and order of the
\* controller's answers, unless a block was damaged.
THEOREM ReadsReturnDevice == Spec => []ReadsDevice
<1>1. ReadInv => (host.pc = "idle" => ReadsDevice)
    BY DEF ReadInv
<1>2. host.pc # "idle" => ReadsDevice
    BY DEF ReadsDevice
<1>3. ReadInv => ReadsDevice
    BY <1>1, <1>2
<1> QED BY <1>3, ReadsSafe, PTL

=============================================================================
