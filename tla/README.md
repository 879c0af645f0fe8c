# SatanOS (raspi_os): a verification project in TLA+

The repository is a small operating system for the Raspberry Pi Zero: an ARMv6
kernel with preemptive processes, a virtual file system over ramfs and fat32,
drivers for the UART and the SD card, a few user programs, and a serial loader
with which a kernel is sent to the board. This project models its core, checks
the models with TLC and proves with TLAPS the main properties of the scheduler, of
the resources it hands out, of the SD driver, of the dentry cache and of the files
of ramfs.

## 1. The system

| Part | State it keeps | Operations | Correct when |
|---|---|---|---|
| scheduler (`kernel/scheduler`) | process table, `proc_count`, `current_proc`, pid generator | start, fork, exit, wait, exec, descriptors, switch | the index always names a runnable process, exits and waits meet, nobody starves |
| system calls, traps (`kernel/syscalls.c`, `hardware/interupts.S`) | saved context of the current process | 17 calls, timer interrupt, aborts | the status reaches the caller's `r0`, whatever happened to the table in between |
| memory (`kernel/memory`, `hardware/mmu.*`) | bit fields of sections and tables, a bump heap, one first-level table per process | allocate, free, map, translate | sections and tables are owned by one process, nothing leaks |
| open files (`vfs/inode.c`, descriptors of the scheduler) | `file_t` objects with a reference count | open, close, inherit on fork | no descriptor refers to a released file |
| vfs (`vfs/vfs.c`) | tree of dentries that caches lookups, negative entries included | lookup, mount, mknod, mkdir, open | a cached answer is the answer of the file system |
| ramfs (`vfs/filesystems/ramfs`) | directories of up to 8 children, growing files | lookup, create, mkdir, mknod, read, write, seek, readdir | reads return what was written |
| fat32 (`vfs/filesystems/fat32`) | layout of the mounted volume, cursors of open files and directories in their cluster chains | mount, lookup, read, seek, readdir, long names | paths, listings and bytes are those of the volume |
| devices (`vfs/dev`, `driver_registry.c`, `hardware/sd_host`) | registered drivers, position of a device file, registers of the SD controller, state of the card | init, commands, block reads | commands do not overlap, a read returns the right bytes, every wait ends |
| serial loader and tool (`serial_loader`, `tools/serial_boot.py`) | progress of a transfer on each side | handshake, size, bytes with echo, end | a kernel that starts is the one that was sent |
| user programs and library (`userland`) | write buffers of streams, a bump heap | init, shell, cat, ls; fopen, fwrite, fread, fseek, printf | the shell's children are awaited; the buffer of a stream cannot be noticed |

The parts meet in the trap. A process enters the kernel by `svc`, by the timer
interrupt or by an abort; the handler saves its context, runs with interrupts
disabled, and ends in `scheduler_switch_task`, which picks the next scheduled
slot, whoever trapped. System calls reach the file system through descriptors
whose `file_t` objects are shared by parent and child. Nothing is preempted
inside the kernel, so the hard behaviours are not races between instructions
but orders of traps: an exit before or after the wait for it, a parent that
exits before its children, a table that is compacted while an index points into
it, a process suspended with an address that someone else writes later.

The serial protocol is the one place with two machines. The tool's read times
out and repeats the handshake, sessions are interrupted, and the board is reset
in the middle of a transfer. The SD driver is similar: controller and card take
steps of their own between two polls, lose commands, answers and blocks, and
keep their state when the kernel reboots.

## 2. Modules

| Module | Models | Used by |
|---|---|---|
| `Scheduler` | the process core: table, traps, memory and files as processes use them | `core`, `anywait`, `nonchild`, `reapsteal`, `close` |
| `MC_Scheduler` | the instance TLC checks | |
| `ProcessLifecycle` | the abstract specification: what happens to pids, without slots, index, memory or files | `refinement` |
| `SchedulerRefinement` | the mapping of `Scheduler` to `ProcessLifecycle` | `refinement` |
| `SchedulerProofs` | theorems about the table, the current process, the memory, the files and the delivered statuses of `Scheduler`; `Scheduler` implements `ProcessLifecycle` | |
| `Vfs`, `MC_Vfs` | the dentry cache over ramfs and fat32 directories | `vfs` |
| `VfsProofs` | theorems about `Vfs` | |
| `SetInduction` | induction over the naturals for sets, for `VfsProofs`, `RamfsFileProofs`, `Fat32Proofs`, `SerialBootProofs` and `StdioProofs` | |
| `RamfsFile`, `MC_RamfsFile` | regular files of ramfs in the bytes of the kernel heap, and directory listings | `ramfs` |
| `RamfsFileProofs` | theorems about `RamfsFile`, which implements `ByteFile` | |
| `ByteFile` | the abstract specification: a file is a sequence of bytes | `ramfs`, `stdio` |
| `Fat32`, `MC_Fat32` | the fat32 file system on a block device | `fat32` |
| `Fat32Proofs` | theorems about `Fat32` | |
| `SdHost` | the SD driver, the block devices and their files, against a controller and a card | `sdhost` |
| `SdHostProofs` | theorems about `SdHost` | |
| `Stdio`, `MC_Stdio` | streams of the user library over the files of `ByteFile` | `stdio` |
| `StdioProofs` | theorems about `Stdio`, which implements `ByteFile` | |
| `SerialBoot`, `MC_SerialBoot` | the loader, the tool and the line between them | `serial` |
| `SerialBootProofs` | theorems about `SerialBoot` | |

Operators named `...Early`, `...None`, `...Kept`, `...Any` and so on under a
"Faulty variant" comment are not part of the specifications. Each is a mistake
that someone could make in the code; replacing the correct operator by it makes
TLC find a violation of a property, which shows that the property notices it.

### Scheduler

One action is one trap. `processes` is the table as a function on
`0 .. proc_count-1`; a record holds the fields of `struct process` that are read
(the union of `schedule_state_t` is flattened, fields that the status does not
select stay 0), and `r0` of the saved context, the only register whose value the
kernel decides. The guards are the early returns of the handlers, the fatal
errors and assertions are steps to `cpu = "halted"` with the reason in `panic`;
`Reboot` starts again from `Init`, as `watchdog_reboot` does.

* `SwitchTask` is `scheduler_switch_task`: it ends every trap and takes the first
  scheduled slot after the current one.
* `Return` is the end of `kernel_syscall_handler`: the status is written to the
  caller's `r0` before the switch.
* `Fork`, `CurProcExit`, `WaitSuspend`, `WaitReap`, `Exec` are the functions of
  `scheduler.c`, whole: exit frees the section and the table, hands the children
  to init, and, when the parent is waiting, writes the status, wakes it and
  removes the slot. `IndexAfterRemove` is the adjustment of `current_proc`.
* `Open`, `Close`, `ReadTty`, `KeyPressed`, `FileCall` are the calls on
  descriptors. A read of the tty is two steps because `mini_uart_getc` spins in
  the kernel with interrupts disabled: no process runs in between.
* Sections and tables are sets of numbers with first fit; `l1` is the one user
  entry of each translation table. Memory is one word per section: the word
  whose address programs pass to `waitpid`. `mem[0]` is the word at address 0,
  which a NULL pointer reaches because `mmu_translate_virtual_address` passes
  NULL through.
* Programs are any sequence of traps. With `ChildWaitOnly` they call `waitpid`
  on children only, as `init` and `lucifer` do.
* READ, READDIR and EXEC write memory of the caller, and the kernel checks where the write begins and not
  where it ends. `Writes` is every outcome: nothing, the caller's word, or, without `BuffersInside`, the
  words of any number of sections behind the caller's too.

### ProcessLifecycle and SchedulerRefinement

The abstract state is, per pid: unborn, live, waiting (for whom), zombie or gone,
and the parent. Fork, exit with and without a waiting parent, wait for a live
child and for a zombie are its actions. `SchedulerRefinement` reads this state
off the table: the claim is that compaction, the index, the memory and the files
are invisible at this level.

### Vfs

One action is one call of `vfs.h`: two mounts, `mkdir` and `mknod` (`VfsMake`),
`open`. A path is the sequence of its segments, so that `/`, `/a/` and `//a` keep
their meaning to `_vfs_node_lookup_rec`, which takes an empty segment for a name
like any other unless it is the last one. Each call starts with `DentryLookup`,
which adds dentries, negative ones included, whether the call succeeds or not. A
mount replaces the inode of its dentry and drops the cached children; those
dentries stay allocated. ramfs directories are sequences of children, fat32 is a
fixed tree without the creating operations. Assertions, fatal errors and the use
of a null pointer stop the machine, with the reason in `panic`. `mounts` is a
history variable: with the directories it defines `Resolve`, the meaning of a
path without any cache. What a call does after the lookup by the file system's
own choice (a mode it does not support, a device it does not find, a disk that is
no fat32) is a disjunct that changes only the cache.

### RamfsFile and ByteFile

`RamfsFile` has the heap as an array of bytes with `memory_alloc`'s headers,
alignment and cursor, the inodes with `data`, `alloc_size` and `size`, and the open
files with their positions. Reads, writes and seeks are the functions of
`ramfs.c`; a write that does not fit doubles the allocation and moves the bytes with
`memory_realloc`, and the old block stays behind. Blocks that the properties do
not look into (`inode_t`, `file_t`) are allocations without content. `dir` is an
open file of the directory, with the children listed since its last seek as
history. `ByteFile` is what this implements: sequences, positions and results, with
no memory at all. Sizes stay far below the 32 bits of `off_t`, as buffers within
the 1 MB of a process do.

### Fat32

A volume has the fields of the boot sector, its chains of clusters and the entries
of its directories; `FatCell`, `DirCell` and `ByteCell` say what a sector of it
contains, as the tools that make an image (`tools/create_*_fs.sh`) write it. The
rest is `fat32_fs.c`: `NextSector` and `PrevSector` move a location along a
chain, `Examine` is one turn of the directory iterator, with the buffer in which
the parts of a long name are collected, `ReadTurn` is one turn of a read. A seek
counts sectors from the cursor, not from the start, as the code does. A loop is a
recursive function from turns to states (`Follow`, `NextEntry`, `Lookup`, `Walk`, `ReadLoop`,
`Ahead`, `Back`, `ReaddirLoop`), with as many turns as it can take. Characters are numbers, a name is a
sequence of them, and a long name really is cut into parts and put together again.
The characters of a part are cut to a `char` (`Ascii`). A name that does not fit `d_name` ends a listing
with an overrun (`ReaddirEntry`), behind which the model says nothing until a reboot.
The shift and the mask of a seek are division and remainder towards minus
infinity, which is what they are for a negative `ssize_t`. `tree`
and `listing` of a volume state, independently of the entries, which files it
holds: the properties compare with them.

`VolumesAssumption` says what a volume is, as `mkfs.fat` and `mtools` leave it: chains share no
cluster and lie in the FAT and on the device (`ChainsOk`); a directory fits in its chain and the parts of a
long name lie before the entry they name (`DirsOk`); the listing of a directory is the
entries that stand for files, under their long or short names, which differ, and the tree has each of
them below the directory (`TreeOk`). There is no label and no read-only, hidden or system
file, as on the images of `tools/` (section 5 says what the code does with them). A directory may
fill its last cluster, without an end entry, and a file may be empty, without a cluster.

### SdHost

The driver polls, so each of its polls is a step: `CommandDone` and `PollAgain` are
the two outcomes of a turn of `_sdhost_wait_for_cmd_done`, `ReadReady` and
`ReadTimeout` those of the loop in `sdhost_read_block`. `NextCommand` is the order
of the commands of `sdhost_init`. Between two polls the
controller ends a reset, a command or a transfer. Controller and card are external
and modelled by what the driver and its header say of them: flags stay until
they are reset, a command that the card does not obey in its state times out, and the
timeout sets CMD_DONE as well on some controllers (`done_on_timeout`; the comment
at the top of the driver quotes the data sheet for it) and only the error flag on
others. Commands, their answers and blocks can be lost and a block can be damaged,
`MaxFaults` times. The card answers that it is busy until it `PowersUp`, after any time or never; nothing
in the code limits the loop that waits for it. A fatal error leaves controller and card as they are, and the
driver starts again on them. `BlockRead` is a turn of `_block_device_read` for both
block devices.

### Stdio

`Stdio` composes the library with the kernel: `Kernel` is an instance of
`ByteFile`, which `RamfsFile` implements, and each system call of the library is
an action of it. A call of the library is several steps, turns of the loop of
`fwrite` and system calls. `Stream` is a second instance of `ByteFile`, over what
the program sees: the pending bytes are already in their place. `last` is what the last call
returned, as the code has it: `fwrite` and `fputs` return what is left to write, which is 0, and `fread` turns a refusal of the
kernel into 0. So a write of the second instance returns 0 (`Counts`, `Refusals`). Programs may read or exit with
bytes in the buffer, which `fread` and `_start` overlook (`Overlooks`).
The numeric conversions are computed digit by digit in integers of 4 bits.

### SerialBoot

`Open` to `Interrupt` are `tools/serial_boot.py`; `PowerOn` to `ReceiveEndAck`
are the loader. A step of the loader takes one byte, because it only polls. A
size is really converted to bytes and back, so that a byte that slips into it
changes its value. `TimedOut` lets the tool's read give up whenever nothing has
arrived (`punctual` is false) or only when the loader has nothing left to do
(`punctual` is true: the loader needs microseconds, the timeout is half a second);
a behaviour is over a line of one kind or the other.
`Interrupt` and `Reset` may strike at any point. The images sent over a punctual line are any (`Images`). An image is `Plain`
when neither its bytes nor those of its size are signals of the protocol; `PlainAssumption` asks it of `LateImages`, the
images that are sent over a line that may be late. `SizeAssumption` is that `to_bytes` has room for the length of an image, and that
a size with 0xFB as its most significant byte exceeds the memory of the kernel (it is 4 GB in the code). `MaxPending` says how late
the late line may be: the number of bytes in flight at which the tool no longer finds its read timed out.
A punctual line has also brought the last bytes of a session before the operator starts the tool again (the guard of `Open`; section 5 says what happens
without it).

## 3. What TLC checks

| Run | Bounds | Shows |
|---|---|---|
| `core` | 3 slots, 4 pids, 2 files | the safety of the process core when programs wait for children only; their buffers may go beyond their section |
| `anywait` | 3 slots, 3 pids, 4 descriptors, 4 file objects, waits on any pid | whatever programs wait for, the count of a file covers every live descriptor, and none refers to a released file |
| `refinement` | 3 slots, 4 pids, with fairness | the process table implements `ProcessLifecycle`, processes never all wait, nobody starves |
| `vfs` | names a and b, six paths, 4 dentries with 2 children, ramfs directories of 2, 4 ramfs inodes | the cache answers what the file systems hold |
| `ramfs` | 2 files that start with 1 byte, 2 open files, writes of 0, 1 and 3 bytes, a heap of 20 bytes with words of 2 | files are byte sequences, listings are complete |
| `fat32` | six volumes, sectors of 2 bytes or 2 entries, clusters of 1 and 2 sectors | paths, listings, reads and seeks give what the volume holds; where the machine stops |
| `sdhost` | blocks of 2 bytes, a card of 3 and a ram disk of 2, 3 faults, a card that is busy for any time, any number of reboots | commands stay apart, the card is selected, reads are right, waits end |
| `stdio` | a buffer of 2 bytes, texts of 1 and 2, positions up to 3, integers of 4 bits | a stream is a file, calls end, numbers read back |
| `serial` | bytes 0..7, sizes of two bytes, memory of 10 bytes, 3 faults; plain images over a line that may be late, images with every signal, empty, too long and memory-filling ones over a punctual one | only complete images start, success is reported only for them, retries end with a running kernel |
| `nonchild`, `reapsteal`, `close` | small | three statements of the source that the code does not keep (section 5) |

Properties of the process core:

* `TableSorted`: the table is sorted by pid with a live init in slot 0, across every
  append and every memmove.
* `ParentAlive`: every other process has an older, live parent. It is what makes
  the fatal error "found a non init proc without a parent" unreachable, and it
  needs the re-parenting of exit to happen before anyone can reap.
* `WaitsOnLiveChild`: no lost wake-up. Whatever the order of exit and wait, a
  suspended process waits for a live child.
* `CurrentIsScheduled`: the index is valid and the MMU uses the table of the
  process that runs.
* `ResourcesOwned`: the allocators' bits are exactly the resources of the kernel
  and of the live processes, and no two processes share any.
* `PrivateMemory`: a word of memory changes only by its owner, by fork into a
  free section, or by the status of a child, which the kernel writes only into the
  memory of the process that waits for it. Programs whose buffers end beyond their section
  reach the sections behind it, and no other, by READ, READDIR and EXEC only: fork, exit and waitpid stay exact. The run `core` has such
  programs (`BuffersInside` is FALSE), and the theorem is for both.
* `NoTablePanic`, `NoResourcePanic`: the scheduler's own checks never fire.
* `WaitDelivers`: a wait ends only with the exit of the awaited child, with its
  pid in `r0` and its status in memory; a zombie disappears only into its
  parent's wait.
* `OpenFilesCounted`: the count of a file covers every live descriptor.
* `NoDeadlock`: processes never all wait for one another.
* `NoStarvation`: a scheduled process eventually runs or the machine stops.
* `ImplementsLifecycle`: the refinement.

Of the file system:

* `LookupCorrect`: after any history of lookups, creations and mounts,
  `_vfs_dentry_lookup` returns what its comment promises, measured by `Resolve`.
* `NamesUnique`: ramfs never holds a name twice, although create and mknod do not
  check: they rely on the negative dentry being up to date.
* `DirectoryNeverFull`: the assertion on the size of a ramfs directory cannot fail
  as long as a dentry has no more room than a directory (both 8 in the code).
* `CacheIsTree`: dentries hang below directories only and once per name.
* `FilesStay`: a path changes its meaning only by its own creation or by a mount
  over it.

* `ImplementsByteFile`: reads return what was written last through any open file,
  whatever was reallocated in between, and never a byte that was not written.
* `BlocksApart`: files lie in disjoint blocks whose headers are intact.
* `ListingComplete`: between two seeks readdir returns each child once, although
  files are created between the calls.

Of fat32:

* `CursorMatchesPos`: the cursor, which reads and seeks move relative to where it
  is, is the place of the position in the chain, after any sequence of them.
* `ReadsFile`: a read returns the bytes of the file at its position, across
  sectors and scattered clusters.
* `StopsOnlyOutside`: the assertion on a FAT entry fails only for a seek before the
  file or behind its clusters, for a read behind its end, and for directories
  without an end entry; a listing overruns its buffer only where a name does not fit.
* `ListingComplete`, `PathsResolve`: names and files are those of the volume,
  with long names across sectors and clusters, deleted entries, dot entries. A listing is complete up
  to the first name that does not fit `d_name`.

Of the SD card and block devices:

* `CommandsApart`: a command is sent only when the previous one and its block are
  done and their flags reset, also after a reboot in the middle of either.
* `ReadyMeansSelected`: a driver that reads has selected the card under its
  address.
* `ReadsDevice`: a read of a device file returns the bytes of the device, across
  blocks and up to its end.
* `CallEnds`: every wait ends, by an answer or by a fatal error, but for the loop that asks a card
  which is never powered up.

The exceptions that these properties name (a timeout that is reported as done, a
damaged block) are the code's own: see section 5.

Of streams: `StreamIsFile` (the refinement of `ByteFile`: no order of writes,
flushes, seeks and reads shows the buffer, in the file or in what the calls return, but for a read or an exit that overlooks it),
`WriteEnds`, `NumbersReadBack`.

Of the serial protocol: `LaunchedIntact` (the loader jumps only to the image of the
session that acknowledged the end), `SuccessMeansReceived` (the tool's report),
`EventuallyBoots` (no leftover of an earlier session blocks the board for good, when operators do not keep sending
empty images or images that do not fit: the tool feeds an unfinished transfer with INIT bytes until it ends, and the INIT
that follows its END is not an END_ACK).

**Bounds.** Three slots are enough for init, a parent and its child, hence for
re-parenting, removal below, at and above the index, a full table and reuse of
sections; four pids let a slot be reused after a removal. Waiting, exiting and
reaping involve at most a process, its parent and init. The reap that moves the
wrong process needs four slots, which `reapsteal` has. Two statuses and two words
tell a delivered status from a stale one. In `vfs` the two names and the empty one
exceed the children of a dentry, four dentries allow a lookup after a mount has
dropped two of them, and four inodes allow a directory, files in it and a second
mount; the two limits of 2 are equal as in the code. In `ramfs` a write of three
bytes needs two doublings at once, a file can grow twice, two files with open
files on each leave room for one growth, and the heap runs out. With eight byte values the four bytes of
the protocol keep their distance from the top of the range as in the code; a
repeated INIT read as the low byte of a size gives 10, which fits the memory
as it can in the code; one image is sent per session, and sessions follow one
another without bound. In `fat32` the volumes have a
root directory in two clusters that are not neighbours with a long name across
their boundary, a file that fills scattered clusters to the last byte, one that
ends inside a sector, an empty one without a cluster, a subdirectory with and
without room for an end entry, a character that is no `char`, and a name that does not fit the buffer (6 characters there, 31 in the code); offsets cross one and several sectors both ways.
In `sdhost` three faults allow a lost command during the start, a lost block and
one more after a reboot; a read of 3 bytes from an odd position covers three
blocks. In `stdio` a text of two bytes fills the buffer behind one of one byte in the middle, and
seeks go behind the end of the file, where a flush fails. `MaxPid`,
`MaxFaults`, `MaxInodes`, `MaxFiles`, `MaxOpens`, `MaxTurns` and `MaxPos`
are the named bounds on counters.

**Images in `serial`.** With late answers an image, or a size, that contains the
protocol's own bytes can be confused with it after an interrupted session
(an echoed 0xFB is taken for INIT_ACK). Over a line that may be late the run
therefore sends images without those bytes. Over a punctual line, which is the normal one, it sends any, as every compiled kernel
has such bytes: all signals as data, INIT as either byte of a size, before INIT_ACK as the first byte of the image.

**How late the line may be.** `MaxPending` is part of what is claimed and not only a bound: in `serial` it is
3, which is `SIZE_BYTES + 1`. Up to this many repetitions of INIT before the loader reads the first one, those that follow
it are read as bytes of the size and none is echoed. Over a later line the leftovers of two interrupted sessions
can be in flight together: with `MaxPending` 12, images
of one, six and seven zeros and two faults TLC finds a kernel started whose buffer is not the acknowledged image.
In the code the bound is five repetitions, two and a half seconds at the tool's timeout of half a second.
`SuccessMeansReceived` holds however late the line is, and says for this what the tool can rely on: the loader holds the image,
or has gone on, and when it has gone on to a new session the INIT_ACK of that session is what the tool
would read next.

**Fairness.** `WF(TimerIrq)`: every interrupt re-arms the timer and user mode runs
with interrupts enabled, so a process cannot keep the CPU. `WF(KeyPressed)`: the
operator eventually types; without it one reader of the tty stops everybody,
which is what the code does. No fairness is assumed of any program. In
`SerialBoot`, the tool and the loader keep running and the operator starts the
tool again after it ends; interruptions and resets are finitely many. In `SdHost`
the driver, which nothing preempts, keeps polling, and the controller ends what it
was asked to do, with an answer or a timeout; no fairness is assumed of programs or
of faults. In `Stdio` a call of the library goes on: round robin gives every
process its turn (`NoStarvation`).

**Deadlock** is checked in every run: the machine always has a next step, a reboot
if nothing else.

## 4. What is proved

Each theorem holds for every value of the constants that satisfies the
assumptions named with it: every size of the process table, the memory, the heap
and the descriptor tables, every block size, file content and sequence of calls.

| Module | Theorem | States |
|---|---|---|
| `SchedulerProofs` | `Invariance` | `Spec => []IInv` |
| | `TypeCorrect` | `Spec => []TypeOK` |
| | `TableStaysSorted` | `Spec => []TableSorted` |
| | `ParentsStayAlive` | `Spec => []ParentAlive` |
| | `CurrentStaysScheduled` | `Spec => []CurrentIsScheduled` |
| | `NoLostWakeup` | if `ChildWaitOnly`, `Spec => []WaitsOnLiveChild` |
| | `SchedulerNeverPanics` | if `ChildWaitOnly`, `Spec => []NoTablePanic` |
| | `Ownership` | `Spec => []ResourceInv` |
| | `ResourcesStayOwned` | `Spec => []ResourcesOwned` |
| | `MemoryStaysPrivate` | `Spec => PrivateMemory` |
| | `FilesCounted` | `Spec => []FilesInv` |
| | `FilesStayCounted` | `Spec => []OpenFilesCounted` |
| | `ResourcesNeverPanic` | `Spec => []NoResourcePanic` |
| | `StatusesDelivered` | if `ChildWaitOnly`, `Spec => WaitDelivers` |
| | `Mappable` | `Spec => []MapInv` |
| | `NeverAllWaiting` | if `ChildWaitOnly`, `Spec => []NoDeadlock` |
| | `Refinement` | if `ChildWaitOnly`, `Spec => ImplementsLifecycle` |
| `SdHostProofs` | `DriverSafe` | `Spec => []DriverInv` |
| | `CardSelected` | `Spec => []ReadyMeansSelected` |
| | `CommandsStayApart` | `Spec => CommandsApart` |
| | `ReadsSafe` | `Spec => []ReadInv` |
| | `ReadsReturnDevice` | `Spec => []ReadsDevice` |
| `RamfsFileProofs` | `FilesLaid` | `Spec => []RamfsInv` |
| | `FilesTyped` | `Spec => []TypeOK` |
| | `BlocksStayApart` | `Spec => []BlocksApart` |
| | `ListingStaysComplete` | `Spec => []ListingComplete` |
| | `ReadsWhatWasWritten` | `Spec => ImplementsByteFile` |
| `VfsProofs` | `CacheIsCoherent` | `Spec => []VfsInv` |
| | `VfsTypeCorrect` | `Spec => []TypeOK` |
| | `LookupsAreCorrect` | `Spec => []LookupCorrect` |
| | `DentriesAreTree` | `Spec => []CacheIsTree` |
| | `DirectoryNamesUnique` | `Spec => []NamesUnique` |
| | `DirectoriesNeverFull` | `Spec => []DirectoryNeverFull` |
| | `NamedFilesStay` | `Spec => FilesStay` |
| `Fat32Proofs` | `Invariance` | `Spec => []Inv` |
| | `CursorHolds` | `Spec => []CursorMatchesPos` |
| | `StopsHold` | `Spec => []StopsOnlyOutside` |
| | `ListingHolds` | `Spec => []ListingComplete` |
| | `PathsHold` | `Spec => PathsResolve` |
| | `ReadsHold` | `Spec => ReadsFile` |
| `SerialBootProofs` | `Places` | `Spec => []BaseInv` |
| | `TypeCorrect` | `Spec => []TypeOK` |
| | `InStep` | `Spec => []((punctual => PunctualInv) /\ (Late => SuccessInv))` |
| | `SuccessHolds` | `Spec => SuccessMeansReceived` |
| | `LaunchHolds` | if `MaxPending <= SIZE_BYTES + 1`, `Spec => []LaunchedIntact` |
| `StdioProofs` | `NumbersHold` | `Spec => NumbersReadBack` |
| | `StreamsWellFormed` | `Spec => []StdioInv` |
| | `StreamHolds` | `Spec => StreamIsFile` |

### The process table

Assumptions: `SizesAssumption` (at least one slot and three descriptors, and a
section and a table for each slot besides the kernel's, as the sizes in the code
have it), `ProgramsAssumption` (types), and `ChildWaitOnly` where it is named.

The inductive invariant is `IInv`: types, the state at boot, the sorted table,
live parents, matched waits and the scheduled current process. None of the parts is
inductive alone. That an exiting process finds its parent needs `ParentAlive`;
that `ParentAlive` survives a removal needs the order of the table (a removal
shifts later slots only) and that the removed process had no children left (it
was re-parented when it exited, and init never exits). That some process can be
scheduled after a suspension needs matched waits: every suspended process waits
for a younger one, so the youngest live process does not wait (`GreatestExists`).
That WAITPID of a zombie returns to its caller needs the order again: a child's
slot is above its parent's, so its removal does not move the caller. Each action
has a lemma, and the closing step combines them with PTL.

### Memory, files and statuses

`StepEffects` says once what a step may do to the table: leave it as it is but for
`r0` and one descriptor (`Kept`), add a slot (`ForkStep`), suspend the caller
(`SuspendStep`), remove a zombie (`ReapStep`), let the caller die (`ExitStep`), or
start. The proofs that follow go through these six cases and not through the
actions.

* `ResourceInv` is `ResourcesOwned` with `WaitRefs`: a live process holds a section and
  a table of its own, its table maps its section, nothing else is allocated, and a
  suspended process wants its status in its own section. The removal of a slot
  is handled by `OldIndex`, the slot a process came from. `PrivateMemory` follows: what
  a step writes begins in the section of the caller or, at an exit, is the word of the parent
  that asked for it. With `BuffersInside` it also ends there.
* `FilesInv` is `OpenFilesCounted` (the count of a file is at least the number of its descriptors; after an exit it may be more) with the fact that released files are below the heap's
  cursor, so that a new file is never one of them. The references to a file are a set
  of pairs of slot and descriptor; each case says how this set embeds into, or
  extends, the one before (`Embeds`), and the library's facts about
  cardinality do the counting.
* `NoResourcePanic` is a pigeonhole: with a section for each slot, owned one to one by
  the live processes, a fork that has a slot finds a section and a table (`RoomLeft`).
* `WaitDelivers` follows process ids over the removal of slots: a waiting process keeps
  waiting for the same child unless this step is the exit of that child, and then
  the word it named holds the status.

### The life cycle of a process

`Shown` says that three functions of the pid describe a table, and that they are the
refinement mapping of `SchedulerRefinement`. Each of the six cases is then shown to be one step of
`ProcessLifecycle` or a stutter. `MapInv` (pids below the generator) makes the mapping a function.
`NoDeadlock` is the same argument as for scheduling, at the level of the mapping: of the
processes that are ready or wait, the youngest does not wait.
`ChildWaitOnly` is needed: without it the run `nonchild` has a process that waits for ever,
and the abstract specification has no such step.

### The SD driver

Assumption: `SdHostAssumption`. `DriverInv` has three parts: the shapes of the records; `BusInv`,
what the controller, the card and the driver know of each other while a command is in flight; and
`SelectInv`, that past the selection the card is in the transfer state with the address
that the driver keeps. The second is where the order of the registers matters: the flags are cleared before the
command is written, so the answer that ends a wait belongs to the command. `ReadInv` adds
the calls on the device files: what was copied so far is what the device holds from
the start of the read (`Holds`), and the block that is being fetched is the one of the position. The
arithmetic of blocks and offsets is in `Multiples`, `DivMod`, `Appended` and `Continued`.

### The files of ramfs

Assumption: `RamfsFileAssumption`. `RamfsInv` says that every file has a block of the heap,
header included, that ends below the cursor and meets no other file's
(`Laid`). The loop that doubles the allocation (`Grown`) is a recursive function on an
infinite domain; that it is one, and that it ends with enough room, is by a least
counterexample (`Least`, `LoopExists`, `GrownEnough`), because the induction theorems of the library cannot
be used. `Overwrites` and `Moved` say what a write does to the bytes of its file without and with a
new block, `Untouched` that every other block keeps its bytes. The refinement of
`ByteFile` maps a file to the bytes in its block (`Contents`); every step of `RamfsFile` is a
step of `ByteFile` or a stutter.

### The dentry cache

Assumption: `VfsAssumption` (paths are nonempty sequences of segments, the fat32 tree is one,
there is a dentry for the root). All properties of the run `vfs` are proved, for every set of paths,
every fat32 tree and every limit.

`VfsInv` says that some function `D` from paths to dentries describes the cache (`Good`). Its parts need each
other:

* `Located`: `D` is one to one, holds `/`, with a path its directory, and with a directory the
  children of its dentry under their names. Dentries that a mount cut off are not in it.
* `Coherent`: the dentry of a path holds the root of the mount on it, or else what the file
  system of its directory answers to its name. This is what a lookup relies on, and what `mkdir`, `mknod` and `open`
  must restore when they add a file: the answer changes for one name in one directory only
  (`LookupAdded`, `CreatesCoherent`).
* `Complete`: a ramfs directory has one dentry (`OneDentry`), each of its files has a child there
  (`HasAll`), and a negative child stands for a name it does not hold (`NegativeRight`). `OneDentry` makes the update of
  one dentry enough; `HasAll` holds because files are created through their negative dentry, and
  because a mount is the only way to drop children and covers the directory with them.
* `Shaped` and `Treelike`: types, limits and the tree.

Each call is a lookup and one of four ends. A lookup is a recursive function over the segments (`Walk`); that it exists,
and that it keeps `Good` while `D` only gets larger (`Larger`), is by induction over the
segments, for sets (`Steps` of `SetInduction`, from the least counterexample). In `vfs_mount`, which looks up twice,
`Larger` says that the first dentry is still the one of its path. The ends are: only the cache changed,
a mount (`MountGood`, which takes the paths below out of `D`), a new file (`CreateGood`) and a stop.

`DirectoryNeverFull` is a pigeonhole: when a file is added, the files of the directory and the negative
dentry have different names, so they need different children (`RoomForOne`), and a dentry has no
more than its limit. `LookupCorrect` compares the walk with `Resolve` segment by segment: where a path is
cached both have the inode of its dentry (`CachedNames`), and below a segment that is no
directory nothing is mounted and nothing found (`NothingBelow`). `FilesStay` compares `Resolve` before and after a
step: with a directory more, an untouched path names what it did (`MoreNames`), and with a file more it differs
only at the new file, below which there is nothing yet (`AddedNames`).

### The fat32 file system

Assumptions: `Fat32Assumption` (sizes are positive, offsets integers, paths sequences of names) and
`VolumesAssumption` (section 2), which TLC evaluates on the volumes of `MC_Fat32`. All properties of the run
`fat32` are proved, for every such volume, every geometry and every sequence of calls.

`Inv` says that the file system that is mounted is the one on the volume, that an open file is `OpenFile` and an
open directory `OpenDir`, and why the machine stopped. `OpenFile` has the inode of its path
and, for some sector `n` of its chain, a location that is that sector and a position that is `n` sectors and
the offset. The offset may be a whole sector, after a read that ended with the file: this is the state from
which a read up to the end does not follow the FAT and a seek behind the end does. `OpenDir` stands at
some entry `q` behind exactly the first `i` files of the listing and not in the middle of a long name,
and these `i` files are what was listed. Most of the proof is about what the loops compute:

* `NextMoves`, `PrevMoves`: a step along the chain reaches the neighbouring sector, or nowhere at
  either end. `PrevMoves` needs that the walk from the start of the chain is the chain
  (`FollowsChain`) and that no cluster is in it twice. `AheadMoves`, `BackMoves` and `SeekEffect` carry it to any number
  of sectors, for quotient and remainder of a negative distance too.
* `TurnKeeps`, `TurnInFile`, `TurnProgress`: a turn of a read keeps the location at the position,
  copies bytes of the file and reads one at least, after at most one turn that only leaves a
  full sector; so the loop ends (`ReadEffect`) with all that was asked for or all that is left.
* `PartPlaced`, `NameRead`: with each part of a long name, the end of the buffer from that part on is the
  end of the name (`Assembled`), and the string in a complete buffer is the name.
* `ExamineTurn`, `IteratorEffect`: the iterator passes entries that stand for no file, collecting
  the parts of the name before the entry it returns (`Seeks`); it returns the next entry that
  stands for a file, the end, or stops behind the last entry of a full directory.
  `IteratorLists` says this in terms of the listing.
* `LookupEffect`, `DescendStep`, `WalkEffect`: a lookup compares the files in order and finds a name exactly when
  the listing has it; a path is found exactly when the tree has it. `ReaddirEffect`: calls of
  `readdir` list the next files, `IteratorLists` once per file, as long as the names fit.

For each loop, a pair of lemmas (`AheadExists`, `AheadSteps`, ...) shows that the recursive function exists; the
induction over its turns is `Steps` of `SetInduction`.

### The serial protocol

Assumptions: `LineAssumption` (types; a byte has room for the four signals), `SizeAssumption` (section 2) and `PlainAssumption` (no signal in the
images sent over a late line), for every number of byte values, size of a size and of the memory, set of
images, and number of interruptions and resets. A behaviour is over a punctual line, where images are any, or over a late one (`Late`).
The two have an invariant each, and the theorems hold for both.

`BaseInv` is where the two ends are: the tool's index and its image, the loader's size, count and buffer, and no byte
on the way to a board that is off. `TypeCorrect` follows: whatever bytes of a size arrive, the value is a
natural number (`ValueExists`, `FromBytesType` for the recursive function) that was compared with the memory before a byte is
stored. `StepCases` reduces the actions to nine kinds of step on the line (`Asks`, `Starts`, `Feeds`,
`Sends`, `Advances`, `Leaves`, `Ends`, `Restarts`, `Receives`), and the invariants are shown to survive each of them.

*A late line.* `SuccessInv` ties what is in flight to the loader. Behind the last INIT_ACK on the line come the answers
of the loader's present session and no others: the part of the image it has stored, then END (`AckSync`). When no
INIT_ACK is in flight and the tool is in a transfer, the bytes it has checked and the bytes in flight together
are those answers (`SendingSync`). After END the loader sends INIT_ACK or nothing (`EndLast`), and the tool sends neither, so no echo
passes for them (`NoEcho`). When the tool reads END, either the loader's buffer is what the tool has checked,
byte for byte, or the loader has gone on. This needs no bound on how late the line is.

`LaunchInv` is about the other direction, and there the bound matters. Start signals in flight, those that
were echoed included, are at most `MaxPending` (`Bounded`); one that stands before any other byte is taken for INIT or for a
byte of the size (`Early`, `Slot`), since INIT and the size together take `SIZE_BYTES + 1` bytes; while echoes of INIT are unread nothing but
INIT was sent (`EchoesFirst`), and after INIT_ACK none comes any more (`Answered`, `AckLast`). Hence the END that the tool
reads in a transfer is the last byte in flight and no INIT is behind it (`EndAlone`), so END_ACK reaches the
loader that sent END, with the acknowledged image, or one that skips it while it waits for INIT (`Acknowledged`), and a kernel
that runs is that image (`Started`).

*A punctual line.* Here any byte of an image, an echo or a size may be a signal, so nothing can be said of a byte by its value. But the tool only
repeats INIT when the loader has taken the last one, and `PunctualInv` lists the shapes that the two ends and the line can have. Before a session at most one INIT
is in flight and INIT_ACK is the last answer (`Asking`). In a session (`Session`) they are in step: the size is on its way (`Sizing`), each byte is echoed before the
next (`Echoing`), the image is complete (`Complete`). Or the board was reset: answers of before are left (`Gone`), the loader skips bytes (`Skipping`) until one of
the size is INIT, which it answers (`Misled`); the tool takes the answer for an echo only if the first byte of its image is INIT_ACK, and that byte is then part
of what the loader takes for a size (`Sunk`, `Passing`). Then a size that is complete either does not fit, because INIT_ACK is its most
significant byte (`SizeAssumption`), or is not 0, and the tool waits for an echo that never comes (`Stuck`) or reads one that differs (`Doomed`). So END
is read for the final acknowledge only in `Complete` and `Gone` (`FinalShapes`). `Quiet` says of the bytes in flight, in and between sessions, that the loader that waits for
END_ACK finds none but the END_ACK of its own session or an INIT: all others belong to a size or to the image. For this an image of length `n` must be read as `n`
(`SizeReads`: `FromBytes` inverts `ToBytes`) and not as 0 (`ZeroSize`). What the loader does in each shape is `SessionReceives`,
what the tool and the board do is `AskingSteps`, `StartSteps`, `SendSteps`, `AdvanceSteps`, `EndSteps` and `RestartSteps`.

### Streams

Assumptions: `StdioAssumption` (types) and `ConversionsAssumption` (the numbers that are printed are values of `uint32_t`
and `int32_t`, for any number of bits).

`NumbersHold`: `DigitsEffect` goes by strong induction over the number: the digits of `n` are those of
`n \div base`, which is smaller, and `n % base` (`WritingExists`, `ReadingExists`, `ReadingSame` for the two recursive functions;
`LastDigit` for the arithmetic; `SmallRemainder` for the negation modulo 2^w, which gives the smallest `int32_t` its magnitude).

`StdioInv` is: the descriptor of the stream is one of the kernel's open files of the one file (`Shape`); a call belongs to an open
stream; what is left to write is the end of a text (`Remains`), so that each turn of the loop copies a segment of it; and a seek
that waits for its flush stays within `MaxPos` from wherever it will be measured (`SeekBounded`: the flush moves the end of the
file, and never beyond the position that the program sees).

For the refinement, `CBar` and `OBar` are the file and the positions as the program sees them. `OverTwice` carries it:
writing `x` and then `y` behind it gives the same bytes as writing both at once. So a turn of `fwrite` that copies `y` behind the
buffer `x` is a write of `y` to the file with `x` in its place (`CopyEffect`), and a flush, which really writes
the buffer, changes nothing that is seen (`FlushEffect`). While the position is beyond the end nothing of the buffer is seen, and a flush
is refused (`FlushFailsEffect`). `fread` and `exit` see the kernel's file, which is the program's when the buffer is empty (`PlainNow`,
`FreadMaps`, `LeaveEffect`); with bytes in the buffer they are the steps of `Overlooks`, which `StreamIsFile` excepts.

### Checked by TLC only

`NoStarvation`, `CallEnds`, `EventuallyBoots` and `WriteEnds` are liveness under fairness, which the prover
does not do.

## 5. Where the code and its own statements differ

* `nonchild`: a comment of `scheduler_cur_proc_wait_id` says that only a direct
  child can be awaited. The code suspends the caller on any pid, its own
  included, and nothing ever wakes it.
* `reapsteal`: WAITPID of a zombie in a slot below the caller's shifts the caller
  while `current_proc` stays. The handler then finds another current process and
  the assertion that only EXIT does this stops the machine. Waiting for
  children only makes it unreachable (`SchedulerNeverPanics`).
* `close`: CLOSE releases the file after dropping one reference, and the release
  asserts that none is left. Closing one of the three descriptors of the tty, or
  a file shared by a fork, stops the machine.
  Exit closes no descriptor, so a file that a child inherited keeps counting the
  descriptors of a process that is gone, and its last close does the same.


Met while modelling, without a run of their own:

* fat32: the attribute mask of long names (0x0F) is tested with `&`
  (`fat32_fs.c:455`), so that a volume label or a read-only, hidden or system file is
  taken for a part of a long name; the test for a volume label that follows cannot
  be reached. The images of `tools/` have no such entries. The extension of a short name ends where
  the name does (`:171` tests `filename`, not `file_extension`), so a padded or cut
  extension is part of the name. `FAT_ENTRY_END` (0x00FFFFF0) is a 24-bit value: clusters above it, which
  a fat32 of that size has, are refused. A seek to the end of a file that fills
  its last cluster stops the machine, where a read up to there does not.
  A listed name of more than 30 characters is written beyond `d_name` (31 bytes) into the fields behind it, and one of more than 31 beyond the array
  `filename[32]` of `_fat32_fs_dir_readdir` (`:726`) on the kernel's stack: `StopsOnlyOutside` names the case. A name of 20 parts makes
  the iterator write the zero behind its last part at index 260 of `long_filename[256]` (`:469`); the assumption on volumes (`DirsOk`) leaves such names out. Two names
  that differ only in the high bytes of their characters are the same name.
* System calls: READ and READDIR translate the address of the buffer and check no length (`syscalls.c:90-114`), and EXEC reads segments of any size to the
  section (`scheduler.c:370`). A buffer near the end of a section, or a large segment, overwrites the sections behind it, which belong to other
  processes: without `BuffersInside`, `PrivateMemory` says that sections before the caller's are safe, and that fork, exit and waitpid write no others. A NULL pointer is passed through by
  `mmu_translate_virtual_address`, and the kernel then writes at physical address 0. A status word that lies across the end of
  a section is not modelled. The bound check of `bitfield.c:40` accepts an index one byte past the field.
* Serial: an operator who starts the tool again while the echo of the last byte of an interrupted session is still to come can lose the protocol: when that byte
  is 0xFB, the tool takes its echo for INIT_ACK and sends a size that the loader stores as bytes of the old image. Without the guard of `Open` TLC
  finds `LaunchedIntact` violated over a punctual line too.
* SD: the loop that waits for the card to power up (`sd_host.c:201-237`) has no limit: with a card that stays busy the boot never ends. The timeout flag is only logged, and tested a second time where the message
  speaks of a crc error (`sd_host.c:40`). On a controller that sets CMD_DONE with it, the driver goes on with the
  previous answer; when it then reads from a card that is not selected, neither
  READ_READY nor a timeout may come and the wait has no limit. The comment before
  CMD13 says "ensure it is in the correct state"; the state is only logged. The crc error of a block is not looked at.
* stdio: when the buffer is full and cannot be written (after a seek beyond the end
  of a ramfs file), `fwrite` calls `fflush` forever; a stream with such a
  buffer can be neither sought nor closed. `fread` does not flush, so a
  program reads what it has not written yet, and `exit` drops the buffer: without `Overlooks` TLC
  finds `StreamIsFile` violated. `fwrite` and `fputs` return 0 whatever they wrote (`stdio.c:157` returns the counter that the loop takes to 0), and
  `fread` returns 0 where the kernel reports an error. Numbers are
  printed with the zero byte that ends their array. A fork copies the pending buffer, and both processes write it.

## 6. Not modelled

Left out for good: register sequences of UART, GPIO, timer and watchdog, page
attributes and caches, text output, the assembly of boot. They have no state that
a property could speak about beyond what the actions above use. The hash map has
no caller. The run-time routines of `arm_runtime` and the byte loops of `str.c` and
`string.c` are loops without state, whose checks would repeat them; the bytes of bit fields appear as the
sets they stand for. The program headers of an ELF file are behind the choice of `Exec`
between a good and a bad file. The name of a dentry is an array of 16 characters that `_strcpy` fills without a limit (`vfs.c:77,110`); names in
`Vfs` are values, hence names of 15 characters at most, and what a longer one overwrites is not modelled. Line editing of the tty, `dirent`, `getchar` and
`gets_s` are straight calls of the kernel. Programs are any sequence of calls, not the ones of init and
the shell.
