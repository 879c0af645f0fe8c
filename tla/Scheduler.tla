------------------------------ MODULE Scheduler ------------------------------
(***************************************************************************)
(* The process core of the kernel: kernel/scheduler/scheduler.c, the       *)
(* system call dispatcher kernel/syscalls.c and the trap entries of        *)
(* kernel/hardware/interupts.S, with the allocators and the translation    *)
(* tables as far as processes use them.                                    *)
(*                                                                         *)
(* There is one CPU, and interrupts are disabled while it is in the        *)
(* kernel, so one action is one trap: enter with the context of the        *)
(* current process saved, run the handler, then scheduler_switch_task.     *)
(* The only place where the kernel waits inside a trap is a read of the    *)
(* tty, which is two actions (Read and KeyPressed).                        *)
(***************************************************************************)
EXTENDS Integers, FiniteSets

CONSTANTS
    SCHEDULER_MAX_TASK_COUNT,   \* slots of the process table
    MAX_FILE_DESCRIPTOR_COUNT,  \* file descriptors of a process
    SECTION_COUNT,              \* sections of the section allocator
    TABLE_COUNT,                \* tables of the translation table allocator
    HEAP_CAPACITY,              \* file_t objects that fit the kernel heap
    MaxPid,                     \* bound: pids given since boot
    ExitStatuses,               \* statuses that programs exit with
    StoredWords,                \* words that programs store in their memory
    ChildWaitOnly,              \* programs call waitpid on no process that is
                                \* not their child, as init and lucifer do
    BuffersInside               \* what programs let the kernel write (buffers
                                \* of READ and READDIR, segments of a file to
                                \* EXEC) ends inside their section

NULL == 0
INIT_PROC_ID == 1
KernelSections == 1 .. 4        \* heap, tables, ramdisk, dentries
KernelTable == 1                \* the first table allocated at boot
TTY == 1                        \* the first file opened: /dev/tty
StdFds == 0 .. 2

ASSUME SizesAssumption ==
    /\ SCHEDULER_MAX_TASK_COUNT \in Nat \ {0}
    /\ MAX_FILE_DESCRIPTOR_COUNT \in Nat /\ MAX_FILE_DESCRIPTOR_COUNT >= 3
    /\ SECTION_COUNT \in Nat /\ SECTION_COUNT >= 4 + SCHEDULER_MAX_TASK_COUNT
    /\ TABLE_COUNT \in Nat /\ TABLE_COUNT >= 1 + SCHEDULER_MAX_TASK_COUNT
    /\ HEAP_CAPACITY \in Nat \ {0}
    /\ MaxPid \in Nat \ {0}

ASSUME ProgramsAssumption ==
    /\ ExitStatuses \subseteq Int /\ StoredWords \subseteq Int
    /\ ChildWaitOnly \in BOOLEAN /\ BuffersInside \in BOOLEAN

VARIABLES
    processes,      \* the table: processes[0 .. proc_count-1]
    proc_count,
    current_proc,   \* index of the current process
    id_gen,         \* last pid given
    sections,       \* allocated sections (bitfield of section_allocator.c)
    tables,         \* allocated translation tables
    l1,             \* per table: the section mapped at the process section's
                    \* virtual address, the only user-accessible entry
    ttbr,           \* translation table the MMU uses
    mem,            \* per section: the word programs pass to waitpid;
                    \* mem[NULL] is the word at physical address 0
    fd_count,       \* per file object: file_t.fd_count
    heap,           \* file objects allocated; memory_free gives nothing back
    released,       \* file objects that were released
    cpu,            \* "boot", "user", "tty" (kernel waits for a key), "halted"
    panic,          \* the reason passed to kernel_fatal_error
    last_exit       \* history: pid and status of the exit in the last step

schedVars == <<processes, proc_count, current_proc, id_gen>>
memVars   == <<sections, tables, l1, mem>>
fileVars  == <<fd_count, heap, released>>
cpuVars   == <<ttbr, cpu, panic>>
vars == <<schedVars, memVars, fileVars, cpuVars, last_exit>>

-----------------------------------------------------------------------------
(* Types                                                                   *)

Fds      == 0 .. MAX_FILE_DESCRIPTOR_COUNT - 1
Files    == 1 .. HEAP_CAPACITY
Sections == 1 .. SECTION_COUNT
Tables   == 1 .. TABLE_COUNT
Statuses == {"SCHEDULED", "SUSPENDED", "EXITED"}
PanicReasons ==
    {"boot", "reboot", "unsupported", "init_exited",
     "heap_exhausted", "no_scheduled_process",
     "index_beyond_proc_count", "assert_syscall_is_exit",
     "no_parent",
     "alloc_failed",
     "removed_with_resources",
     "assert_fd_count_positive", "assert_fd_count_zero"}
NoExit   == [pid |-> 0, status |-> 0]
ARGV_POINTER == -2   \* an address, told apart from every syscall status

(* struct process. The fields of the union schedule_state_t that the       *)
(* status does not select are never read; they are kept at 0.              *)
Process ==
    [id : Nat, parent_id : Nat, status : Statuses,
     wait_pid : Nat, wstatus_ref : 0 .. SECTION_COUNT, wstatus : Int,
     r0 : Int, section : 0 .. SECTION_COUNT, table : 0 .. TABLE_COUNT,
     files : [Fds -> 0 .. HEAP_CAPACITY]]

-----------------------------------------------------------------------------
(* Helpers                                                                 *)

Indices == 0 .. proc_count - 1
Cur == processes[current_proc]
Ids(procs) == {procs[i].id : i \in DOMAIN procs}

Least(S) == CHOOSE x \in S : \A y \in S : x <= y

\* bitfield_acquire_first over the allocators' bit fields.
FirstFree(all, used) == Least(all \ used)

\* _find_proc_by_pid, where the pid is in the table.
FindProc(procs, pid) == Least({i \in DOMAIN procs : procs[i].id = pid})

\* Faulty variant: the memmove starts one slot too early.
WithoutIndexEarly(procs, k) ==
    [i \in {j \in DOMAIN procs : j + 1 \in DOMAIN procs} |->
        IF i + 1 >= k /\ i + 2 \in DOMAIN procs THEN procs[i + 2] ELSE procs[i]]

\* The table after the memmove of _remove_process.
WithoutIndex(procs, k) ==
    [i \in {j \in DOMAIN procs : j + 1 \in DOMAIN procs} |->
        IF i < k THEN procs[i] ELSE procs[i + 1]]

\* current_proc after _remove_process: only the removal of the current
\* process moves the index.
IndexAfterRemove(k) ==
    IF k # current_proc THEN current_proc
    ELSE IF k = 0 THEN proc_count - 2 ELSE current_proc - 1

\* Faulty variant: a suspended process may be selected.
ScheduledNotExited(procs) == {i \in DOMAIN procs : procs[i].status # "EXITED"}

Scheduled(procs) == {i \in DOMAIN procs : procs[i].status = "SCHEDULED"}

\* Faulty variant: the scan always begins with slot 0.
NextScheduledFirst(ready, cur) == Least(ready)

\* _select_next_scheduled_proc: round robin from the slot after `cur`.
NextScheduled(ready, cur) ==
    IF \E i \in ready : i > cur THEN Least({i \in ready : i > cur})
                                ELSE Least(ready)

\* kernel_fatal_error: the machine stops and waits for a key to reboot.
Fatal(reason) == cpu' = "halted" /\ panic' = reason /\ ttbr' = KernelTable

\* scheduler_switch_task then __scheduler_set_task_context: every trap ends
\* with it, whoever trapped and whether or not the process may go on.
SwitchTask(procs, cur) ==
    IF Scheduled(procs) = {}
    THEN Fatal("no_scheduled_process") /\ current_proc' = cur
    ELSE LET next == NextScheduled(Scheduled(procs), cur) IN
         /\ current_proc' = next
         /\ ttbr' = procs[next].table
         /\ cpu' = "user"
         /\ UNCHANGED panic

\* The end of kernel_syscall_handler for a call that left the table in place:
\* store the status in the caller's r0, then switch.
Return(procs, status) ==
    /\ processes' = [procs EXCEPT ![current_proc].r0 = status]
    /\ SwitchTask(processes', current_proc)

\* A trap from user mode that only has a status to return.
Trivial(status) ==
    /\ cpu = "user"
    /\ Return(processes, status)
    /\ last_exit' = NoExit
    /\ UNCHANGED <<proc_count, id_gen, memVars, fileVars>>

\* A trap that ends in kernel_fatal_error.
Die(reason) ==
    /\ cpu = "user"
    /\ Fatal(reason)
    /\ last_exit' = NoExit
    /\ UNCHANGED <<schedVars, memVars, fileVars>>

\* The memories that a write of the kernel into section `first` makes of m. Only
\* the first address is translated, no length is checked against the section,
\* and the sections follow one another: a long buffer goes on in the next ones.
LastSections(first) ==
    {last \in Sections : first <= last /\ (BuffersInside => last = first)}
Writes(m, first) ==
    {m} \cup {[s \in 0 .. SECTION_COUNT |-> IF s \in first .. last THEN word ELSE m[s]] :
                 last \in LastSections(first), word \in StoredWords}

-----------------------------------------------------------------------------
(* Boot and reboot                                                         *)

NoProcesses == [i \in {} |-> NULL]

\* The machine when kernel_main calls scheduler_start: the kernel holds four
\* sections and one translation table, and no process exists.
Init ==
    /\ processes = NoProcesses /\ proc_count = 0 /\ current_proc = 0
    /\ id_gen = 0
    /\ sections = KernelSections /\ tables = {KernelTable}
    /\ l1 = [t \in Tables |-> NULL]
    /\ mem = [s \in 0 .. SECTION_COUNT |-> 0]
    /\ fd_count = [f \in Files |-> 0] /\ heap = 0 /\ released = {}
    /\ ttbr = KernelTable /\ cpu = "boot" /\ panic = "none"
    /\ last_exit = NoExit

\* scheduler_start: init gets the first free section and table and three
\* descriptors of one tty file, then runs EXEC of /bin/init, which opens and
\* releases a second file.
SchedulerStart ==
    LET s == FirstFree(Sections, sections)
        t == FirstFree(Tables, tables)
        init == [id |-> INIT_PROC_ID, parent_id |-> 0, status |-> "SCHEDULED",
                 wait_pid |-> 0, wstatus_ref |-> NULL, wstatus |-> 0,
                 r0 |-> ARGV_POINTER, section |-> s, table |-> t,
                 files |-> [fd \in Fds |-> IF fd \in StdFds THEN TTY ELSE NULL]]
    IN  /\ cpu = "boot" /\ HEAP_CAPACITY >= 2
        /\ processes' = [i \in {0} |-> init]
        /\ proc_count' = 1 /\ id_gen' = id_gen + 1
        /\ sections' = sections \cup {s} /\ tables' = tables \cup {t}
        /\ l1' = [l1 EXCEPT ![t] = s]
        /\ mem' = [mem EXCEPT ![s] = 0]
        /\ fd_count' = [fd_count EXCEPT ![TTY] = 3]
        /\ heap' = 2 /\ released' = {2}
        /\ SwitchTask(processes', 0)
        /\ UNCHANGED last_exit

\* A mount, the tty or /bin/init is missing: boot ends in a fatal error.
BootFails ==
    /\ cpu = "boot"
    /\ Fatal("boot")
    /\ UNCHANGED <<schedVars, memVars, fileVars, last_exit>>

\* kernel_fatal_error waits for a key and watchdog_reboot resets the machine,
\* which boots again from nothing.
Reboot ==
    /\ cpu = "halted"
    /\ processes' = NoProcesses /\ proc_count' = 0 /\ current_proc' = 0
    /\ id_gen' = 0
    /\ sections' = KernelSections /\ tables' = {KernelTable}
    /\ l1' = [t \in Tables |-> NULL]
    /\ mem' = [s \in 0 .. SECTION_COUNT |-> 0]
    /\ fd_count' = [f \in Files |-> 0] /\ heap' = 0 /\ released' = {}
    /\ ttbr' = KernelTable /\ cpu' = "boot" /\ panic' = "none"
    /\ last_exit' = NoExit

-----------------------------------------------------------------------------
(* Processes: fork, exit, wait, exec                                       *)

\* scheduler_cur_proc_fork on a full table.
ForkFull == proc_count >= SCHEDULER_MAX_TASK_COUNT /\ Trivial(-1)

\* Faulty variant: the child's descriptors are not counted.
ForkedCountsKept == fd_count

\* fd_count once a child holds a copy of every descriptor of its parent.
ForkedCounts ==
    [f \in Files |-> fd_count[f] + Cardinality({fd \in Fds : Cur.files[fd] = f})]

\* scheduler_cur_proc_fork. The child's record is the parent's, with its own
\* pid, section and table; the memory and the open files are copied.
Fork ==
    LET pid == id_gen + 1
        s == FirstFree(Sections, sections)
        t == FirstFree(Tables, tables)
        child == [Cur EXCEPT !.id = pid, !.parent_id = Cur.id, !.r0 = 0,
                             !.section = s, !.table = t]
    IN  /\ cpu = "user"
        /\ proc_count < SCHEDULER_MAX_TASK_COUNT
        /\ id_gen < MaxPid
        /\ IF Sections \subseteq sections \/ Tables \subseteq tables
           THEN Die("alloc_failed")
           ELSE /\ id_gen' = pid /\ proc_count' = proc_count + 1
                /\ Return([i \in 0 .. proc_count |->
                              IF i = proc_count THEN child ELSE processes[i]],
                          pid)
                /\ sections' = sections \cup {s} /\ tables' = tables \cup {t}
                /\ l1' = [l1 EXCEPT ![t] = s]
                /\ mem' = [mem EXCEPT ![s] = mem[Cur.section]]
                /\ fd_count' = ForkedCounts
                /\ last_exit' = NoExit
                /\ UNCHANGED <<heap, released>>

\* Faulty variant: the section is freed but not forgotten.
ExitedProcDangling(status) ==
    [Cur EXCEPT !.status = "EXITED", !.wstatus = status, !.r0 = 0, !.table = NULL]

\* The record left by scheduler_cur_proc_exit and _cleanup_proc_resources.
\* The saved context is dead from here on (r0 is kept at 0) and the files
\* stay open.
ExitedProc(status) ==
    [Cur EXCEPT !.status = "EXITED", !.wstatus = status, !.r0 = 0,
                !.section = NULL, !.table = NULL]

\* Faulty variant: the children keep their parent.
AdoptNone(procs) == procs

\* Its children now belong to init.
Adopt(procs) ==
    [i \in DOMAIN procs |->
        IF procs[i].parent_id = Cur.id
        THEN [procs[i] EXCEPT !.parent_id = INIT_PROC_ID] ELSE procs[i]]

\* Faulty variants: the parent stays suspended; it goes on without its status.
WokenProcSuspended(parent) == [parent EXCEPT !.r0 = Cur.id]
WokenProcNoStatus(parent) ==
    [parent EXCEPT !.status = "SCHEDULED", !.wait_pid = 0, !.wstatus_ref = NULL]

\* The parent's record when it was waiting: rescheduled, r0 = the child's pid.
WokenProc(parent) ==
    [parent EXCEPT !.status = "SCHEDULED", !.wait_pid = 0,
                   !.wstatus_ref = NULL, !.r0 = Cur.id]

\* scheduler_cur_proc_exit, then the switch.
CurProcExit(status) ==
    LET adopted == Adopt([processes EXCEPT ![current_proc] = ExitedProc(status)])
        p == FindProc(adopted, Cur.parent_id)
        parent == adopted[p]
        awaited == parent.status = "SUSPENDED" /\ parent.wait_pid = Cur.id
        woken == [adopted EXCEPT ![p] = WokenProc(parent)]
    IN  /\ cpu = "user"
        /\ IF Cur.id = INIT_PROC_ID THEN Die("init_exited")
           ELSE IF Cur.parent_id \notin Ids(adopted)
           THEN Die("no_parent")
           ELSE /\ sections' = sections \ {Cur.section}
                /\ tables' = tables \ {Cur.table}
                /\ last_exit' = [pid |-> Cur.id, status |-> status]
                /\ IF awaited
                   THEN /\ mem' = [mem EXCEPT ![parent.wstatus_ref] = status]
                        /\ processes' = WithoutIndex(woken, current_proc)
                        /\ proc_count' = proc_count - 1
                        /\ SwitchTask(processes', IndexAfterRemove(current_proc))
                   ELSE /\ processes' = adopted
                        /\ SwitchTask(processes', current_proc)
                        /\ UNCHANGED <<mem, proc_count>>
                /\ UNCHANGED <<id_gen, l1, fileVars>>

\* EXIT; and a data abort taken from user mode, which exits with status 1.
Exit(status) == CurProcExit(status)
DataAbort == CurProcExit(1)

\* What the programs may pass to waitpid.
MayWait(pid) ==
    ChildWaitOnly =>
        \A i \in Indices : processes[i].id = pid => processes[i].parent_id = Cur.id

\* Faulty variant: the virtual address is used as it is, which the kernel's
\* identity mapping takes to the first section of the processes.
StatusRefsUntranslated == {NULL, FirstFree(Sections, KernelSections)}

\* The kernel address of the status word: NULL stays NULL, any other address
\* goes through the process's own translation table.
StatusRefs == {NULL, l1[Cur.table]}

\* scheduler_cur_proc_wait_id on -1 or a pid that is not in the table.
WaitUnknown(pid) == pid \notin Ids(processes) /\ Trivial(-1)

\* ... on a process that has not exited: the caller is suspended.
WaitSuspend(pid, ref) ==
    /\ cpu = "user"
    /\ ref \in StatusRefs
    /\ pid \in Ids(processes) /\ MayWait(pid)
    /\ processes[FindProc(processes, pid)].status # "EXITED"
    /\ Return([processes EXCEPT ![current_proc] =
                 [@ EXCEPT !.status = "SUSPENDED", !.wait_pid = pid,
                           !.wstatus_ref = ref]], 0)
    /\ last_exit' = NoExit
    /\ UNCHANGED <<proc_count, id_gen, memVars, fileVars>>

\* The checks between _remove_process and the return of WAITPID.
ReapFailure(k) ==
    LET after == WithoutIndex(processes, k)
        index == IndexAfterRemove(k)
    IN  IF processes[k].section # NULL \/ processes[k].table # NULL
        THEN "removed_with_resources"
        ELSE IF index \notin DOMAIN after THEN "index_beyond_proc_count"
        ELSE IF after[index].id # Cur.id THEN "assert_syscall_is_exit"
        ELSE "none"

\* ... on a process that has exited: its status is stored and its slot freed.
WaitReap(pid, ref) ==
    LET k == FindProc(processes, pid)
        after == WithoutIndex(processes, k)
    IN  /\ cpu = "user"
        /\ ref \in StatusRefs
        /\ pid \in Ids(processes) /\ MayWait(pid)
        /\ processes[k].status = "EXITED"
        /\ mem' = [mem EXCEPT ![ref] = processes[k].wstatus]
        /\ proc_count' = proc_count - 1
        /\ IF ReapFailure(k) = "none"
           THEN Return(after, pid)
           ELSE /\ Fatal(ReapFailure(k))
                /\ processes' = after
                /\ UNCHANGED current_proc
        /\ last_exit' = NoExit
        /\ UNCHANGED <<id_gen, sections, tables, l1, fileVars>>

\* elf32_open fails because vfs_file_open does.
ExecNoFile == Trivial(-1)

\* Faulty variant: the allocator does not notice that the heap is full.
ExecUnchecked(loaded) ==
    /\ cpu = "user"
    /\ heap' = heap + 1 /\ released' = released \cup {heap + 1}
    /\ Return(processes, IF loaded THEN ARGV_POINTER ELSE -1)
    /\ last_exit' = NoExit
    /\ UNCHANGED <<proc_count, id_gen, memVars, fd_count>>

\* EXEC with a file: one file object is opened and released again. A bad
\* header returns -1; otherwise the section is zeroed, the segments of the file
\* are read into it and the context is reset, r0 being the argv pointer.
Exec(loaded) ==
    /\ cpu = "user"
    /\ IF heap = HEAP_CAPACITY THEN Die("heap_exhausted")
       ELSE /\ heap' = heap + 1 /\ released' = released \cup {heap + 1}
            /\ mem' \in IF loaded
                        THEN Writes([mem EXCEPT ![Cur.section] = 0], l1[Cur.table])
                        ELSE {mem}
            /\ Return(processes, IF loaded THEN ARGV_POINTER ELSE -1)
            /\ last_exit' = NoExit
            /\ UNCHANGED <<proc_count, id_gen, sections, tables, l1, fd_count>>

-----------------------------------------------------------------------------
(* File descriptors                                                        *)

\* OPEN: vfs_file_open allocates a file object, which then takes the lowest
\* free descriptor. Without one the file is closed again.
Open ==
    LET f == heap + 1
        free == {fd \in Fds : Cur.files[fd] = NULL}
    IN  /\ cpu = "user"
        /\ IF heap = HEAP_CAPACITY THEN Die("heap_exhausted")
           ELSE /\ heap' = f
                /\ IF free = {}
                   THEN /\ released' = released \cup {f}
                        /\ Return(processes, -1)
                        /\ UNCHANGED fd_count
                   ELSE /\ fd_count' = [fd_count EXCEPT ![f] = 1]
                        /\ Return([processes EXCEPT
                                     ![current_proc].files[Least(free)] = f],
                                  Least(free))
                        /\ UNCHANGED released
                /\ last_exit' = NoExit
                /\ UNCHANGED <<proc_count, id_gen, memVars>>

\* OPEN when vfs_file_open finds nothing to open.
OpenFails == Trivial(-1)

\* CLOSE: drop the descriptor and release the file, which must have no
\* reference left (default_file_release).
Close(fd) ==
    LET f == Cur.files[fd]
        closed == [processes EXCEPT ![current_proc].files[fd] = NULL]
    IN  /\ cpu = "user" /\ f # NULL
        /\ IF fd_count[f] = 0 THEN Die("assert_fd_count_positive")
           ELSE /\ fd_count' = [fd_count EXCEPT ![f] = @ - 1]
                /\ IF fd_count[f] = 1
                   THEN Return(closed, 0) /\ released' = released \cup {f}
                   ELSE /\ Fatal("assert_fd_count_zero")
                        /\ processes' = closed
                        /\ UNCHANGED <<current_proc, released>>
                /\ last_exit' = NoExit
                /\ UNCHANGED <<proc_count, id_gen, memVars, heap>>

\* READ of the tty: mini_uart_getc spins in the kernel, interrupts disabled.
ReadTty(fd) ==
    /\ cpu = "user" /\ Cur.files[fd] = TTY
    /\ cpu' = "tty" /\ ttbr' = KernelTable
    /\ last_exit' = NoExit
    /\ UNCHANGED <<schedVars, memVars, fileVars, panic>>

\* The operator types: READ returns and the switch follows.
KeyPressed ==
    /\ cpu = "tty"
    /\ mem' \in Writes(mem, l1[Cur.table])
    /\ Return(processes, 1)
    /\ last_exit' = NoExit
    /\ UNCHANGED <<proc_count, id_gen, sections, tables, l1, fileVars>>

\* READ of another file, READDIR, WRITE, LSEEK: -1 without the descriptor,
\* else what the file system returns. The first two write to the buffer.
FileCall(fd, status) ==
    /\ cpu = "user"
    /\ Cur.files[fd] = NULL => status = -1
    /\ mem' \in IF Cur.files[fd] = NULL THEN {mem} ELSE Writes(mem, l1[Cur.table])
    /\ Return(processes, status)
    /\ last_exit' = NoExit
    /\ UNCHANGED <<proc_count, id_gen, sections, tables, l1, fileVars>>

\* CLOSE of a descriptor that is not open.
CloseUnknown(fd) == cpu = "user" /\ Cur.files[fd] = NULL /\ Trivial(-1)

-----------------------------------------------------------------------------
(* The other traps                                                         *)

Yield(arg)          == Trivial(arg)
Getpid              == Trivial(Cur.id)
Getppid             == Trivial(Cur.parent_id)
PathCall(status)    == Trivial(status)           \* MKDIR, MKNOD
InvalidSyscall      == Trivial(-1)

SyscallReboot       == Die("reboot")
SyscallMount        == Die("unsupported")
BadPointer          == Die("unsupported")        \* mmu_translate_virtual_address
ElfFatal            == Die("unsupported")        \* assertions of the loader
UnhandledException  == Die("unsupported")        \* undefined, prefetch abort

\* irq_handler re-arms the timer, then the switch.
TimerIrq ==
    /\ cpu = "user"
    /\ SwitchTask(processes, current_proc)
    /\ last_exit' = NoExit
    /\ UNCHANGED <<processes, proc_count, id_gen, memVars, fileVars>>

\* A store in user mode, through the table the MMU uses.
UserStore(word) ==
    /\ cpu = "user"
    /\ mem' = [mem EXCEPT ![l1[ttbr]] = word]
    /\ last_exit' = NoExit
    /\ UNCHANGED <<schedVars, sections, tables, l1, fileVars, cpuVars>>

-----------------------------------------------------------------------------
ProcessStep ==
    \/ ForkFull \/ Fork
    \/ \E status \in ExitStatuses : Exit(status)
    \/ DataAbort
    \/ \E pid \in {-1} \cup 1 .. MaxPid : WaitUnknown(pid)
    \/ \E pid \in 1 .. MaxPid, ref \in 0 .. SECTION_COUNT :
          WaitSuspend(pid, ref) \/ WaitReap(pid, ref)
    \/ ExecNoFile
    \/ \E loaded \in BOOLEAN : Exec(loaded)

FileStep ==
    \/ Open \/ OpenFails \/ KeyPressed
    \/ \E fd \in Fds : Close(fd) \/ CloseUnknown(fd) \/ ReadTty(fd)
    \/ \E fd \in Fds, status \in {-1, 0} : FileCall(fd, status)
    \/ \E status \in {-1, 0} : PathCall(status)

OtherStep ==
    \/ \E arg \in ExitStatuses : Yield(arg)
    \/ Getpid \/ Getppid \/ InvalidSyscall
    \/ SyscallReboot \/ SyscallMount \/ BadPointer \/ ElfFatal
    \/ UnhandledException \/ TimerIrq
    \/ \E word \in StoredWords : UserStore(word)

Next ==
    \/ SchedulerStart \/ BootFails \/ Reboot
    \/ ProcessStep \/ FileStep \/ OtherStep

Spec == Init /\ [][Next]_vars

(* The timer is re-armed by every interrupt and user mode runs with         *)
(* interrupts enabled, so a process cannot hold the CPU for ever. The       *)
(* operator at the other end of the serial line eventually types.           *)
Fairness == WF_vars(TimerIrq) /\ WF_vars(KeyPressed)
FairSpec == Spec /\ Fairness

-----------------------------------------------------------------------------
(* Properties                                                              *)

Running == cpu \in {"user", "tty"}
Live(i) == processes[i].status # "EXITED"

\* Every variable has its type; the panic reason is set exactly when halted.
TypeOK ==
    /\ proc_count \in 0 .. SCHEDULER_MAX_TASK_COUNT
    /\ processes \in [Indices -> Process]
    /\ current_proc \in Nat
    /\ id_gen \in 0 .. MaxPid
    /\ sections \subseteq Sections /\ tables \subseteq Tables
    /\ l1 \in [Tables -> 0 .. SECTION_COUNT]
    /\ mem \in [0 .. SECTION_COUNT -> Int]
    /\ fd_count \in [Files -> Nat]
    /\ heap \in 0 .. HEAP_CAPACITY /\ released \subseteq Files
    /\ ttbr \in 0 .. TABLE_COUNT
    /\ cpu \in {"boot", "user", "tty", "halted"}
    /\ IF cpu = "halted" THEN panic \in PanicReasons ELSE panic = "none"
    /\ last_exit \in [pid : Nat, status : Int]

\* The table is sorted by pid, init stays alive in slot 0, and no pid is above the
\* generator: removals (the memmove of _remove_process) and appends (fork)
\* keep one slot per pid, and slot order is age order.
TableSorted ==
    /\ Running => proc_count > 0
    /\ proc_count > 0 => /\ processes[0].id = INIT_PROC_ID
                         /\ processes[0].parent_id = 0
                         /\ processes[0].status # "EXITED"
    /\ \A i, j \in Indices : i < j => processes[i].id < processes[j].id
    /\ \A i \in Indices : processes[i].id <= id_gen

\* Before scheduler_start the kernel holds its own resources and no process
\* exists, after a reboot as after power-on.
BootState ==
    cpu = "boot" => /\ proc_count = 0 /\ id_gen = 0 /\ heap = 0
                    /\ sections = KernelSections /\ tables = {KernelTable}

\* Every process but init has a parent that is in the table, older, and not
\* exited: exit hands the children to init before anyone can reap it. This
\* is what "found a non init proc without a parent" guards.
ParentAlive ==
    \A i \in Indices : processes[i].id # INIT_PROC_ID =>
        \E j \in Indices : /\ j < i
                           /\ processes[j].id = processes[i].parent_id
                           /\ Live(j)

\* No lost wake-up: a suspended process waits for a child of its own that has
\* not exited, so some later exit will resume it.
WaitsOnLiveChild ==
    \A i \in Indices : processes[i].status = "SUSPENDED" =>
        \E j \in Indices : /\ processes[j].id = processes[i].wait_pid
                           /\ processes[j].parent_id = processes[i].id
                           /\ Live(j)

\* While the machine runs, current_proc is the index of a scheduled process
\* ("current_proc is scheduled when entering theses functions"), and in user
\* mode the MMU uses that process's table.
CurrentIsScheduled ==
    Running => /\ current_proc \in Indices
               /\ Cur.status = "SCHEDULED"
               /\ ttbr = IF cpu = "user" THEN Cur.table ELSE KernelTable

\* Each live process owns a section and a table, its table maps that section,
\* exited processes own none, and the allocators' bits are exactly the
\* kernel's and the live processes' resources: nothing leaks or is shared.
ResourcesOwned ==
    LET live == {i \in Indices : Live(i)} IN
    /\ \A i \in Indices \ live : processes[i].section = NULL /\ processes[i].table = NULL
    /\ \A i \in live : l1[processes[i].table] = processes[i].section
    /\ \A i, j \in live : i # j => /\ processes[i].section # processes[j].section
                                 /\ processes[i].table # processes[j].table
    /\ \A i \in live : /\ processes[i].section \notin KernelSections
                       /\ processes[i].table # KernelTable
    /\ sections = KernelSections \cup {processes[i].section : i \in live}
    /\ tables = {KernelTable} \cup {processes[i].table : i \in live}

TablePanics == {"no_scheduled_process", "no_parent", "index_beyond_proc_count",
                "assert_syscall_is_exit"}
ResourcePanics == {"alloc_failed", "removed_with_resources",
                   "assert_fd_count_positive"}

\* No sequence of traps reaches a fatal error by which the scheduler checks its
\* process table: some process can always run ("No process to be scheduled"),
\* an exiting process has a parent, and only EXIT makes another one current.
NoTablePanic == panic \notin TablePanics

\* Nor one by which it checks its resources: a slot that is free has a section
\* and a table left to fill it, a removed process holds none, and a descriptor
\* that is closed was counted.
NoResourcePanic == panic \notin ResourcePanics

FdRefs(f) ==
    {r \in Indices \X Fds : Live(r[1]) /\ processes[r[1]].files[r[2]] = f}

\* A file object that some live process can still reach is not released, and
\* its count covers every descriptor: a release never leaves a dangling
\* descriptor behind.
OpenFilesCounted ==
    \A f \in Files : /\ fd_count[f] >= Cardinality(FdRefs(f))
                     /\ FdRefs(f) # {} => f <= heap /\ f \notin released

\* A process leaves SUSPENDED only because the child it waits for exits in
\* that step: its r0 is the child's pid and its status word the exit status.
\* A zombie leaves the table only when its parent's WAITPID collects it.
WaitDelivers == [][
    cpu' = "boot" \/ \A i \in Indices :
    /\ processes[i].status = "SUSPENDED" =>
        \E j \in 0 .. proc_count' - 1 :
            /\ processes'[j].id = processes[i].id
            /\ \/ processes'[j] = [processes[i] EXCEPT !.parent_id = processes'[j].parent_id]
               \/ /\ last_exit'.pid = processes[i].wait_pid
                  /\ processes'[j].status = "SCHEDULED"
                  /\ processes'[j].r0 = processes[i].wait_pid
                  /\ mem'[processes[i].wstatus_ref] = last_exit'.status
    /\ processes[i].status = "EXITED" /\ processes[i].id \notin Ids(processes') =>
        /\ processes[i].parent_id = Cur.id
        /\ \E j \in 0 .. proc_count' - 1 :
              processes'[j].id = Cur.id /\ processes'[j].r0 = processes[i].id
    ]_vars

\* Private memory: the word of a section changes only when the section was
\* free (fork fills it), belongs to the current process, or is the status
\* word of a process that waits for the current one. The kernel checks no
\* length: a buffer that goes beyond its process's section (BuffersInside is
\* FALSE) is written over the sections behind it and over no other, by a call
\* that neither forks, exits nor collects a status.
PrivateMemory == [][
    cpu' = "boot" \/ cpu = "boot" \/ \A s \in Sections : mem'[s] # mem[s] =>
        \/ s \notin sections
        \/ s = Cur.section
        \/ \E i \in Indices : /\ processes[i].section = s
                               /\ processes[i].status = "SUSPENDED"
                               /\ processes[i].wait_pid = Cur.id
                               /\ processes[i].wstatus_ref = s
        \/ /\ ~ BuffersInside /\ s > Cur.section
           /\ proc_count' = proc_count
           /\ \A i \in Indices : processes'[i].status = processes[i].status
    ]_vars

\* No starvation: a process that may run eventually runs, or the machine
\* stops. Every trap is a round-robin switch, and removals shift the table
\* under the index.
NoStarvation ==
    \A pid \in 1 .. MaxPid :
        (\E i \in Indices : processes[i].id = pid /\ processes[i].status = "SCHEDULED")
            ~> (cpu = "halted" \/ (cpu = "user" /\ Cur.id = pid))

(* Statements of the source that the code does not keep (see README).      *)

\* "note: only a direct child can be awaited" (scheduler.c).
OnlyChildAwaited ==
    \A i, j \in Indices :
        processes[i].status = "SUSPENDED" /\ processes[j].id = processes[i].wait_pid
            => processes[j].parent_id = processes[i].id

\* KERNEL_ASSERT(syscall_num == SYSCALL__EXIT): only EXIT makes another
\* process current before the handler returns (syscalls.c).
OnlyExitMovesCurrent == panic # "assert_syscall_is_exit"

\* KERNEL_ASSERT(file->fd_count == 0u): a file is released with no reference
\* left (inode.c).
ReleasedUnreferenced == panic # "assert_fd_count_zero"
=============================================================================
