--------------------------- MODULE SchedulerProofs ---------------------------
(***************************************************************************)
(* Proofs about the module Scheduler, for every number of processes, file  *)
(* descriptors, sections and tables, in three parts:                       *)
(*                                                                         *)
(*  1. the process table: its invariant and the waits;                     *)
(*  2. on top of that invariant, what the traps do to the records of the   *)
(*     table, and from it the sections and translation tables, the private *)
(*     memory of the processes, the counts of the open files and the       *)
(*     delivery of exit statuses;                                          *)
(*  3. the table implements ProcessLifecycle (SchedulerRefinement), and    *)
(*     its processes never all wait for one another. The mapping is first  *)
(*     described by a relation between a table and the lifecycle of its    *)
(*     pids (Shown), so that each step is a fact about two tables and two  *)
(*     lifecycles.                                                         *)
(***************************************************************************)
EXTENDS SchedulerRefinement, FiniteSetTheorems, WellFoundedInduction, TLAPS

-----------------------------------------------------------------------------
(* Least and greatest elements                                             *)

\* Least returns the least element of a nonempty set of naturals: what the
\* scans of _find_proc_by_pid, _select_next_scheduled_proc and
\* bitfield_acquire_first stop at.
LEMMA LeastIsLeast ==
    ASSUME NEW S, S \subseteq Nat, S # {}
    PROVE  Least(S) \in S /\ \A y \in S : Least(S) <= y
<1> DEFINE R == OpToRel(<, Nat)
<1>1. ASSUME NEW x \in Nat, NEW y \in Nat, y < x
      PROVE  <<y, x>> \in R
    BY <1>1, Zenon DEF OpToRel
<1>2. IsWellFoundedOn(R, Nat)
    BY NatLessThanWellFounded
<1> HIDE DEF R
<1>3. PICK x \in S : \A y \in S : ~ (<<y, x>> \in R)
    BY <1>2, WFMin
<1>4. ASSUME NEW y \in S PROVE x <= y
    <2>1. x \in Nat /\ y \in Nat OBVIOUS
    <2>2. ~ (<<y, x>> \in R) BY <1>3
    <2>3. ~ (y < x) BY <2>1, <2>2, <1>1, Zenon
    <2> QED BY <2>1, <2>3
<1> QED BY <1>4 DEF Least

\* A nonempty set of naturals below a bound has a greatest element.
LEMMA GreatestExists ==
    ASSUME NEW n \in Nat, NEW S, S \subseteq 0 .. n, S # {}
    PROVE  \E x \in S : \A y \in S : y <= x
<1> DEFINE T == {m \in Nat : n - m \in S}
<1>1. T \subseteq Nat /\ T # {}
    <2>1. PICK s \in S : TRUE OBVIOUS
    <2>2. n - s \in Nat /\ n - (n - s) = s BY <2>1
    <2> QED BY <2>1, <2>2
<1> HIDE DEF T
<1>2. Least(T) \in T /\ \A y \in T : Least(T) <= y
    BY <1>1, LeastIsLeast
<1>3. n - Least(T) \in S /\ Least(T) \in Nat
    BY <1>2 DEF T
<1>4. ASSUME NEW y \in S PROVE y <= n - Least(T)
    <2>1. n - y \in T BY DEF T
    <2> QED BY <2>1, <1>2, <1>3
<1> QED BY <1>3, <1>4

\* Updating a function at one point keeps its type.
LEMMA ExceptType ==
    ASSUME NEW S, NEW T, NEW f \in [S -> T], NEW k, NEW v \in T
    PROVE  [f EXCEPT ![k] = v] \in [S -> T]
OBVIOUS

-----------------------------------------------------------------------------
(* The switch that ends every trap                                         *)

\* scheduler_switch_task leaves the machine in user mode on a scheduled
\* process of the table, or halts it when there is none.
LEMMA SwitchTaskResult ==
    ASSUME NEW n \in Nat, NEW procs \in [0 .. n - 1 -> Process], NEW cur,
           SwitchTask(procs, cur)
    PROVE  \/ /\ Scheduled(procs) = {}
              /\ cpu' = "halted" /\ panic' = "no_scheduled_process"
              /\ ttbr' = KernelTable /\ current_proc' = cur
           \/ /\ cpu' = "user" /\ panic' = panic
              /\ current_proc' \in 0 .. n - 1
              /\ procs[current_proc'].status = "SCHEDULED"
              /\ ttbr' = procs[current_proc'].table
<1> DEFINE ready == Scheduled(procs)
<1>1. CASE ready = {}
    BY <1>1 DEF SwitchTask, Fatal
<1>2. CASE ready # {}
    <2>1. ready \subseteq Nat BY DEF Scheduled
    <2>2. NextScheduled(ready, cur) \in ready
        <3> HIDE DEF ready
        <3>1. CASE \E i \in ready : i > cur
            <4>1. {i \in ready : i > cur} # {} BY <3>1
            <4>2. {i \in ready : i > cur} \subseteq Nat BY <2>1
            <4>3. Least({i \in ready : i > cur}) \in {i \in ready : i > cur}
                BY <4>1, <4>2, LeastIsLeast
            <4> QED BY <3>1, <4>3 DEF NextScheduled
        <3>2. CASE ~ \E i \in ready : i > cur
            <4>1. Least(ready) \in ready BY <1>2, <2>1, LeastIsLeast
            <4> QED BY <3>2, <4>1 DEF NextScheduled
        <3> QED BY <3>1, <3>2
    <2>3. /\ current_proc' = NextScheduled(ready, cur)
          /\ ttbr' = procs[NextScheduled(ready, cur)].table
          /\ cpu' = "user" /\ panic' = panic
        BY <1>2 DEF SwitchTask
    <2> QED BY <2>2, <2>3 DEF Scheduled
<1> QED BY <1>1, <1>2

-----------------------------------------------------------------------------
(* The inductive invariant                                                 *)

TableInv ==
    /\ TableSorted
    /\ ParentAlive
    /\ ChildWaitOnly => WaitsOnLiveChild

IInv == TypeOK /\ BootState /\ TableInv /\ CurrentIsScheduled

\* A step that changes neither the slots nor pid, parent, status and awaited
\* pid of any process keeps the facts about the table.
LEMMA TableFrame ==
    ASSUME TypeOK, TableInv, proc_count' = proc_count, id_gen' = id_gen,
           Running' => Running,
           \A i \in Indices : /\ processes'[i].id = processes[i].id
                              /\ processes'[i].parent_id = processes[i].parent_id
                              /\ processes'[i].status = processes[i].status
                              /\ processes'[i].wait_pid = processes[i].wait_pid
    PROVE  TableInv'
<1>1. Indices' = Indices
    BY DEF Indices
<1>2. TableSorted'
    <2>1. proc_count \in Nat
        BY DEF TypeOK
    <2>2. proc_count > 0 => 0 \in Indices
        BY <2>1 DEF Indices
    <2> QED BY <1>1, <2>2 DEF TableInv, TableSorted
<1>3. ParentAlive'
    BY <1>1 DEF TableInv, ParentAlive, Live
<1>4. WaitsOnLiveChild => WaitsOnLiveChild'
    BY <1>1 DEF WaitsOnLiveChild, Live
<1> QED BY <1>2, <1>3, <1>4 DEF TableInv

\* Storing a status in r0 of the current process keeps the table's type.
LEMMA SetR0 ==
    ASSUME NEW n \in Nat, NEW procs \in [0 .. n - 1 -> Process],
           NEW k \in 0 .. n - 1, NEW status \in Int
    PROVE  /\ [procs EXCEPT ![k].r0 = status] \in [0 .. n - 1 -> Process]
           /\ \A i \in 0 .. n - 1 :
                 [procs EXCEPT ![k].r0 = status][i]
                    = IF i = k THEN [procs[k] EXCEPT !.r0 = status] ELSE procs[i]
BY DEF Process

\* Return on a table of the right type: the table keeps its type, only the
\* caller's r0 changes, and the switch follows.
LEMMA ReturnResult ==
    ASSUME NEW n \in Nat, NEW procs \in [0 .. n - 1 -> Process],
           current_proc \in 0 .. n - 1, NEW status \in Int,
           Return(procs, status)
    PROVE  /\ processes' \in [0 .. n - 1 -> Process]
           /\ \A i \in 0 .. n - 1 :
                 /\ i # current_proc => processes'[i] = procs[i]
                 /\ processes'[current_proc]
                        = [procs[current_proc] EXCEPT !.r0 = status]
           /\ SwitchTask(processes', current_proc)
<1>1. processes' = [procs EXCEPT ![current_proc].r0 = status]
    BY DEF Return
<1>2. SwitchTask(processes', current_proc)
    BY DEF Return
<1> QED BY <1>1, <1>2, SetR0

\* What a switch gives: the types of the CPU variables and
\* CurrentIsScheduled, for a table that is the next state's.
LEMMA SwitchTaskInv ==
    ASSUME proc_count' \in Nat, processes' \in [0 .. proc_count' - 1 -> Process],
           NEW cur \in Nat, panic = "none", SwitchTask(processes', cur)
    PROVE  /\ current_proc' \in Nat /\ ttbr' \in 0 .. TABLE_COUNT
           /\ cpu' \in {"user", "halted"}
           /\ IF cpu' = "halted" THEN panic' \in PanicReasons ELSE panic' = "none"
           /\ CurrentIsScheduled'
           /\ BootState'
<1>1. \/ /\ cpu' = "halted" /\ panic' = "no_scheduled_process"
         /\ ttbr' = KernelTable /\ current_proc' = cur
      \/ /\ cpu' = "user" /\ panic' = panic
         /\ current_proc' \in 0 .. proc_count' - 1
         /\ processes'[current_proc'].status = "SCHEDULED"
         /\ ttbr' = processes'[current_proc'].table
    BY SwitchTaskResult
<1>2. CASE cpu' = "halted"
    <2>1. panic' \in PanicReasons
        BY <1>1, <1>2 DEF PanicReasons
    <2>2. current_proc' \in Nat /\ ttbr' \in 0 .. TABLE_COUNT
        <3>1. current_proc' = cur /\ ttbr' = KernelTable
          BY <1>1, <1>2
        <3> QED BY <3>1, SizesAssumption DEF KernelTable
    <2>3. CurrentIsScheduled' /\ BootState'
        BY <1>2 DEF CurrentIsScheduled, Running, BootState
    <2> QED BY <1>2, <2>1, <2>2, <2>3
<1>3. CASE cpu' = "user"
    <2>1. processes'[current_proc'] \in Process
        BY <1>1, <1>3
    <2>2. ttbr' \in 0 .. TABLE_COUNT
        BY <1>1, <1>3, <2>1 DEF Process
    <2>3. panic' = "none"
        BY <1>1, <1>3
    <2>4. CurrentIsScheduled' /\ BootState'
        BY <1>1, <1>3 DEF CurrentIsScheduled, Running, BootState, Indices, Cur
    <2> QED BY <1>1, <1>3, <2>2, <2>3, <2>4
<1> QED BY <1>1, <1>2, <1>3

\* A trap that only returns a status keeps the invariant.
LEMMA TrivialInv ==
    ASSUME IInv, NEW status \in Int, Trivial(status)
    PROVE  IInv'
<1>1. /\ cpu = "user" /\ Running /\ panic = "none"
      /\ proc_count \in Nat /\ processes \in [0 .. proc_count - 1 -> Process]
      /\ current_proc \in 0 .. proc_count - 1 /\ current_proc \in Nat
    BY DEF IInv, TypeOK, Trivial, Running, CurrentIsScheduled, Indices
<1>2. /\ Return(processes, status) /\ last_exit' = NoExit
      /\ UNCHANGED <<proc_count, id_gen, memVars, fileVars>>
    BY DEF Trivial
<1>3. /\ processes' \in [0 .. proc_count - 1 -> Process]
      /\ \A i \in 0 .. proc_count - 1 :
            /\ i # current_proc => processes'[i] = processes[i]
            /\ processes'[current_proc]
                   = [processes[current_proc] EXCEPT !.r0 = status]
      /\ SwitchTask(processes', current_proc)
    BY <1>1, <1>2, ReturnResult
<1>4. /\ current_proc' \in Nat /\ ttbr' \in 0 .. TABLE_COUNT
      /\ cpu' \in {"user", "halted"}
      /\ IF cpu' = "halted" THEN panic' \in PanicReasons ELSE panic' = "none"
      /\ CurrentIsScheduled' /\ BootState'
    BY <1>1, <1>2, <1>3, SwitchTaskInv
<1>5. TypeOK'
    <2>1. proc_count' \in 0 .. SCHEDULER_MAX_TASK_COUNT /\ processes' \in [Indices' -> Process]
        BY <1>2, <1>3 DEF IInv, TypeOK, Indices
    <2>2. /\ id_gen' \in 0 .. MaxPid /\ l1' \in [Tables -> 0 .. SECTION_COUNT]
          /\ sections' \subseteq Sections /\ tables' \subseteq Tables
          /\ mem' \in [0 .. SECTION_COUNT -> Int] /\ fd_count' \in [Files -> Nat]
          /\ heap' \in 0 .. HEAP_CAPACITY /\ released' \subseteq Files
        BY <1>2 DEF IInv, TypeOK, memVars, fileVars
    <2>3. last_exit' \in [pid : Nat, status : Int]
        BY <1>2 DEF NoExit
    <2> QED BY <1>4, <2>1, <2>2, <2>3 DEF TypeOK
<1>6. TableInv'
    <2>1. \A i \in Indices : /\ processes'[i].id = processes[i].id
                             /\ processes'[i].parent_id = processes[i].parent_id
                             /\ processes'[i].status = processes[i].status
                             /\ processes'[i].wait_pid = processes[i].wait_pid
        BY <1>1, <1>3 DEF Indices, Process
    <2> QED BY <1>1, <1>2, <2>1, TableFrame DEF IInv
<1> QED BY <1>4, <1>5, <1>6 DEF IInv

\* What the invariant says of a state in user mode, in the form that the
\* following proofs use.
LEMMA UserState ==
    ASSUME IInv, cpu \in {"user", "tty"}
    PROVE  /\ Running /\ panic = "none"
           /\ proc_count \in Nat /\ processes \in [0 .. proc_count - 1 -> Process]
           /\ current_proc \in 0 .. proc_count - 1 /\ current_proc \in Nat
           /\ Cur \in Process /\ Cur.status = "SCHEDULED"
BY DEF IInv, TypeOK, Running, CurrentIsScheduled, Indices, Cur

\* A trap that ends in kernel_fatal_error keeps the invariant.
LEMMA DieInv ==
    ASSUME IInv, NEW reason \in PanicReasons, Die(reason)
    PROVE  IInv'
<1>1. /\ cpu' = "halted" /\ panic' = reason /\ ttbr' = KernelTable
      /\ last_exit' = NoExit /\ UNCHANGED <<schedVars, memVars, fileVars>>
    BY DEF Die, Fatal
<1>2. TypeOK'
    BY <1>1, SizesAssumption
            DEF IInv, TypeOK, KernelTable, NoExit, schedVars, memVars, fileVars,
                Indices
<1>3. TableInv'
    <2>1. proc_count' = proc_count /\ id_gen' = id_gen /\ processes' = processes
        BY <1>1 DEF schedVars
    <2>2. ~ Running' BY <1>1 DEF Running
    <2> QED BY <2>1, <2>2, TableFrame DEF IInv
<1>4. CurrentIsScheduled' /\ BootState'
    BY <1>1 DEF CurrentIsScheduled, BootState, Running
<1> QED BY <1>2, <1>3, <1>4 DEF IInv

\* A trap that returns a status and changes, besides r0, at most the files of
\* the current process in the table.
LEMMA ReturnInv ==
    ASSUME IInv, cpu \in {"user", "tty"},
           NEW procs \in [0 .. proc_count - 1 -> Process], NEW status \in Int,
           \A i \in 0 .. proc_count - 1 :
                /\ procs[i].id = processes[i].id
                /\ procs[i].parent_id = processes[i].parent_id
                /\ procs[i].status = processes[i].status
                /\ procs[i].wait_pid = processes[i].wait_pid,
           Return(procs, status),
           UNCHANGED <<proc_count, id_gen, sections, tables, l1>>,
           last_exit' = NoExit,
           mem' \in [0 .. SECTION_COUNT -> Int],
           fd_count' \in [Files -> Nat], heap' \in 0 .. HEAP_CAPACITY,
           released' \subseteq Files
    PROVE  IInv'
<1>1. /\ Running /\ panic = "none" /\ proc_count \in Nat
      /\ current_proc \in 0 .. proc_count - 1 /\ current_proc \in Nat
    BY UserState
<1>2. /\ processes' \in [0 .. proc_count - 1 -> Process]
      /\ \A i \in 0 .. proc_count - 1 :
            /\ i # current_proc => processes'[i] = procs[i]
            /\ processes'[current_proc]
                   = [procs[current_proc] EXCEPT !.r0 = status]
      /\ SwitchTask(processes', current_proc)
    BY <1>1, ReturnResult
<1>3. /\ current_proc' \in Nat /\ ttbr' \in 0 .. TABLE_COUNT
      /\ cpu' \in {"user", "halted"}
      /\ IF cpu' = "halted" THEN panic' \in PanicReasons ELSE panic' = "none"
      /\ CurrentIsScheduled' /\ BootState'
    BY <1>1, <1>2, SwitchTaskInv
<1>4. TypeOK'
    <2>1. proc_count' \in 0 .. SCHEDULER_MAX_TASK_COUNT /\ processes' \in [Indices' -> Process]
        BY <1>2 DEF IInv, TypeOK, Indices
    <2>2. /\ id_gen' \in 0 .. MaxPid /\ l1' \in [Tables -> 0 .. SECTION_COUNT]
          /\ sections' \subseteq Sections /\ tables' \subseteq Tables
        BY DEF IInv, TypeOK
    <2>3. last_exit' \in [pid : Nat, status : Int]
        BY DEF NoExit
    <2> QED BY <1>3, <2>1, <2>2, <2>3 DEF TypeOK
<1>5. TableInv'
    <2>1. \A i \in Indices : /\ processes'[i].id = processes[i].id
                             /\ processes'[i].parent_id = processes[i].parent_id
                             /\ processes'[i].status = processes[i].status
                             /\ processes'[i].wait_pid = processes[i].wait_pid
        <3>1. ASSUME NEW i \in 0 .. proc_count - 1
              PROVE  /\ processes'[i].id = procs[i].id
                     /\ processes'[i].parent_id = procs[i].parent_id
                     /\ processes'[i].status = procs[i].status
                     /\ processes'[i].wait_pid = procs[i].wait_pid
            <4>1. procs[i] \in Process OBVIOUS
            <4>2. CASE i = current_proc
                BY <1>2, <4>1, <4>2 DEF Process
            <4> QED BY <1>2, <4>2
        <3> QED BY <3>1 DEF Indices
    <2> QED BY <1>1, <2>1, TableFrame DEF IInv
<1> QED BY <1>3, <1>4, <1>5 DEF IInv

\* Writing a descriptor of a process keeps the rest of its record.
LEMMA SetFile ==
    ASSUME NEW n \in Nat, NEW procs \in [0 .. n - 1 -> Process],
           NEW k \in 0 .. n - 1, NEW fd \in Fds, NEW f \in 0 .. HEAP_CAPACITY
    PROVE  LET new == [procs EXCEPT ![k].files[fd] = f] IN
           /\ new \in [0 .. n - 1 -> Process]
           /\ \A i \in 0 .. n - 1 :
                 /\ new[i].id = procs[i].id
                 /\ new[i].parent_id = procs[i].parent_id
                 /\ new[i].status = procs[i].status
                 /\ new[i].wait_pid = procs[i].wait_pid
<1> DEFINE fs == [procs[k].files EXCEPT ![fd] = f]
           rec == [procs[k] EXCEPT !.files = fs]
           new == [procs EXCEPT ![k] = rec]
<1>1. procs[k].files \in [Fds -> 0 .. HEAP_CAPACITY]
    BY DEF Process
<1>2. fs \in [Fds -> 0 .. HEAP_CAPACITY]
    BY <1>1
<1> HIDE DEF fs
<1>3. /\ rec \in Process
      /\ rec.id = procs[k].id /\ rec.parent_id = procs[k].parent_id
      /\ rec.status = procs[k].status /\ rec.wait_pid = procs[k].wait_pid
    BY <1>2 DEF Process
<1> HIDE DEF rec
<1>4. /\ new \in [0 .. n - 1 -> Process]
      /\ \A i \in 0 .. n - 1 : new[i] = IF i = k THEN rec ELSE procs[i]
    BY <1>3
<1>5. new = [procs EXCEPT ![k].files[fd] = f]
    BY DEF new, rec, fs
<1> HIDE DEF new
<1> QED BY <1>3, <1>4, <1>5

\* A buffer that the kernel writes holds words.
LEMMA WritesType ==
    ASSUME NEW m \in [0 .. SECTION_COUNT -> Int], NEW first, NEW w \in Writes(m, first)
    PROVE  w \in [0 .. SECTION_COUNT -> Int]
<1>1. ASSUME NEW last \in LastSections(first), NEW word \in StoredWords,
             w = [s \in 0 .. SECTION_COUNT |-> IF s \in first .. last THEN word ELSE m[s]]
      PROVE  w \in [0 .. SECTION_COUNT -> Int]
    <2>1. word \in Int BY ProgramsAssumption
    <2> QED BY <1>1, <2>1
<1> QED BY <1>1 DEF Writes

\* OPEN, CLOSE, EXEC, the end of a tty READ and the calls on other files keep
\* the invariant.
LEMMA FileCallsInv ==
    ASSUME IInv,
           Open \/ (\E fd \in Fds : Close(fd)) \/ (\E b \in BOOLEAN : Exec(b))
             \/ KeyPressed
             \/ (\E fd \in Fds, status \in {-1, 0} : FileCall(fd, status))
    PROVE  IInv'
<1>1. ASSUME cpu \in {"user", "tty"}
      PROVE  /\ proc_count \in Nat
             /\ processes \in [0 .. proc_count - 1 -> Process]
             /\ current_proc \in 0 .. proc_count - 1
             /\ Cur \in Process
    BY <1>1, UserState
<1>2. /\ mem \in [0 .. SECTION_COUNT -> Int] /\ fd_count \in [Files -> Nat]
      /\ heap \in 0 .. HEAP_CAPACITY /\ released \subseteq Files
      /\ HEAP_CAPACITY \in Nat
    BY SizesAssumption DEF IInv, TypeOK
<1>3. ASSUME NEW st \in Int,
             (KeyPressed /\ st = 1) \/ \E fd \in Fds : FileCall(fd, st)
      PROVE  IInv'
    <2>1. /\ cpu \in {"user", "tty"} /\ Return(processes, st) /\ last_exit' = NoExit
          /\ mem' = mem \/ mem' \in Writes(mem, l1[Cur.table])
          /\ UNCHANGED <<proc_count, id_gen, sections, tables, l1, fileVars>>
        BY <1>3 DEF KeyPressed, FileCall
    <2>2. mem' \in [0 .. SECTION_COUNT -> Int]
        BY <1>2, <2>1, WritesType
    <2> QED BY <1>1, <1>2, <2>1, <2>2, ReturnInv DEF fileVars
<1>4. ASSUME NEW b \in BOOLEAN, Exec(b) PROVE IInv'
    <2>1. CASE heap = HEAP_CAPACITY
        BY <1>4, <2>1, DieInv DEF Exec, PanicReasons
    <2>2. CASE heap # HEAP_CAPACITY
        <3>1. heap + 1 \in Files /\ heap' = heap + 1
            BY <1>2, <1>4, <2>2 DEF Exec, Files
        <3>2. heap' \in 0 .. HEAP_CAPACITY /\ released' \subseteq Files
            <4>1. released' = released \cup {heap + 1}
                BY <1>4, <2>2 DEF Exec
            <4>2. heap' \in 0 .. HEAP_CAPACITY
                BY <1>2, <3>1 DEF Files
            <4> QED BY <1>2, <3>1, <4>1, <4>2
        <3>3. mem' \in [0 .. SECTION_COUNT -> Int]
            <4> DEFINE zeroed == [mem EXCEPT ![Cur.section] = 0]
            <4>1. mem' = mem \/ mem' \in Writes(zeroed, l1[Cur.table])
                BY <1>4, <2>2 DEF Exec
            <4>2. zeroed \in [0 .. SECTION_COUNT -> Int]
                <5>1. ASSUME NEW S, NEW f \in [S -> Int], NEW c, NEW v \in Int
                      PROVE  [f EXCEPT ![c] = v] \in [S -> Int]
                    OBVIOUS
                <5>2. 0 \in Int
                    OBVIOUS
                <5> QED BY <1>2, <5>1, <5>2
            <4> HIDE DEF zeroed
            <4> QED BY <1>2, <4>1, <4>2, WritesType
        <3>4. (IF b THEN ARGV_POINTER ELSE -1) \in Int
            BY DEF ARGV_POINTER
        <3> HIDE DEF ARGV_POINTER
        <3> QED BY <1>1, <1>2, <1>4, <2>2, <3>2, <3>3, <3>4, ReturnInv DEF Exec
    <2> QED BY <2>1, <2>2
<1>5. CASE Open
    <2> DEFINE free == {fd \in Fds : Cur.files[fd] = NULL}
               fd == Least(free)
               opened == [processes EXCEPT ![current_proc].files[fd] = heap + 1]
    <2>1. CASE heap = HEAP_CAPACITY
        BY <1>5, <2>1, DieInv DEF Open, PanicReasons
    <2>2. CASE heap # HEAP_CAPACITY /\ free = {}
        <3>1. heap + 1 \in Files
            BY <1>2, <2>2 DEF Files
        <3>2. heap' \in 0 .. HEAP_CAPACITY /\ released' \subseteq Files
            BY <1>2, <1>5, <2>2, <3>1 DEF Open, Files
        <3>3. /\ Return(processes, -1) /\ fd_count' = fd_count /\ last_exit' = NoExit
              /\ UNCHANGED <<proc_count, id_gen, sections, tables, l1, mem>>
              /\ cpu \in {"user", "tty"}
            BY <1>5, <2>2 DEF Open, memVars
        <3>4. PICK m \in Int : m = -1
            OBVIOUS
        <3>5. Return(processes, m) /\ mem' \in [0 .. SECTION_COUNT -> Int]
              /\ fd_count' \in [Files -> Nat]
            BY <1>2, <3>3, <3>4
        <3> QED BY <1>1, <3>2, <3>3, <3>5, ReturnInv
    <2>3. CASE heap # HEAP_CAPACITY /\ free # {}
        <3>1. heap + 1 \in Files /\ heap + 1 \in Nat /\ heap' = heap + 1
            BY <1>2, <1>5, <2>3 DEF Files, Open
        <3>2. heap' \in 0 .. HEAP_CAPACITY /\ released' \subseteq Files
            BY <1>2, <1>5, <2>3, <3>1 DEF Open, Files
        <3>3. fd_count' \in [Files -> Nat]
            BY <1>2, <1>5, <2>3 DEF Open
        <3>4. free \subseteq Nat
            BY SizesAssumption DEF Fds
        <3>5. fd \in free
            <4> HIDE DEF free
            <4> QED BY <2>3, <3>4, LeastIsLeast
        <3>6. fd \in Fds /\ fd \in Int
            BY <3>4, <3>5
        <3> HIDE DEF fd, free
        <3>7. /\ opened \in [0 .. proc_count - 1 -> Process]
              /\ \A i \in 0 .. proc_count - 1 :
                    /\ opened[i].id = processes[i].id
                    /\ opened[i].parent_id = processes[i].parent_id
                    /\ opened[i].status = processes[i].status
                    /\ opened[i].wait_pid = processes[i].wait_pid
            <4>1. heap + 1 \in 0 .. HEAP_CAPACITY
                BY <1>2, <3>1 DEF Files
            <4>2. cpu = "user" BY <1>5 DEF Open
            <4> QED BY <1>1, <3>6, <4>1, <4>2, SetFile
        <3>8. Return(opened, fd)
            BY <1>5, <2>3 DEF Open, free, fd
        <3> HIDE DEF opened
        <3> QED BY <1>2, <1>5, <2>3, <3>2, <3>3, <3>6, <3>7, <3>8, ReturnInv
                DEF Open, memVars
    <2> QED BY <2>1, <2>2, <2>3
<1>6. ASSUME NEW fd \in Fds, Close(fd) PROVE IInv'
    <2> DEFINE f == Cur.files[fd]
               closed == [processes EXCEPT ![current_proc].files[fd] = NULL]
    <2>0. cpu = "user" /\ f \in Files
        <3>1. cpu = "user" /\ f # 0
            BY <1>6 DEF Close, NULL
        <3>2. Cur.files \in [Fds -> 0 .. HEAP_CAPACITY]
            BY <1>1, <3>1 DEF Process
        <3>3. f \in 0 .. HEAP_CAPACITY
            BY <3>2
        <3> QED BY <1>2, <3>1, <3>3 DEF Files
    <2>1. CASE fd_count[f] = 0
        BY <1>6, <2>1, DieInv DEF Close, PanicReasons
    <2>2. CASE fd_count[f] # 0
        <3>1. /\ closed \in [0 .. proc_count - 1 -> Process]
              /\ \A i \in 0 .. proc_count - 1 :
                    /\ closed[i].id = processes[i].id
                    /\ closed[i].parent_id = processes[i].parent_id
                    /\ closed[i].status = processes[i].status
                    /\ closed[i].wait_pid = processes[i].wait_pid
            <4>1. NULL \in 0 .. HEAP_CAPACITY
                BY <1>2 DEF NULL
            <4>2. /\ proc_count \in Nat
                  /\ processes \in [0 .. proc_count - 1 -> Process]
                  /\ current_proc \in 0 .. proc_count - 1
                BY <1>1, <2>0
            <4> HIDE DEF f
            <4> QED BY <4>1, <4>2, SetFile
        <3>2. fd_count' \in [Files -> Nat]
            <4>1. fd_count' = [fd_count EXCEPT ![f] = @ - 1]
                BY <1>6, <2>2 DEF Close
            <4>2. fd_count[f] - 1 \in Nat
                BY <1>2, <2>0, <2>2
            <4> HIDE DEF f
            <4> QED BY <1>2, <4>1, <4>2
        <3>3. CASE fd_count[f] = 1
            <4>1. Return(closed, 0) /\ released' = released \cup {f}
                BY <1>6, <2>2, <3>3 DEF Close
            <4>2. released' \subseteq Files
                BY <1>2, <2>0, <4>1
            <4>3. /\ UNCHANGED <<proc_count, id_gen, sections, tables, l1, mem, heap>>
                  /\ last_exit' = NoExit
                BY <1>6, <2>2 DEF Close, memVars
            <4>4. /\ mem' \in [0 .. SECTION_COUNT -> Int]
                  /\ heap' \in 0 .. HEAP_CAPACITY
                  /\ UNCHANGED <<proc_count, id_gen, sections, tables, l1>>
                  /\ 0 \in Int
                BY <1>2, <4>3
            <4> HIDE DEF closed, f
            <4> QED BY <2>0, <3>1, <3>2, <4>1, <4>2, <4>3, <4>4, ReturnInv
        <3>4. CASE fd_count[f] # 1
            <4>1. /\ Fatal("assert_fd_count_zero")
                  /\ processes' = closed /\ UNCHANGED <<current_proc, released>>
                  /\ UNCHANGED <<proc_count, id_gen, sections, tables, l1, mem, heap>>
                  /\ last_exit' = NoExit
                BY <1>6, <2>2, <3>4 DEF Close, memVars
            <4> HIDE DEF closed, f
            <4>2. TypeOK'
                <5>1. /\ cpu' = "halted" /\ panic' \in PanicReasons /\ ttbr' \in 0 .. TABLE_COUNT
                    BY <4>1, SizesAssumption DEF Fatal, PanicReasons, KernelTable
                <5>2. processes' \in [Indices' -> Process]
                    BY <3>1, <4>1 DEF Indices
                <5>3. last_exit' \in [pid : Nat, status : Int]
                    BY <4>1 DEF NoExit
                <5> QED BY <3>2, <4>1, <5>1, <5>2, <5>3 DEF IInv, TypeOK
            <4>3. ~ Running' /\ cpu' # "boot"
                BY <4>1 DEF Fatal, Running
            <4>4. TableInv'
                BY <3>1, <4>1, <4>3, TableFrame DEF IInv, Indices
            <4> QED BY <4>2, <4>3, <4>4 DEF IInv, CurrentIsScheduled, BootState
        <3> QED BY <3>3, <3>4
    <2> QED BY <2>1, <2>2
<1> QED BY <1>3, <1>4, <1>5, <1>6

-----------------------------------------------------------------------------
(* Traps that leave the table alone                                        *)

\* The timer, a user store, a tty READ that starts to wait, a failed boot and
\* a reboot keep the invariant.
LEMMA QuietInv ==
    ASSUME IInv,
           \/ TimerIrq \/ (\E w \in StoredWords : UserStore(w))
           \/ (\E fd \in Fds : ReadTty(fd)) \/ BootFails \/ Reboot
    PROVE  IInv'
<1>1. CASE TimerIrq
    <2>1. /\ Running /\ panic = "none"
          /\ proc_count \in Nat /\ processes \in [0 .. proc_count - 1 -> Process]
          /\ current_proc \in Nat
        BY <1>1, UserState DEF TimerIrq
    <2>2. /\ SwitchTask(processes', current_proc) /\ last_exit' = NoExit
          /\ UNCHANGED <<processes, proc_count, id_gen, memVars, fileVars>>
        BY <1>1 DEF TimerIrq
    <2>3. /\ current_proc' \in Nat /\ ttbr' \in 0 .. TABLE_COUNT
          /\ cpu' \in {"user", "halted"}
          /\ IF cpu' = "halted" THEN panic' \in PanicReasons ELSE panic' = "none"
          /\ CurrentIsScheduled' /\ BootState'
        BY <2>1, <2>2, SwitchTaskInv
    <2>4. TypeOK'
        BY <2>2, <2>3 DEF IInv, TypeOK, Indices, memVars, fileVars, NoExit
    <2>5. TableInv'
        BY <2>1, <2>2, TableFrame DEF IInv
    <2> QED BY <2>3, <2>4, <2>5 DEF IInv
<1>2. ASSUME NEW w \in StoredWords, UserStore(w) PROVE IInv'
    <2>1. /\ cpu = "user" /\ last_exit' = NoExit
          /\ mem' = [mem EXCEPT ![l1[ttbr]] = w]
          /\ UNCHANGED <<schedVars, sections, tables, l1, fileVars, cpuVars>>
        BY <1>2 DEF UserStore
    <2>2. w \in Int BY ProgramsAssumption
    <2>3. TypeOK'
        <3>1. mem \in [0 .. SECTION_COUNT -> Int]
            BY DEF IInv, TypeOK
        <3>2. mem' \in [0 .. SECTION_COUNT -> Int]
            BY <2>1, <2>2, <3>1
        <3>3. last_exit' \in [pid : Nat, status : Int]
            BY <2>1 DEF NoExit
        <3> QED BY <2>1, <3>2, <3>3
                DEF IInv, TypeOK, Indices, schedVars, fileVars, cpuVars
    <2>4. TableInv'
        BY <2>1, TableFrame DEF IInv, schedVars, cpuVars, Running
    <2> QED BY <2>1, <2>3, <2>4
            DEF IInv, CurrentIsScheduled, BootState, Running, Indices, Cur,
                schedVars, cpuVars
<1>3. ASSUME NEW fd \in Fds, ReadTty(fd) PROVE IInv'
    <2>1. /\ cpu = "user" /\ cpu' = "tty" /\ ttbr' = KernelTable
          /\ last_exit' = NoExit
          /\ UNCHANGED <<schedVars, memVars, fileVars, panic>>
        BY <1>3 DEF ReadTty
    <2>2. TypeOK'
        BY <2>1, SizesAssumption
                DEF IInv, TypeOK, Indices, schedVars, memVars, fileVars, NoExit,
                    KernelTable
    <2>3. TableInv'
        BY <2>1, TableFrame DEF IInv, schedVars, Running
    <2> QED BY <2>1, <2>2, <2>3
            DEF IInv, CurrentIsScheduled, BootState, Running, Indices, Cur,
                schedVars
<1>4. CASE BootFails
    <2>1. /\ cpu' = "halted" /\ panic' = "boot" /\ ttbr' = KernelTable
          /\ UNCHANGED <<schedVars, memVars, fileVars, last_exit>>
        BY <1>4 DEF BootFails, Fatal
    <2>2. TypeOK'
        BY <2>1, SizesAssumption
                DEF IInv, TypeOK, Indices, schedVars, memVars, fileVars,
                    KernelTable, PanicReasons
    <2>3. TableInv'
        BY <2>1, TableFrame DEF IInv, schedVars, Running
    <2> QED BY <2>1, <2>2, <2>3
            DEF IInv, CurrentIsScheduled, BootState, Running
<1>5. CASE Reboot
    <2>1. TypeOK'
        BY <1>5, SizesAssumption
        DEF Reboot, TypeOK, Indices, NoProcesses, KernelSections, KernelTable,
            Sections, Tables, Files, NULL, NoExit
    <2>2. proc_count' = 0 /\ Indices' = {} /\ cpu' = "boot"
        BY <1>5 DEF Reboot, Indices
    <2>3. TableInv'
        BY <2>2 DEF TableInv, TableSorted, ParentAlive, WaitsOnLiveChild, Running
    <2>4. CurrentIsScheduled' /\ BootState'
        BY <1>5 DEF Reboot, CurrentIsScheduled, BootState, Running
    <2> QED BY <2>1, <2>3, <2>4 DEF IInv
<1> QED BY <1>1, <1>2, <1>3, <1>4, <1>5

\* The initial state satisfies the invariant.
LEMMA InitInv == Init => IInv
<1> SUFFICES ASSUME Init PROVE IInv
    OBVIOUS
<1>1. TypeOK
    BY SizesAssumption
    DEF Init, TypeOK, Indices, NoProcesses, KernelSections, KernelTable,
        Sections, Tables, Files, NULL, NoExit
<1>2. proc_count = 0 /\ Indices = {} /\ cpu = "boot"
    BY DEF Init, Indices
<1>3. TableInv
    BY <1>2 DEF TableInv, TableSorted, ParentAlive, WaitsOnLiveChild, Running
<1>4. CurrentIsScheduled /\ BootState
    BY DEF Init, CurrentIsScheduled, BootState, Running
<1> QED BY <1>1, <1>3, <1>4 DEF IInv

\* The first free element of an allocator that is not exhausted.
LEMMA FirstFreeIn ==
    ASSUME NEW n \in Nat, NEW used, ~ (1 .. n \subseteq used)
    PROVE  FirstFree(1 .. n, used) \in (1 .. n) \ used
BY LeastIsLeast DEF FirstFree

\* scheduler_start establishes the invariant.
LEMMA StartInv ==
    ASSUME IInv, SchedulerStart
    PROVE  IInv'
<1> DEFINE s == FirstFree(Sections, sections)
           t == FirstFree(Tables, tables)
<1>1. /\ cpu = "boot" /\ panic = "none" /\ HEAP_CAPACITY >= 2
      /\ sections = 1 .. 4 /\ tables = {1} /\ id_gen = 0
    BY DEF SchedulerStart, IInv, BootState, TypeOK, KernelSections, KernelTable
<1>2. s \in Sections /\ t \in Tables
    <2>1. 5 \in Sections /\ 2 \in Tables
        BY SizesAssumption DEF Sections, Tables
    <2>2. ~ (Sections \subseteq sections) /\ ~ (Tables \subseteq tables)
        BY <1>1, <2>1
    <2> QED BY <2>2, FirstFreeIn, SizesAssumption DEF Sections, Tables
<1> HIDE DEF s, t
<1>3. PICK init \in Process :
        /\ init.id = 1 /\ init.parent_id = 0 /\ init.status = "SCHEDULED"
        /\ processes' = [i \in {0} |-> init]
    <2> DEFINE fs == [fd \in Fds |-> IF fd \in StdFds THEN TTY ELSE NULL]
               init == [id |-> INIT_PROC_ID, parent_id |-> 0,
                        status |-> "SCHEDULED", wait_pid |-> 0,
                        wstatus_ref |-> NULL, wstatus |-> 0,
                        r0 |-> ARGV_POINTER, section |-> s, table |-> t,
                        files |-> fs]
    <2>1. fs \in [Fds -> 0 .. HEAP_CAPACITY]
        BY SizesAssumption DEF TTY, NULL
    <2>2. s \in 0 .. SECTION_COUNT /\ t \in 0 .. TABLE_COUNT
        BY <1>2 DEF Sections, Tables
    <2>3. processes' = [i \in {0} |-> init]
        BY DEF SchedulerStart, s, t
    <2> HIDE DEF fs
    <2>4. init \in Process
        BY <2>1, <2>2, SizesAssumption
        DEF Process, Statuses, INIT_PROC_ID, NULL, ARGV_POINTER
    <2>5. init.id = 1 /\ init.parent_id = 0 /\ init.status = "SCHEDULED"
        BY DEF INIT_PROC_ID
    <2> HIDE DEF init
    <2> QED BY <2>3, <2>4, <2>5
<1>4. /\ proc_count' = 1 /\ id_gen' = 1
      /\ sections' = sections \cup {s} /\ tables' = tables \cup {t}
      /\ l1' = [l1 EXCEPT ![t] = s]
      /\ mem' = [mem EXCEPT ![s] = 0]
      /\ fd_count' = [fd_count EXCEPT ![TTY] = 3]
      /\ heap' = 2 /\ released' = {2}
      /\ SwitchTask(processes', 0) /\ UNCHANGED last_exit
    BY <1>1 DEF SchedulerStart, s, t
<1>5. processes' \in [0 .. proc_count' - 1 -> Process] /\ processes'[0].id = 1
      /\ processes'[0].parent_id = 0 /\ processes'[0].status = "SCHEDULED"
    BY <1>3, <1>4
<1>6. /\ current_proc' \in Nat /\ ttbr' \in 0 .. TABLE_COUNT
      /\ cpu' \in {"user", "halted"}
      /\ IF cpu' = "halted" THEN panic' \in PanicReasons ELSE panic' = "none"
      /\ CurrentIsScheduled' /\ BootState'
    BY <1>1, <1>4, <1>5, SwitchTaskInv
<1>7. TypeOK'
    <2>1. l1' \in [Tables -> 0 .. SECTION_COUNT]
        BY <1>2, <1>4 DEF IInv, TypeOK, Sections
    <2>2. mem' \in [0 .. SECTION_COUNT -> Int] /\ fd_count' \in [Files -> Nat]
        <3>1. mem \in [0 .. SECTION_COUNT -> Int] /\ fd_count \in [Files -> Nat]
            BY DEF IInv, TypeOK
        <3>2. mem' = [mem EXCEPT ![s] = 0] /\ fd_count' = [fd_count EXCEPT ![TTY] = 3]
            BY <1>4
        <3>3. 0 \in Int /\ 3 \in Nat
            OBVIOUS
        <3>4. mem' \in [0 .. SECTION_COUNT -> Int]
            BY <3>1, <3>2, <3>3, ExceptType
        <3>5. fd_count' \in [Files -> Nat]
            BY <3>1, <3>2, <3>3, ExceptType
        <3> QED BY <3>4, <3>5
    <2>3. sections' \subseteq Sections /\ tables' \subseteq Tables
        BY <1>2, <1>4 DEF IInv, TypeOK
    <2>4. heap' \in 0 .. HEAP_CAPACITY /\ released' \subseteq Files
        BY <1>1, <1>4, SizesAssumption DEF Files
    <2>5. /\ proc_count' \in 0 .. SCHEDULER_MAX_TASK_COUNT
          /\ id_gen' \in 0 .. MaxPid
        BY <1>4, SizesAssumption
    <2> QED BY <1>4, <1>5, <1>6, <2>1, <2>2, <2>3, <2>4, <2>5
            DEF IInv, TypeOK, Indices
<1>8. TableInv'
    <2>1. Indices' = {0} BY <1>4 DEF Indices
    <2> QED BY <1>4, <1>5, <2>1
            DEF TableInv, TableSorted, ParentAlive, WaitsOnLiveChild, INIT_PROC_ID
<1> QED BY <1>6, <1>7, <1>8 DEF IInv

-----------------------------------------------------------------------------
(* Traps that change the table                                             *)

\* The pids of the table grow with the slot.
SortedIds(procs, n) ==
    \A i, j \in 0 .. n - 1 : i < j => procs[i].id < procs[j].id

\* _find_proc_by_pid finds the one slot that holds the pid.
LEMMA FindProcIn ==
    ASSUME NEW n \in Nat, NEW procs \in [0 .. n - 1 -> Process],
           NEW pid \in Ids(procs)
    PROVE  /\ FindProc(procs, pid) \in 0 .. n - 1
           /\ procs[FindProc(procs, pid)].id = pid
<1> DEFINE S == {i \in DOMAIN procs : procs[i].id = pid}
<1>1. S \subseteq Nat /\ S # {}
    BY DEF Ids
<1>2. Least(S) \in S
    <2> HIDE DEF S
    <2> QED BY <1>1, LeastIsLeast
<1> QED BY <1>2 DEF FindProc

\* A record of the table with other values of the fields that fork sets.
Forked(c, pid, ppid, r, s, t) ==
    [c EXCEPT !.id = pid, !.parent_id = ppid, !.r0 = r, !.section = s, !.table = t]

\* It is still a record of the table.
LEMMA ForkedRecord ==
    ASSUME NEW c \in Process, NEW pid \in Nat, NEW ppid \in Nat, NEW r \in Int,
           NEW s \in 0 .. SECTION_COUNT, NEW t \in 0 .. TABLE_COUNT
    PROVE  /\ Forked(c, pid, ppid, r, s, t) \in Process
           /\ Forked(c, pid, ppid, r, s, t).id = pid
           /\ Forked(c, pid, ppid, r, s, t).parent_id = ppid
           /\ Forked(c, pid, ppid, r, s, t).status = c.status
<1>1. Forked(c, pid, ppid, r, s, t) \in Process
    BY DEF Forked, Process
<1>2. /\ Forked(c, pid, ppid, r, s, t).id = pid
      /\ Forked(c, pid, ppid, r, s, t).parent_id = ppid
      /\ Forked(c, pid, ppid, r, s, t).status = c.status
    BY DEF Forked, Process
<1> QED BY <1>1, <1>2

\* fork keeps the invariant: the new process is the last slot, its pid the
\* highest, its parent the current process.
LEMMA ForkInv ==
    ASSUME IInv, Fork
    PROVE  IInv'
<1> DEFINE pid == id_gen + 1
           s == FirstFree(Sections, sections)
           t == FirstFree(Tables, tables)
           child == [Cur EXCEPT !.id = pid, !.parent_id = Cur.id, !.r0 = 0,
                                !.section = s, !.table = t]
           refs(f) == Cardinality({fd \in Fds : Cur.files[fd] = f})
           table == [i \in 0 .. proc_count |->
                        IF i = proc_count THEN child ELSE processes[i]]
           n == proc_count + 1
<1>1. /\ Running /\ panic = "none" /\ cpu = "user"
      /\ proc_count \in Nat /\ processes \in [0 .. proc_count - 1 -> Process]
      /\ current_proc \in 0 .. proc_count - 1 /\ current_proc \in Nat
      /\ Cur \in Process /\ Cur.status = "SCHEDULED"
    BY UserState DEF Fork
<1>2. CASE Sections \subseteq sections \/ Tables \subseteq tables
    <2>1. Die("alloc_failed")
        BY <1>2 DEF Fork
    <2> QED BY <2>1, DieInv DEF PanicReasons
<1>3. CASE ~ (Sections \subseteq sections \/ Tables \subseteq tables)
    <2>1. /\ id_gen' = pid /\ proc_count' = n
          /\ Return(table, pid)
          /\ sections' = sections \cup {s} /\ tables' = tables \cup {t}
          /\ l1' = [l1 EXCEPT ![t] = s]
          /\ mem' = [mem EXCEPT ![s] = mem[Cur.section]]
          /\ fd_count' = ForkedCounts
          /\ last_exit' = NoExit
          /\ UNCHANGED <<heap, released>>
          /\ proc_count < SCHEDULER_MAX_TASK_COUNT /\ id_gen < MaxPid
        BY <1>3 DEF Fork
    <2>2. s \in Sections /\ t \in Tables
        BY <1>3, FirstFreeIn, SizesAssumption DEF Sections, Tables
    <2>3. s \in 0 .. SECTION_COUNT /\ t \in 0 .. TABLE_COUNT /\ pid \in Nat
        BY <2>2 DEF Sections, Tables, IInv, TypeOK
    <2> HIDE DEF s, t, refs, pid
    <2>4. /\ child \in Process
          /\ child.id = pid /\ child.parent_id = Cur.id
          /\ child.status = "SCHEDULED"
        <3>1. Cur.id \in Nat
            BY <1>1 DEF Process
        <3>2. PICK ppid \in Nat : ppid = Cur.id
            BY <3>1
        <3>3. child = Forked(Cur, pid, ppid, 0, s, t)
            BY <3>2 DEF Forked
        <3> HIDE DEF child
        <3>4. Cur \in Process /\ Cur.status = "SCHEDULED"
            BY <1>1
        <3>5. ASSUME NEW c \in Process, NEW d \in Nat, NEW S \in 0 .. SECTION_COUNT,
                     NEW T \in 0 .. TABLE_COUNT
              PROVE  /\ Forked(c, d, ppid, 0, S, T) \in Process
                     /\ Forked(c, d, ppid, 0, S, T).id = d
                     /\ Forked(c, d, ppid, 0, S, T).parent_id = ppid
                     /\ Forked(c, d, ppid, 0, S, T).status = c.status
            BY ForkedRecord
        <3>6. Forked(Cur, pid, ppid, 0, s, t) \in Process
            BY <2>3, <3>4, <3>5
        <3>7. Forked(Cur, pid, ppid, 0, s, t).id = pid
            BY <2>3, <3>4, <3>5
        <3>8. Forked(Cur, pid, ppid, 0, s, t).parent_id = ppid
            BY <2>3, <3>4, <3>5
        <3>9. Forked(Cur, pid, ppid, 0, s, t).status = Cur.status
            BY <2>3, <3>4, <3>5
        <3> QED BY <3>2, <3>3, <3>4, <3>6, <3>7, <3>8, <3>9
    <2> HIDE DEF child
    <2>5. /\ table \in [0 .. n - 1 -> Process] /\ n \in Nat
          /\ current_proc \in 0 .. n - 1
          /\ \A i \in 0 .. proc_count - 1 : table[i] = processes[i]
          /\ table[proc_count] = child
        BY <1>1, <2>4
    <2> HIDE DEF table, n
    <2>6. /\ processes' \in [0 .. n - 1 -> Process]
          /\ \A i \in 0 .. n - 1 :
                /\ i # current_proc => processes'[i] = table[i]
                /\ processes'[current_proc] = [table[current_proc] EXCEPT !.r0 = pid]
          /\ SwitchTask(processes', current_proc)
        <3>1. Return(table, pid) /\ pid \in Int
            BY <2>1, <2>3
        <3> QED BY <2>5, <3>1, ReturnResult
    <2>7. /\ current_proc' \in Nat /\ ttbr' \in 0 .. TABLE_COUNT
          /\ cpu' \in {"user", "halted"}
          /\ IF cpu' = "halted" THEN panic' \in PanicReasons ELSE panic' = "none"
          /\ CurrentIsScheduled' /\ BootState'
        BY <1>1, <2>1, <2>5, <2>6, SwitchTaskInv
    <2>8. TypeOK'
        <3>1. fd_count' \in [Files -> Nat]
            <4>1. ASSUME NEW f \in Files PROVE refs(f) \in Nat
                <5>1. IsFiniteSet(Fds)
                    BY FS_Interval, SizesAssumption DEF Fds
                <5>2. IsFiniteSet({fd \in Fds : Cur.files[fd] = f})
                    BY <5>1, FS_Subset
                <5> QED BY <5>2, FS_CardinalityType DEF refs
            <4>2. fd_count \in [Files -> Nat] BY DEF IInv, TypeOK
            <4> QED BY <2>1, <4>1, <4>2 DEF ForkedCounts, refs
        <3>2. l1' \in [Tables -> 0 .. SECTION_COUNT]
            BY <2>1, <2>2 DEF IInv, TypeOK, Sections
        <3>3. mem' \in [0 .. SECTION_COUNT -> Int]
            <4>1. Cur.section \in 0 .. SECTION_COUNT BY <1>1 DEF Process
            <4>2. mem \in [0 .. SECTION_COUNT -> Int] BY DEF IInv, TypeOK
            <4>3. mem[Cur.section] \in Int BY <4>1, <4>2
            <4>4. mem' = [mem EXCEPT ![s] = mem[Cur.section]] BY <2>1
            <4> QED BY <4>2, <4>3, <4>4, ExceptType
        <3>4. sections' \subseteq Sections /\ tables' \subseteq Tables
            BY <2>1, <2>2 DEF IInv, TypeOK
        <3>5. /\ proc_count' \in 0 .. SCHEDULER_MAX_TASK_COUNT
              /\ id_gen' \in 0 .. MaxPid
            BY <1>1, <2>1, SizesAssumption DEF IInv, TypeOK, n, pid
        <3>6. last_exit' \in [pid : Nat, status : Int]
            BY <2>1 DEF NoExit
        <3> QED BY <2>1, <2>6, <2>7, <3>1, <3>2, <3>3, <3>4, <3>5, <3>6
                DEF IInv, TypeOK, Indices
    <2>9. TableInv'
        <3>1. /\ Indices = 0 .. proc_count - 1 /\ Indices' = 0 .. proc_count
            BY <1>1, <2>1 DEF Indices, n
        <3>2. ASSUME NEW i \in 0 .. proc_count - 1
              PROVE  /\ processes'[i].id = processes[i].id
                     /\ processes'[i].parent_id = processes[i].parent_id
                     /\ processes'[i].status = processes[i].status
                     /\ processes'[i].wait_pid = processes[i].wait_pid
            <4>1. processes[i] \in Process /\ i \in 0 .. n - 1 BY <1>1 DEF n
            <4>2. CASE i = current_proc
                <5>1. processes'[i] = [processes[i] EXCEPT !.r0 = pid]
                    BY <2>5, <2>6, <4>1, <4>2
                <5> QED BY <4>1, <5>1 DEF Process
            <4> QED BY <2>5, <2>6, <4>1, <4>2
        <3>3. /\ processes'[proc_count].id = id_gen + 1
              /\ processes'[proc_count].parent_id = processes[current_proc].id
              /\ processes'[proc_count].status = "SCHEDULED"
            BY <1>1, <2>4, <2>5, <2>6 DEF Cur, n, pid
        <3>4. TableSorted'
            <4>1. id_gen' = id_gen + 1 /\ proc_count' = proc_count + 1
                BY <2>1 DEF n, pid
            <4>2. \A i \in 0 .. proc_count - 1 : processes[i].id \in Nat
                BY <1>1 DEF Process
            <4>3. id_gen \in Nat BY DEF IInv, TypeOK
            <4>4. TableSorted BY DEF IInv, TableInv
            <4>5. /\ processes'[0].id = INIT_PROC_ID /\ processes'[0].parent_id = 0
                  /\ processes'[0].status # "EXITED" /\ proc_count' > 0
                BY <1>1, <3>2, <4>1, <4>4 DEF TableSorted
            <4>6. \A i \in 0 .. proc_count - 1 :
                     processes'[i].id = processes[i].id /\ processes[i].id <= id_gen
                BY <3>1, <3>2, <4>4 DEF TableSorted
            <4>7. \A i \in Indices' : processes'[i].id <= id_gen'
                BY <1>1, <3>1, <3>3, <4>1, <4>2, <4>3, <4>6
            <4>8. \A i, j \in 0 .. proc_count - 1 : i < j => processes[i].id < processes[j].id
                BY <3>1, <4>4 DEF TableSorted
            <4>9. \A i, j \in Indices' : i < j => processes'[i].id < processes'[j].id
                BY <1>1, <3>1, <3>3, <4>2, <4>3, <4>6, <4>8
            <4> QED BY <4>5, <4>7, <4>9 DEF TableSorted
        <3>5. ParentAlive'
            <4>1. ASSUME NEW i \in 0 .. proc_count - 1,
                         processes'[i].id # INIT_PROC_ID
                  PROVE  \E j \in 0 .. proc_count - 1 :
                            /\ j < i /\ processes'[j].id = processes'[i].parent_id
                            /\ processes'[j].status # "EXITED"
                BY <3>1, <3>2, <4>1 DEF IInv, TableInv, ParentAlive, Live
            <4>2. /\ current_proc < proc_count
                  /\ processes'[current_proc].id = processes'[proc_count].parent_id
                  /\ processes'[current_proc].status # "EXITED"
                BY <1>1, <3>2, <3>3 DEF Cur
            <4> QED BY <1>1, <3>1, <4>1, <4>2 DEF ParentAlive, Live
        <3>6. WaitsOnLiveChild => WaitsOnLiveChild'
            BY <1>1, <3>1, <3>2, <3>3 DEF WaitsOnLiveChild, Live
        <3> QED BY <3>4, <3>5, <3>6 DEF IInv, TableInv
    <2> QED BY <2>7, <2>8, <2>9 DEF IInv
<1> QED BY <1>2, <1>3

-----------------------------------------------------------------------------
(* The table as a value                                                    *)

\* What TableInv says of a running machine's table procs[0 .. n-1], when g is
\* the last pid given.
TableFacts(procs, n, g) ==
    /\ n > 0
    /\ procs[0].id = 1 /\ procs[0].parent_id = 0 /\ procs[0].status # "EXITED"
    /\ \A i, j \in 0 .. n - 1 : i < j => procs[i].id < procs[j].id
    /\ \A i \in 0 .. n - 1 : procs[i].id <= g
    /\ \A i \in 0 .. n - 1 : procs[i].id # 1 =>
          \E j \in 0 .. n - 1 : /\ j < i /\ procs[j].id = procs[i].parent_id
                                /\ procs[j].status # "EXITED"
    /\ ChildWaitOnly =>
          \A i \in 0 .. n - 1 : procs[i].status = "SUSPENDED" =>
              \E j \in 0 .. n - 1 : /\ procs[j].id = procs[i].wait_pid
                                    /\ procs[j].parent_id = procs[i].id
                                    /\ procs[j].status # "EXITED"

\* The invariant gives the facts ...
LEMMA FactsOfInv ==
    ASSUME IInv, Running
    PROVE  TableFacts(processes, proc_count, id_gen)
BY DEF IInv, TableInv, TableSorted, ParentAlive, WaitsOnLiveChild, TableFacts,
       Indices, Live, INIT_PROC_ID

\* ... and the facts about the next table give the invariant.
LEMMA InvOfFacts ==
    ASSUME TableFacts(processes', proc_count', id_gen')
    PROVE  TableInv'
BY DEF TableInv, TableSorted, ParentAlive, WaitsOnLiveChild, TableFacts,
       Indices, Live, INIT_PROC_ID

\* The facts read four fields only.
LEMMA SameFacts ==
    ASSUME NEW n \in Nat, NEW g, NEW p, NEW q, TableFacts(p, n, g),
           \A i \in 0 .. n - 1 : /\ q[i].id = p[i].id
                                 /\ q[i].parent_id = p[i].parent_id
                                 /\ q[i].status = p[i].status
                                 /\ q[i].wait_pid = p[i].wait_pid
    PROVE  TableFacts(q, n, g)
<1>1. n > 0 /\ 0 \in 0 .. n - 1
    BY DEF TableFacts
<1> QED BY <1>1 DEF TableFacts

\* The memmove of _remove_process: the slots above the removed one move down.
LEMMA RemoveResult ==
    ASSUME NEW n \in Nat, NEW procs \in [0 .. n - 1 -> Process],
           NEW k \in 0 .. n - 1
    PROVE  LET q == WithoutIndex(procs, k) IN
           /\ q \in [0 .. (n - 1) - 1 -> Process]
           /\ \A i \in 0 .. (n - 1) - 1 : q[i] = procs[IF i < k THEN i ELSE i + 1]
<1>1. {j \in DOMAIN procs : j + 1 \in DOMAIN procs} = 0 .. (n - 1) - 1
    OBVIOUS
<1> QED BY <1>1 DEF WithoutIndex

\* Removing an exited process keeps the facts: it is nobody's parent, and
\* nobody waits for it.
LEMMA RemoveFacts ==
    ASSUME NEW n \in Nat, NEW procs \in [0 .. n - 1 -> Process],
           NEW k \in 0 .. n - 1, NEW g, TableFacts(procs, n, g),
           procs[k].status = "EXITED"
    PROVE  TableFacts(WithoutIndex(procs, k), n - 1, g) /\ k > 0
<1> DEFINE q == WithoutIndex(procs, k)
           old(i) == IF i < k THEN i ELSE i + 1
           new(j) == IF j < k THEN j ELSE j - 1
<1>1. \A i \in 0 .. (n - 1) - 1 : q[i] = procs[old(i)]
    BY RemoveResult
<1> HIDE DEF q
<1>2. k > 0 /\ n - 1 > 0 /\ old(0) = 0
    BY DEF TableFacts
<1>3. \A i \in 0 .. (n - 1) - 1 : old(i) \in 0 .. n - 1 /\ old(i) # k
    OBVIOUS
<1>4. \A j \in 0 .. n - 1 : j # k => /\ new(j) \in 0 .. (n - 1) - 1
                                     /\ old(new(j)) = j
    OBVIOUS
<1>5. \A i, j \in 0 .. (n - 1) - 1 : i < j <=> old(i) < old(j)
    OBVIOUS
<1> HIDE DEF old, new
<1>6. q[0].id = 1 /\ q[0].parent_id = 0 /\ q[0].status # "EXITED"
    BY <1>1, <1>2 DEF TableFacts
<1>7. \A i, j \in 0 .. (n - 1) - 1 : i < j => q[i].id < q[j].id
    BY <1>1, <1>3, <1>5 DEF TableFacts
<1>8. \A i \in 0 .. (n - 1) - 1 : q[i].id <= g
    BY <1>1, <1>3 DEF TableFacts
<1>9. ASSUME NEW i \in 0 .. (n - 1) - 1, q[i].id # 1
      PROVE  \E j \in 0 .. (n - 1) - 1 :
                /\ j < i /\ q[j].id = q[i].parent_id /\ q[j].status # "EXITED"
    <2>1. PICK j \in 0 .. n - 1 :
             /\ j < old(i) /\ procs[j].id = procs[old(i)].parent_id
             /\ procs[j].status # "EXITED"
        BY <1>1, <1>3, <1>9 DEF TableFacts
    <2>2. j # k /\ new(j) \in 0 .. (n - 1) - 1 /\ old(new(j)) = j
        BY <1>4, <2>1
    <2>3. new(j) < i
        BY <1>5, <2>1, <2>2
    <2>4. q[new(j)] = procs[j] /\ q[i] = procs[old(i)]
        BY <1>1, <2>2
    <2> QED BY <2>1, <2>2, <2>3, <2>4
<1>10. ASSUME ChildWaitOnly, NEW i \in 0 .. (n - 1) - 1, q[i].status = "SUSPENDED"
       PROVE  \E j \in 0 .. (n - 1) - 1 :
                 /\ q[j].id = q[i].wait_pid /\ q[j].parent_id = q[i].id
                 /\ q[j].status # "EXITED"
    <2>1. PICK j \in 0 .. n - 1 :
             /\ procs[j].id = procs[old(i)].wait_pid
             /\ procs[j].parent_id = procs[old(i)].id
             /\ procs[j].status # "EXITED"
        BY <1>1, <1>3, <1>10 DEF TableFacts
    <2>2. j # k /\ new(j) \in 0 .. (n - 1) - 1 /\ old(new(j)) = j
        BY <1>4, <2>1
    <2>3. q[new(j)] = procs[j] /\ q[i] = procs[old(i)]
        BY <1>1, <2>2
    <2> QED BY <2>1, <2>2, <2>3
<1> QED BY <1>2, <1>6, <1>7, <1>8, <1>9, <1>10 DEF TableFacts, q

\* The tail of every trap that leaves a well-formed table: what remains to be
\* shown is about the table and the variables of the resources.
LEMMA TableStepInv ==
    ASSUME IInv, cpu = "user", NEW n \in 1 .. SCHEDULER_MAX_TASK_COUNT,
           proc_count' = n, processes' \in [0 .. n - 1 -> Process],
           TableFacts(processes', n, id_gen), id_gen' = id_gen,
           NEW cur \in Nat, SwitchTask(processes', cur),
           sections' \subseteq sections, tables' \subseteq tables, l1' = l1,
           mem' \in [0 .. SECTION_COUNT -> Int],
           last_exit' \in [pid : Nat, status : Int],
           UNCHANGED fileVars
    PROVE  IInv'
<1>1. panic = "none" /\ n \in Nat
    BY UserState, SizesAssumption
<1>2. /\ current_proc' \in Nat /\ ttbr' \in 0 .. TABLE_COUNT
      /\ cpu' \in {"user", "halted"}
      /\ IF cpu' = "halted" THEN panic' \in PanicReasons ELSE panic' = "none"
      /\ CurrentIsScheduled' /\ BootState'
    BY <1>1, SwitchTaskInv
<1>3. sections' \subseteq Sections /\ tables' \subseteq Tables
    BY DEF IInv, TypeOK
<1>4. proc_count' \in 0 .. SCHEDULER_MAX_TASK_COUNT /\ processes' \in [Indices' -> Process]
    BY SizesAssumption DEF Indices
<1>5. /\ id_gen' \in 0 .. MaxPid /\ l1' \in [Tables -> 0 .. SECTION_COUNT]
      /\ fd_count' \in [Files -> Nat]
      /\ heap' \in 0 .. HEAP_CAPACITY /\ released' \subseteq Files
    BY DEF IInv, TypeOK, fileVars
<1>6. TypeOK'
    BY <1>2, <1>3, <1>4, <1>5 DEF TypeOK
<1>7. TableInv'
    BY InvOfFacts
<1> QED BY <1>2, <1>6, <1>7 DEF IInv

\* The size of the table while a process runs.
LEMMA TableSize ==
    ASSUME IInv, cpu = "user"
    PROVE  proc_count \in 1 .. SCHEDULER_MAX_TASK_COUNT
BY UserState DEF IInv, TypeOK

\* A process that waits.
Waiting(c, pid, ref) ==
    [c EXCEPT !.status = "SUSPENDED", !.wait_pid = pid, !.wstatus_ref = ref]

\* It is a record of the table that awaits `pid`.
LEMMA WaitingRecord ==
    ASSUME NEW c \in Process, NEW pid \in Nat, NEW ref \in 0 .. SECTION_COUNT
    PROVE  /\ Waiting(c, pid, ref) \in Process
           /\ Waiting(c, pid, ref).id = c.id
           /\ Waiting(c, pid, ref).parent_id = c.parent_id
           /\ Waiting(c, pid, ref).wait_pid = pid
           /\ Waiting(c, pid, ref).status = "SUSPENDED"
<1>1. Waiting(c, pid, ref) \in Process
    BY DEF Waiting, Process, Statuses
<1> QED BY <1>1 DEF Waiting, Process

\* WAITPID on a live process keeps the invariant: the caller waits for a
\* child that is in the table and has not exited.
LEMMA WaitSuspendInv ==
    ASSUME IInv, NEW pid \in 1 .. MaxPid, NEW ref \in 0 .. SECTION_COUNT,
           WaitSuspend(pid, ref)
    PROVE  IInv'
<1> DEFINE me == Waiting(Cur, pid, ref)
           table == [processes EXCEPT ![current_proc] = me]
           k == FindProc(processes, pid)
<1>1. /\ Running /\ panic = "none" /\ cpu = "user"
      /\ proc_count \in Nat /\ processes \in [0 .. proc_count - 1 -> Process]
      /\ current_proc \in 0 .. proc_count - 1 /\ current_proc \in Nat
      /\ Cur \in Process /\ Cur.status = "SCHEDULED"
    BY UserState DEF WaitSuspend
<1>2. /\ pid \in Ids(processes) /\ MayWait(pid)
      /\ processes[k].status # "EXITED"
      /\ last_exit' = NoExit
      /\ UNCHANGED <<proc_count, id_gen, memVars, fileVars>>
    BY DEF WaitSuspend
<1>3. Return(table, 0)
    <2>1. table = [processes EXCEPT ![current_proc] =
                     [@ EXCEPT !.status = "SUSPENDED", !.wait_pid = pid,
                               !.wstatus_ref = ref]]
        BY <1>1 DEF Waiting, Cur
    <2> HIDE DEF table
    <2> QED BY <2>1 DEF WaitSuspend
<1>4. /\ me \in Process /\ me.id = Cur.id /\ me.parent_id = Cur.parent_id
      /\ me.wait_pid = pid /\ me.status = "SUSPENDED"
    <2>1. pid \in Nat BY SizesAssumption
    <2> QED BY <1>1, <2>1, WaitingRecord
<1>5. k \in 0 .. proc_count - 1 /\ processes[k].id = pid
    BY <1>1, <1>2, FindProcIn
<1> HIDE DEF me, k
<1>6. /\ table \in [0 .. proc_count - 1 -> Process]
      /\ table[current_proc] = me
      /\ \A i \in 0 .. proc_count - 1 : i # current_proc => table[i] = processes[i]
    BY <1>1, <1>4
<1> HIDE DEF table
<1>7. TableFacts(table, proc_count, id_gen)
    <2>1. TableFacts(processes, proc_count, id_gen)
        BY <1>1, FactsOfInv
    <2>2. \A i \in 0 .. proc_count - 1 :
             /\ table[i].id = processes[i].id
             /\ table[i].parent_id = processes[i].parent_id
             /\ table[i].status = "EXITED" <=> processes[i].status = "EXITED"
        BY <1>1, <1>4, <1>6 DEF Cur
    <2>3. 0 \in 0 .. proc_count - 1
        BY <1>1
    <2>4. ASSUME ChildWaitOnly, NEW i \in 0 .. proc_count - 1,
                 table[i].status = "SUSPENDED"
          PROVE  \E j \in 0 .. proc_count - 1 :
                    /\ table[j].id = table[i].wait_pid
                    /\ table[j].parent_id = table[i].id
                    /\ table[j].status # "EXITED"
        <3>1. CASE i = current_proc
            <4>1. processes[k].parent_id = Cur.id
                BY <1>2, <1>5, <2>4 DEF MayWait, Indices
            <4>2. table[i].wait_pid = pid /\ table[i].id = Cur.id
                BY <1>4, <1>6, <3>1
            <4> QED BY <1>2, <1>5, <2>2, <4>1, <4>2
        <3>2. CASE i # current_proc
            <4>1. table[i] = processes[i] BY <1>6, <3>2
            <4>2. PICK j \in 0 .. proc_count - 1 :
                     /\ processes[j].id = processes[i].wait_pid
                     /\ processes[j].parent_id = processes[i].id
                     /\ processes[j].status # "EXITED"
                BY <2>1, <2>4, <4>1 DEF TableFacts
            <4> QED BY <2>2, <4>1, <4>2
        <3> QED BY <3>1, <3>2
    <2> QED BY <2>1, <2>2, <2>3, <2>4 DEF TableFacts
<1>8. /\ processes' \in [0 .. proc_count - 1 -> Process]
      /\ \A i \in 0 .. proc_count - 1 :
            /\ i # current_proc => processes'[i] = table[i]
            /\ processes'[current_proc] = [table[current_proc] EXCEPT !.r0 = 0]
      /\ SwitchTask(processes', current_proc)
    <2>1. PICK z \in Int : z = 0 OBVIOUS
    <2>2. Return(table, z) BY <1>3, <2>1
    <2>3. /\ processes' \in [0 .. proc_count - 1 -> Process]
          /\ \A i \in 0 .. proc_count - 1 :
                /\ i # current_proc => processes'[i] = table[i]
                /\ processes'[current_proc] = [table[current_proc] EXCEPT !.r0 = z]
          /\ SwitchTask(processes', current_proc)
        BY <1>1, <1>6, <2>2, ReturnResult
    <2> QED BY <2>1, <2>3
<1>9. TableFacts(processes', proc_count, id_gen)
    <2>1. ASSUME NEW i \in 0 .. proc_count - 1
          PROVE  /\ processes'[i].id = table[i].id
                 /\ processes'[i].parent_id = table[i].parent_id
                 /\ processes'[i].status = table[i].status
                 /\ processes'[i].wait_pid = table[i].wait_pid
        <3>1. table[i] \in Process BY <1>6
        <3>2. CASE i = current_proc
            BY <1>8, <3>1, <3>2 DEF Process
        <3> QED BY <1>8, <3>2
    <2> QED BY <1>1, <1>7, <2>1, SameFacts
<1>10. /\ proc_count \in 1 .. SCHEDULER_MAX_TASK_COUNT
       /\ proc_count' = proc_count /\ id_gen' = id_gen
       /\ sections' \subseteq sections /\ tables' \subseteq tables /\ l1' = l1
       /\ mem' \in [0 .. SECTION_COUNT -> Int]
       /\ last_exit' \in [pid : Nat, status : Int]
       /\ UNCHANGED fileVars
    BY <1>1, <1>2, TableSize DEF IInv, TypeOK, memVars, NoExit
<1> QED BY <1>1, <1>8, <1>9, <1>10, TableStepInv

\* WAITPID on an exited process keeps the invariant, whether the checks that
\* follow the removal pass or stop the machine.
LEMMA WaitReapInv ==
    ASSUME IInv, NEW pid \in 1 .. MaxPid, NEW ref \in 0 .. SECTION_COUNT,
           WaitReap(pid, ref)
    PROVE  IInv'
<1> DEFINE k == FindProc(processes, pid)
           after == WithoutIndex(processes, k)
           m == proc_count - 1
<1>1. /\ Running /\ panic = "none" /\ cpu = "user"
      /\ proc_count \in Nat /\ processes \in [0 .. proc_count - 1 -> Process]
      /\ current_proc \in 0 .. proc_count - 1 /\ current_proc \in Nat
      /\ Cur \in Process /\ Cur.status = "SCHEDULED"
    BY UserState DEF WaitReap
<1>2. /\ pid \in Ids(processes) /\ processes[k].status = "EXITED"
      /\ mem' = [mem EXCEPT ![ref] = processes[k].wstatus]
      /\ proc_count' = m
      /\ IF ReapFailure(k) = "none"
         THEN Return(after, pid)
         ELSE /\ Fatal(ReapFailure(k))
              /\ processes' = after
              /\ UNCHANGED current_proc
      /\ last_exit' = NoExit
      /\ UNCHANGED <<id_gen, sections, tables, l1, fileVars>>
    BY DEF WaitReap
<1>3. k \in 0 .. proc_count - 1 /\ processes[k].id = pid
    BY <1>1, <1>2, FindProcIn
<1>4. k # current_proc
    BY <1>1, <1>2 DEF Cur
<1> HIDE DEF k
<1>5. TableFacts(after, m, id_gen) /\ m > 0 /\ m \in Nat
    <2>1. TableFacts(processes, proc_count, id_gen)
        BY <1>1, FactsOfInv
    <2>2. TableFacts(after, m, id_gen)
        BY <1>1, <1>2, <1>3, <2>1, RemoveFacts
    <2>3. m > 0
        BY <2>2 DEF TableFacts
    <2> QED BY <1>1, <2>2, <2>3
<1>6. /\ after \in [0 .. m - 1 -> Process]
    BY <1>1, <1>3, RemoveResult
<1>7. mem' \in [0 .. SECTION_COUNT -> Int]
    <2>1. mem \in [0 .. SECTION_COUNT -> Int] BY DEF IInv, TypeOK
    <2>2. processes[k] \in Process BY <1>1, <1>3
    <2>3. processes[k].wstatus \in Int BY <2>2 DEF Process
    <2> QED BY <1>2, <2>1, <2>3, ExceptType
<1>8. /\ m \in 1 .. SCHEDULER_MAX_TASK_COUNT
      /\ proc_count' = m /\ id_gen' = id_gen
      /\ sections' \subseteq sections /\ tables' \subseteq tables /\ l1' = l1
      /\ last_exit' \in [pid : Nat, status : Int]
      /\ UNCHANGED fileVars
    <2>1. m \in 1 .. SCHEDULER_MAX_TASK_COUNT
        <3>1. proc_count \in 1 .. SCHEDULER_MAX_TASK_COUNT
            BY <1>1, TableSize
        <3> QED BY <1>5, <3>1, SizesAssumption
    <2> QED BY <1>2, <2>1 DEF NoExit
<1>9. CASE ReapFailure(k) = "none"
    <2>1. Return(after, pid)
        BY <1>2, <1>9
    <2>2. current_proc \in 0 .. m - 1
        <3>1. IndexAfterRemove(k) = current_proc
            BY <1>4 DEF IndexAfterRemove
        <3>2. current_proc \in DOMAIN after
            BY <1>9, <3>1 DEF ReapFailure
        <3> HIDE DEF after, m
        <3> QED BY <1>6, <3>2
    <2> HIDE DEF after, m
    <2>3. pid \in Int OBVIOUS
    <2>4. /\ processes' \in [0 .. m - 1 -> Process]
          /\ \A i \in 0 .. m - 1 :
                /\ i # current_proc => processes'[i] = after[i]
                /\ processes'[current_proc] = [after[current_proc] EXCEPT !.r0 = pid]
          /\ SwitchTask(processes', current_proc)
        BY <1>5, <1>6, <2>1, <2>2, <2>3, ReturnResult
    <2>5. TableFacts(processes', m, id_gen)
        <3>1. ASSUME NEW i \in 0 .. m - 1
              PROVE  /\ processes'[i].id = after[i].id
                     /\ processes'[i].parent_id = after[i].parent_id
                     /\ processes'[i].status = after[i].status
                     /\ processes'[i].wait_pid = after[i].wait_pid
            <4>1. after[i] \in Process BY <1>6
            <4>2. CASE i = current_proc
                BY <2>4, <4>1, <4>2 DEF Process
            <4> QED BY <2>4, <4>2
        <3> QED BY <1>5, <3>1, SameFacts
    <2> QED BY <1>1, <1>7, <1>8, <2>4, <2>5, TableStepInv
<1>10. CASE ReapFailure(k) # "none"
    <2>1. Fatal(ReapFailure(k)) /\ processes' = after /\ UNCHANGED current_proc
        BY <1>2, <1>10
    <2>2. ReapFailure(k) \in PanicReasons
        BY <1>10 DEF ReapFailure, PanicReasons
    <2> HIDE DEF after, m
    <2>3. cpu' = "halted" /\ panic' \in PanicReasons /\ ttbr' = KernelTable
        BY <2>1, <2>2 DEF Fatal
    <2>4. TypeOK'
        <3>1. ttbr' \in 0 .. TABLE_COUNT
            BY <2>3, SizesAssumption DEF KernelTable
        <3>2. m \in 0 .. SCHEDULER_MAX_TASK_COUNT
            BY <1>8
        <3>3. sections' \subseteq Sections /\ tables' \subseteq Tables
            BY <1>8 DEF IInv, TypeOK
        <3>4. processes' \in [Indices' -> Process]
            BY <1>6, <1>8, <2>1 DEF Indices
        <3>5. current_proc' \in Nat
            BY <1>1, <2>1
        <3> QED BY <1>7, <1>8, <2>3, <3>1, <3>2, <3>3, <3>4, <3>5
                DEF IInv, TypeOK, fileVars
    <2>5. TableInv'
        <3>1. TableFacts(processes', proc_count', id_gen')
            BY <1>5, <1>8, <2>1
        <3> QED BY <3>1, InvOfFacts
    <2> QED BY <2>3, <2>4, <2>5 DEF IInv, CurrentIsScheduled, BootState, Running
<1> QED BY <1>9, <1>10

\* The records that exit writes: the exited process, ...
Exited(c, status, r, s, t) ==
    [c EXCEPT !.status = "EXITED", !.wstatus = status, !.r0 = r,
              !.section = s, !.table = t]

\* It keeps its pid and its parent.
LEMMA ExitedRecord ==
    ASSUME NEW c \in Process, NEW status \in Int, NEW r \in Int,
           NEW s \in 0 .. SECTION_COUNT, NEW t \in 0 .. TABLE_COUNT
    PROVE  /\ Exited(c, status, r, s, t) \in Process
           /\ Exited(c, status, r, s, t).id = c.id
           /\ Exited(c, status, r, s, t).parent_id = c.parent_id
           /\ Exited(c, status, r, s, t).status = "EXITED"
<1>1. Exited(c, status, r, s, t) \in Process
    BY DEF Exited, Process, Statuses
<1> QED BY <1>1 DEF Exited, Process

\* ... an adopted child, ...
LEMMA AdoptedRecord ==
    ASSUME NEW c \in Process, NEW ppid \in Nat
    PROVE  /\ [c EXCEPT !.parent_id = ppid] \in Process
           /\ [c EXCEPT !.parent_id = ppid].id = c.id
           /\ [c EXCEPT !.parent_id = ppid].parent_id = ppid
           /\ [c EXCEPT !.parent_id = ppid].status = c.status
           /\ [c EXCEPT !.parent_id = ppid].wait_pid = c.wait_pid
BY DEF Process

\* ... and the parent that was waiting.
Woken(c, pid, ref, r) ==
    [c EXCEPT !.status = "SCHEDULED", !.wait_pid = pid, !.wstatus_ref = ref,
              !.r0 = r]

\* It keeps its pid and its parent and may run.
LEMMA WokenRecord ==
    ASSUME NEW c \in Process, NEW pid \in Nat, NEW ref \in 0 .. SECTION_COUNT,
           NEW r \in Int
    PROVE  /\ Woken(c, pid, ref, r) \in Process
           /\ Woken(c, pid, ref, r).id = c.id
           /\ Woken(c, pid, ref, r).parent_id = c.parent_id
           /\ Woken(c, pid, ref, r).status = "SCHEDULED"
<1>1. Woken(c, pid, ref, r) \in Process
    BY DEF Woken, Process, Statuses
<1> QED BY <1>1 DEF Woken, Process

\* The two of them with the values that the code stores.
LEMMA ExitRecords ==
    ASSUME Cur \in Process, NEW status \in Int, NEW parent \in Process
    PROVE  /\ ExitedProc(status) \in Process
           /\ ExitedProc(status).id = Cur.id
           /\ ExitedProc(status).parent_id = Cur.parent_id
           /\ ExitedProc(status).status = "EXITED"
           /\ WokenProc(parent) \in Process
           /\ WokenProc(parent).id = parent.id
           /\ WokenProc(parent).parent_id = parent.parent_id
           /\ WokenProc(parent).status = "SCHEDULED"
<1>1. PICK z \in Nat : z = 0
    OBVIOUS
<1>2. z \in Int /\ z \in 0 .. SECTION_COUNT /\ z \in 0 .. TABLE_COUNT
    BY <1>1, SizesAssumption
<1>3. PICK c \in Process : c = Cur
    OBVIOUS
<1>4. PICK r \in Int : r = Cur.id
    BY DEF Process
<1>5. ExitedProc(status) = Exited(c, status, z, z, z)
    BY <1>1, <1>3 DEF ExitedProc, Exited, NULL
<1>6. WokenProc(parent) = Woken(parent, z, z, r)
    BY <1>1, <1>4 DEF WokenProc, Woken, NULL
<1>7. /\ Exited(c, status, z, z, z) \in Process
      /\ Exited(c, status, z, z, z).id = c.id
      /\ Exited(c, status, z, z, z).parent_id = c.parent_id
      /\ Exited(c, status, z, z, z).status = "EXITED"
    BY <1>2, ExitedRecord
<1>8. /\ Woken(parent, z, z, r) \in Process
      /\ Woken(parent, z, z, r).id = parent.id
      /\ Woken(parent, z, z, r).parent_id = parent.parent_id
      /\ Woken(parent, z, z, r).status = "SCHEDULED"
    BY <1>2, WokenRecord
<1> QED BY <1>3, <1>5, <1>6, <1>7, <1>8

\* i is the parent of me and waits for it.
Awaits(procs, me, i) ==
    /\ procs[i].status = "SUSPENDED"
    /\ procs[i].wait_pid = procs[me].id
    /\ procs[i].id = procs[me].parent_id

\* Exit keeps the facts about the table: p is the table before, q the table
\* after `me` has exited, its children have moved to init, and its parent, if
\* it was waiting, has been resumed.
LEMMA ExitFacts ==
    ASSUME NEW n \in Nat, NEW g, NEW p \in [0 .. n - 1 -> Process], NEW q,
           NEW me \in 0 .. n - 1, TableFacts(p, n, g),
           p[me].status = "SCHEDULED", p[me].id # 1,
           \A i \in 0 .. n - 1 :
              /\ q[i].id = p[i].id
              /\ q[i].parent_id = IF p[i].parent_id = p[me].id THEN 1
                                  ELSE p[i].parent_id,
           q[me].status = "EXITED",
           \A i \in 0 .. n - 1 : i # me =>
              IF Awaits(p, me, i) THEN q[i].status = "SCHEDULED"
              ELSE q[i].status = p[i].status /\ q[i].wait_pid = p[i].wait_pid
    PROVE  TableFacts(q, n, g)
<1>1. /\ n > 0 /\ 0 \in 0 .. n - 1 /\ me # 0
      /\ p[0].id = 1 /\ p[0].parent_id = 0 /\ p[0].status # "EXITED"
    BY DEF TableFacts
<1>2. ASSUME NEW i \in 0 .. n - 1, NEW j \in 0 .. n - 1, p[i].id = p[j].id
      PROVE  i = j
    <2>1. p[i].id \in Nat /\ p[j].id \in Nat BY DEF Process
    <2> QED BY <1>2, <2>1 DEF TableFacts
<1>3. ASSUME NEW i \in 0 .. n - 1, i # me, p[i].status # "EXITED"
      PROVE  q[i].status # "EXITED"
    BY <1>3
<1>4. q[0].id = 1 /\ q[0].parent_id = 0 /\ q[0].status # "EXITED"
    <2>1. p[me].id # 0
        <3>1. p[0].id < p[me].id BY <1>1 DEF TableFacts
        <3>2. p[me].id \in Nat BY DEF Process
        <3> QED BY <1>1, <3>1, <3>2
    <2>2. q[0].parent_id = 0 BY <1>1, <2>1
    <2> QED BY <1>1, <1>3, <2>2
<1>5. ASSUME NEW i \in 0 .. n - 1, q[i].id # 1
      PROVE  \E j \in 0 .. n - 1 : /\ j < i /\ q[j].id = q[i].parent_id
                                   /\ q[j].status # "EXITED"
    <2>1. PICK j \in 0 .. n - 1 : /\ j < i /\ p[j].id = p[i].parent_id
                                  /\ p[j].status # "EXITED"
        BY <1>5 DEF TableFacts
    <2>2. CASE p[i].parent_id = p[me].id
        <3>1. i # 0 BY <1>1, <1>5
        <3>2. 0 < i /\ q[0].id = q[i].parent_id
            BY <1>1, <2>2, <3>1
        <3> QED BY <1>1, <1>4, <3>2
    <2>3. CASE p[i].parent_id # p[me].id
        <3>1. j # me BY <2>1, <2>3
        <3>2. q[j].status # "EXITED" BY <1>3, <2>1, <3>1
        <3>3. q[j].id = q[i].parent_id BY <2>1, <2>3
        <3> QED BY <2>1, <3>2, <3>3
    <2> QED BY <2>2, <2>3
<1>6. ASSUME ChildWaitOnly, NEW i \in 0 .. n - 1, q[i].status = "SUSPENDED"
      PROVE  \E j \in 0 .. n - 1 : /\ q[j].id = q[i].wait_pid
                                   /\ q[j].parent_id = q[i].id
                                   /\ q[j].status # "EXITED"
    <2>1. i # me /\ ~ Awaits(p, me, i)
        BY <1>6
    <2>2. p[i].status = "SUSPENDED" /\ q[i].wait_pid = p[i].wait_pid
        BY <1>6, <2>1
    <2>3. PICK j \in 0 .. n - 1 : /\ p[j].id = p[i].wait_pid
                                  /\ p[j].parent_id = p[i].id
                                  /\ p[j].status # "EXITED"
        BY <1>6, <2>2 DEF TableFacts
    <2>4. j # me BY <2>1, <2>2, <2>3 DEF Awaits
    <2>5. q[j].status # "EXITED" BY <1>3, <2>3, <2>4
    <2>6. p[i].id # p[me].id BY <1>2, <2>1
    <2>7. q[j].parent_id = q[i].id BY <2>3, <2>6
    <2> QED BY <2>2, <2>3, <2>5, <2>7
<1>7. \A i, j \in 0 .. n - 1 : i < j => q[i].id < q[j].id
    BY DEF TableFacts
<1>8. \A i \in 0 .. n - 1 : q[i].id <= g
    BY DEF TableFacts
<1> QED BY <1>1, <1>4, <1>5, <1>6, <1>7, <1>8 DEF TableFacts

\* What the loop over the table in scheduler_cur_proc_exit leaves ...
ExitTable(status) ==
    Adopt([processes EXCEPT ![current_proc] = ExitedProc(status)])

AdoptedTable(q, n) ==
    /\ q \in [0 .. n - 1 -> Process]
    /\ \A i \in 0 .. n - 1 :
          /\ q[i].id = processes[i].id
          /\ q[i].parent_id = IF processes[i].parent_id = Cur.id THEN 1
                              ELSE processes[i].parent_id
          /\ i # current_proc => /\ q[i].status = processes[i].status
                                 /\ q[i].wait_pid = processes[i].wait_pid
    /\ q[current_proc].status = "EXITED"

\* ... is the old table with one exited process and its children adopted.
LEMMA AdoptResult ==
    ASSUME NEW n \in Nat, processes \in [0 .. n - 1 -> Process],
           current_proc \in 0 .. n - 1, NEW status \in Int
    PROVE  AdoptedTable(ExitTable(status), n)
<1> DEFINE q == ExitTable(status)
           me == ExitedProc(status)
           p == [processes EXCEPT ![current_proc] = me]
<1>1. Cur \in Process
    BY DEF Cur
<1>2. /\ me \in Process /\ me.id = Cur.id /\ me.parent_id = Cur.parent_id
      /\ me.status = "EXITED"
    BY <1>1, ExitRecords
<1> HIDE DEF me
<1>3. /\ p \in [0 .. n - 1 -> Process] /\ p[current_proc] = me
      /\ \A i \in 0 .. n - 1 : i # current_proc => p[i] = processes[i]
    BY <1>2
<1>4. q = Adopt(p)
    BY DEF me, ExitTable
<1> HIDE DEF p, q
<1>5. \A i \in 0 .. n - 1 : p[i].id = processes[i].id
                         /\ p[i].parent_id = processes[i].parent_id
    BY <1>2, <1>3 DEF Cur
<1>6. q = [i \in 0 .. n - 1 |-> IF p[i].parent_id = Cur.id
                                THEN [p[i] EXCEPT !.parent_id = 1] ELSE p[i]]
    BY <1>3, <1>4 DEF Adopt, INIT_PROC_ID
<1>7. ASSUME NEW i \in 0 .. n - 1
      PROVE  /\ q[i] \in Process
             /\ q[i].id = p[i].id /\ q[i].status = p[i].status
             /\ q[i].wait_pid = p[i].wait_pid
             /\ q[i].parent_id = IF p[i].parent_id = Cur.id THEN 1
                                 ELSE p[i].parent_id
    <2>1. p[i] \in Process BY <1>3
    <2>2. CASE p[i].parent_id = Cur.id
        <3>1. PICK c \in Process, one \in Nat : c = p[i] /\ one = 1
            BY <2>1
        <3>2. q[i] = [c EXCEPT !.parent_id = one]
            BY <1>6, <2>2, <3>1
        <3>3. /\ [c EXCEPT !.parent_id = one] \in Process
              /\ [c EXCEPT !.parent_id = one].id = c.id
              /\ [c EXCEPT !.parent_id = one].parent_id = one
              /\ [c EXCEPT !.parent_id = one].status = c.status
              /\ [c EXCEPT !.parent_id = one].wait_pid = c.wait_pid
            BY AdoptedRecord
        <3> QED BY <2>2, <3>1, <3>2, <3>3
    <2>3. CASE p[i].parent_id # Cur.id
        BY <1>6, <2>1, <2>3
    <2> QED BY <2>2, <2>3
<1>8. q \in [0 .. n - 1 -> Process]
    BY <1>6, <1>7
<1>9. ASSUME NEW i \in 0 .. n - 1
      PROVE  /\ q[i].id = processes[i].id
             /\ q[i].parent_id = IF processes[i].parent_id = Cur.id THEN 1
                                 ELSE processes[i].parent_id
             /\ i # current_proc => /\ q[i].status = processes[i].status
                                    /\ q[i].wait_pid = processes[i].wait_pid
    BY <1>3, <1>5, <1>7
<1>10. q[current_proc].status = "EXITED"
    BY <1>2, <1>3, <1>7
<1> QED BY <1>8, <1>9, <1>10 DEF AdoptedTable, q

\* exit, called by EXIT or by the data abort, keeps the invariant.
LEMMA ExitInv ==
    ASSUME IInv, NEW status \in Int, CurProcExit(status)
    PROVE  IInv'
<1> DEFINE adopted ==
               Adopt([processes EXCEPT ![current_proc] = ExitedProc(status)])
           p == FindProc(adopted, Cur.parent_id)
           parent == adopted[p]
           awaited == parent.status = "SUSPENDED" /\ parent.wait_pid = Cur.id
           woken == [adopted EXCEPT ![p] = WokenProc(parent)]
           n == proc_count
<1>1. /\ Running /\ panic = "none" /\ cpu = "user"
      /\ n \in Nat /\ processes \in [0 .. n - 1 -> Process]
      /\ current_proc \in 0 .. n - 1 /\ current_proc \in Nat
      /\ Cur \in Process /\ Cur.status = "SCHEDULED"
    BY UserState DEF CurProcExit
<1>2. CASE Cur.id = INIT_PROC_ID
    <2>1. Die("init_exited")
        BY <1>2 DEF CurProcExit
    <2> QED BY <2>1, DieInv DEF PanicReasons
<1>3. CASE Cur.id # INIT_PROC_ID /\ Cur.parent_id \notin Ids(adopted)
    <2>1. Die("no_parent")
        BY <1>3 DEF CurProcExit
    <2> QED BY <2>1, DieInv DEF PanicReasons
<1>4. CASE Cur.id # INIT_PROC_ID /\ Cur.parent_id \in Ids(adopted)
    <2>1. /\ sections' = sections \ {Cur.section}
          /\ tables' = tables \ {Cur.table}
          /\ last_exit' = [pid |-> Cur.id, status |-> status]
          /\ UNCHANGED <<id_gen, l1, fileVars>>
          /\ IF awaited
             THEN /\ mem' = [mem EXCEPT ![parent.wstatus_ref] = status]
                  /\ processes' = WithoutIndex(woken, current_proc)
                  /\ proc_count' = n - 1
                  /\ SwitchTask(processes', IndexAfterRemove(current_proc))
             ELSE /\ processes' = adopted
                  /\ SwitchTask(processes', current_proc)
                  /\ UNCHANGED <<mem, proc_count>>
        BY <1>4 DEF CurProcExit
    <2>2. /\ adopted \in [0 .. n - 1 -> Process]
          /\ \A i \in 0 .. n - 1 :
               /\ adopted[i].id = processes[i].id
               /\ adopted[i].parent_id = IF processes[i].parent_id = Cur.id THEN 1
                                         ELSE processes[i].parent_id
               /\ i # current_proc =>
                     /\ adopted[i].status = processes[i].status
                     /\ adopted[i].wait_pid = processes[i].wait_pid
          /\ adopted[current_proc].status = "EXITED"
        <3>1. AdoptedTable(ExitTable(status), n)
            BY <1>1, AdoptResult
        <3>2. ExitTable(status) = adopted
            BY DEF ExitTable
        <3> HIDE DEF adopted
        <3> QED BY <3>1, <3>2 DEF AdoptedTable
    <2> HIDE DEF adopted
    <2>3. p \in 0 .. n - 1 /\ adopted[p].id = Cur.parent_id
        BY <1>1, <1>4, <2>2, FindProcIn
    <2> HIDE DEF p
    <2>4. TableFacts(processes, n, id_gen)
        BY <1>1, FactsOfInv
    <2>5. /\ processes[current_proc].id # 1
          /\ processes[current_proc].status = "SCHEDULED"
        BY <1>1, <1>4 DEF Cur, INIT_PROC_ID
    <2>6. ASSUME NEW i \in 0 .. n - 1, Awaits(processes, current_proc, i)
          PROVE  i = p
        <3>1. processes[i].id = processes[p].id
            BY <2>2, <2>3, <2>6 DEF Awaits, Cur
        <3>2. processes[i].id \in Nat /\ processes[p].id \in Nat
            BY <1>1, <2>3 DEF Process
        <3> QED BY <2>3, <2>4, <3>1, <3>2 DEF TableFacts
    <2>7. p # current_proc => (Awaits(processes, current_proc, p) <=> awaited)
        BY <2>2, <2>3 DEF Awaits, Cur
    <2>8. p # current_proc
        <3>1. PICK j \in 0 .. n - 1 :
                 j < current_proc /\ processes[j].id = processes[current_proc].parent_id
            BY <1>1, <2>4, <2>5 DEF TableFacts
        <3>2. processes[j].id < processes[current_proc].id
            BY <1>1, <2>4, <3>1 DEF TableFacts
        <3>3. processes[j].id \in Nat /\ processes[current_proc].id \in Nat
            BY <1>1, <3>1 DEF Process
        <3>4. processes[p].id = processes[j].id
            BY <2>2, <2>3, <3>1 DEF Cur
        <3> QED BY <3>2, <3>3, <3>4
    <2>9. /\ id_gen' = id_gen /\ l1' = l1
           /\ sections' \subseteq sections /\ tables' \subseteq tables
           /\ last_exit' \in [pid : Nat, status : Int]
           /\ UNCHANGED fileVars
        <3>1. Cur.id \in Nat BY <1>1 DEF Process
        <3> QED BY <2>1, <3>1
    <2>10. /\ n \in 1 .. SCHEDULER_MAX_TASK_COUNT
           /\ mem \in [0 .. SECTION_COUNT -> Int]
        BY <1>1, TableSize DEF IInv, TypeOK
    <2>11. CASE awaited
        <3>1. parent \in Process
            BY <2>2, <2>3
        <3>2. /\ WokenProc(parent) \in Process
              /\ WokenProc(parent).id = parent.id
              /\ WokenProc(parent).parent_id = parent.parent_id
              /\ WokenProc(parent).status = "SCHEDULED"
            <4> HIDE DEF parent
            <4> QED BY <1>1, <3>1, ExitRecords
        <3>3. /\ woken \in [0 .. n - 1 -> Process]
              /\ woken[p] = WokenProc(parent)
              /\ \A i \in 0 .. n - 1 : i # p => woken[i] = adopted[i]
            BY <2>2, <2>3, <3>2
        <3> HIDE DEF woken
        <3>4. TableFacts(woken, n, id_gen)
            <4>1. \A i \in 0 .. n - 1 :
                    /\ woken[i].id = processes[i].id
                    /\ woken[i].parent_id
                          = IF processes[i].parent_id = processes[current_proc].id
                            THEN 1 ELSE processes[i].parent_id
                BY <2>2, <3>2, <3>3 DEF Cur
            <4>2. woken[current_proc].status = "EXITED"
                BY <1>1, <2>2, <2>8, <3>3
            <4>3. ASSUME NEW i \in 0 .. n - 1, i # current_proc
                  PROVE  IF Awaits(processes, current_proc, i)
                         THEN woken[i].status = "SCHEDULED"
                         ELSE /\ woken[i].status = processes[i].status
                              /\ woken[i].wait_pid = processes[i].wait_pid
                <5>1. CASE i = p
                    BY <2>7, <2>8, <2>11, <3>2, <3>3, <5>1
                <5>2. CASE i # p
                    BY <2>2, <2>6, <3>3, <4>3, <5>2
                <5> QED BY <5>1, <5>2
            <4> HIDE DEF n
            <4> QED BY <1>1, <2>4, <2>5, <4>1, <4>2, <4>3, ExitFacts
        <3>5. woken[current_proc].status = "EXITED"
            BY <1>1, <2>2, <2>8, <3>3
        <3>6. TableFacts(WithoutIndex(woken, current_proc), n - 1, id_gen)
              /\ current_proc > 0
            <4> HIDE DEF n
            <4> QED BY <1>1, <3>3, <3>4, <3>5, RemoveFacts
        <3>7. WithoutIndex(woken, current_proc) \in [0 .. (n - 1) - 1 -> Process]
            <4> HIDE DEF n
            <4> QED BY <1>1, <3>3, RemoveResult
        <3>8. /\ processes' = WithoutIndex(woken, current_proc)
              /\ proc_count' = n - 1
              /\ SwitchTask(processes', IndexAfterRemove(current_proc))
              /\ mem' = [mem EXCEPT ![parent.wstatus_ref] = status]
            BY <2>1, <2>11
        <3>9. IndexAfterRemove(current_proc) \in Nat
            BY <1>1, <3>6 DEF IndexAfterRemove
        <3>10. mem' \in [0 .. SECTION_COUNT -> Int]
            <4> HIDE DEF parent
            <4> QED BY <2>10, <3>8, ExceptType
        <3>11. n - 1 \in 1 .. SCHEDULER_MAX_TASK_COUNT
            <4>1. n - 1 > 0 BY <3>6 DEF TableFacts
            <4> QED BY <2>10, <4>1, SizesAssumption
        <3>12. PICK m \in 1 .. SCHEDULER_MAX_TASK_COUNT : m = n - 1
            BY <3>11
        <3>13. /\ proc_count' = m /\ processes' \in [0 .. m - 1 -> Process]
               /\ TableFacts(processes', m, id_gen)
            BY <3>6, <3>7, <3>8, <3>12
        <3> QED BY <1>1, <2>9, <3>8, <3>9, <3>10, <3>13, TableStepInv
    <2>12. CASE ~ awaited
        <3>1. processes' = adopted /\ SwitchTask(processes', current_proc)
              /\ UNCHANGED <<mem, proc_count>>
            BY <2>1, <2>12
        <3>2. TableFacts(adopted, n, id_gen)
            <4>1. \A i \in 0 .. n - 1 :
                    /\ adopted[i].id = processes[i].id
                    /\ adopted[i].parent_id
                          = IF processes[i].parent_id = processes[current_proc].id
                            THEN 1 ELSE processes[i].parent_id
                BY <2>2 DEF Cur
            <4>2. ASSUME NEW i \in 0 .. n - 1, i # current_proc
                  PROVE  IF Awaits(processes, current_proc, i)
                         THEN adopted[i].status = "SCHEDULED"
                         ELSE /\ adopted[i].status = processes[i].status
                              /\ adopted[i].wait_pid = processes[i].wait_pid
                <5>1. ~ Awaits(processes, current_proc, i)
                    BY <2>6, <2>7, <2>8, <2>12
                <5> QED BY <2>2, <4>2, <5>1
            <4> HIDE DEF n
            <4> QED BY <1>1, <2>2, <2>4, <2>5, <4>1, <4>2, ExitFacts
        <3>3. mem' \in [0 .. SECTION_COUNT -> Int]
            BY <2>10, <3>1
        <3>4. PICK m \in 1 .. SCHEDULER_MAX_TASK_COUNT : m = n
            BY <2>10
        <3>5. /\ proc_count' = m /\ processes' \in [0 .. m - 1 -> Process]
              /\ TableFacts(processes', m, id_gen)
            BY <2>2, <3>1, <3>2, <3>4
        <3> QED BY <1>1, <2>9, <3>1, <3>3, <3>5, TableStepInv
    <2> QED BY <2>11, <2>12
<1> QED BY <1>2, <1>3, <1>4

-----------------------------------------------------------------------------
(* The theorems                                                            *)

\* Every step keeps the invariant.
LEMMA NextInv == IInv /\ [Next]_vars => IInv'
<1> SUFFICES ASSUME IInv, [Next]_vars PROVE IInv'
    OBVIOUS
<1>1. CASE ProcessStep
    <2>1. CASE ForkFull \/ ExecNoFile
             \/ (\E pid \in {-1} \cup 1 .. MaxPid : WaitUnknown(pid))
        <3>1. Trivial(-1)
            BY <2>1 DEF ForkFull, ExecNoFile, WaitUnknown
        <3> QED BY <3>1, TrivialInv
    <2>2. CASE Fork
        BY <2>2, ForkInv
    <2>3. CASE \E status \in ExitStatuses : Exit(status)
        <3>1. PICK status \in ExitStatuses : CurProcExit(status)
            BY <2>3 DEF Exit
        <3>2. status \in Int
            BY ProgramsAssumption
        <3> QED BY <3>1, <3>2, ExitInv
    <2>4. CASE DataAbort
        <3>1. PICK status \in Int : status = 1 OBVIOUS
        <3>2. CurProcExit(status) BY <2>4, <3>1 DEF DataAbort
        <3> QED BY <3>2, ExitInv
    <2>5. CASE \E pid \in 1 .. MaxPid, ref \in 0 .. SECTION_COUNT :
                  WaitSuspend(pid, ref) \/ WaitReap(pid, ref)
        BY <2>5, WaitSuspendInv, WaitReapInv
    <2>6. CASE \E loaded \in BOOLEAN : Exec(loaded)
        BY <2>6, FileCallsInv
    <2> QED BY <1>1, <2>1, <2>2, <2>3, <2>4, <2>5, <2>6 DEF ProcessStep
<1>2. CASE FileStep
    <2>1. CASE \/ Open \/ KeyPressed \/ \E fd \in Fds : Close(fd)
               \/ \E fd \in Fds, status \in {-1, 0} : FileCall(fd, status)
        BY <2>1, FileCallsInv
    <2>2. CASE OpenFails \/ \E fd \in Fds : CloseUnknown(fd)
        <3>1. Trivial(-1)
            BY <2>2 DEF OpenFails, CloseUnknown
        <3> QED BY <3>1, TrivialInv
    <2>3. CASE \E fd \in Fds : ReadTty(fd)
        BY <2>3, QuietInv
    <2>4. CASE \E status \in {-1, 0} : PathCall(status)
        <3>1. PICK status \in {-1, 0} : Trivial(status)
            BY <2>4 DEF PathCall
        <3>2. status \in Int
            BY <3>1
        <3> QED BY <3>1, <3>2, TrivialInv
    <2> QED BY <1>2, <2>1, <2>2, <2>3, <2>4 DEF FileStep
<1>3. CASE OtherStep
    <2>1. CASE TimerIrq \/ \E word \in StoredWords : UserStore(word)
        BY <2>1, QuietInv
    <2>2. CASE \E arg \in ExitStatuses : Yield(arg)
        <3>1. PICK arg \in Int : Trivial(arg)
            BY <2>2, ProgramsAssumption DEF Yield
        <3> QED BY <3>1, TrivialInv
    <2>3. CASE Getpid \/ Getppid
        <3>1. Cur \in Process
            <4>1. cpu = "user" BY <2>3 DEF Getpid, Getppid, Trivial
            <4> QED BY <4>1, UserState
        <3>2. Cur.id \in Int /\ Cur.parent_id \in Int
            BY <3>1 DEF Process
        <3>3. PICK status \in Int : Trivial(status)
            BY <2>3, <3>2 DEF Getpid, Getppid
        <3> QED BY <3>3, TrivialInv
    <2>4. CASE InvalidSyscall
        <3>1. Trivial(-1)
            BY <2>4 DEF InvalidSyscall
        <3> QED BY <3>1, TrivialInv
    <2>5. CASE SyscallReboot
        BY <2>5, DieInv DEF SyscallReboot, PanicReasons
    <2>6. CASE SyscallMount \/ BadPointer \/ ElfFatal \/ UnhandledException
        BY <2>6, DieInv
        DEF SyscallMount, BadPointer, ElfFatal, UnhandledException, PanicReasons
    <2> QED BY <1>3, <2>1, <2>2, <2>3, <2>4, <2>5, <2>6 DEF OtherStep
<1>4. CASE SchedulerStart
    BY <1>4, StartInv
<1>5. CASE BootFails \/ Reboot
    BY <1>5, QuietInv
<1>6. CASE UNCHANGED vars
    <2>1. /\ UNCHANGED <<processes, proc_count, current_proc, id_gen>>
          /\ UNCHANGED <<sections, tables, l1, mem>>
          /\ UNCHANGED <<fd_count, heap, released>>
          /\ UNCHANGED <<ttbr, cpu, panic>> /\ UNCHANGED last_exit
        BY <1>6 DEF vars, schedVars, memVars, fileVars, cpuVars
    <2>2. TypeOK' /\ BootState' /\ CurrentIsScheduled'
        BY <2>1 DEF IInv, TypeOK, BootState, CurrentIsScheduled, Indices, Cur,
                    Running
    <2>3. TableInv'
        BY <2>1, TableFrame DEF IInv, Running
    <2> QED BY <2>2, <2>3 DEF IInv
<1> QED BY <1>1, <1>2, <1>3, <1>4, <1>5, <1>6 DEF Next

\* The invariant holds in every reachable state.
THEOREM Invariance == Spec => []IInv
<1>1. Init => IInv BY InitInv
<1>2. IInv /\ [Next]_vars => IInv' BY NextInv
<1> QED BY <1>1, <1>2, PTL DEF Spec

\* Type correctness.
THEOREM TypeCorrect == Spec => []TypeOK
<1>1. IInv => TypeOK BY DEF IInv
<1> QED BY <1>1, Invariance, PTL

\* The table stays sorted by pid, with init alive in slot 0.
THEOREM TableStaysSorted == Spec => []TableSorted
<1>1. IInv => TableSorted BY DEF IInv, TableInv
<1> QED BY <1>1, Invariance, PTL

\* Every process but init always has a live parent in the table: the
\* adoption in scheduler_cur_proc_exit misses no child.
THEOREM ParentsStayAlive == Spec => []ParentAlive
<1>1. IInv => ParentAlive BY DEF IInv, TableInv
<1> QED BY <1>1, Invariance, PTL

\* current_proc always designates a scheduled process whose table the MMU
\* uses, across every removal and every switch.
THEOREM CurrentStaysScheduled == Spec => []CurrentIsScheduled
<1>1. IInv => CurrentIsScheduled BY DEF IInv
<1> QED BY <1>1, Invariance, PTL

\* No wake-up is lost when the programs only wait for their children.
THEOREM NoLostWakeup == ASSUME ChildWaitOnly PROVE Spec => []WaitsOnLiveChild
<1>1. IInv => WaitsOnLiveChild BY DEF IInv, TableInv
<1> QED BY <1>1, Invariance, PTL

-----------------------------------------------------------------------------
(* The scheduler's own checks never fail                                   *)

\* When programs only wait for their children some process is scheduled: the
\* youngest live process cannot wait, for its child would be younger.
LEMMA SomeoneScheduled ==
    ASSUME ChildWaitOnly, NEW n \in Nat, NEW procs \in [0 .. n - 1 -> Process],
           NEW g, TableFacts(procs, n, g)
    PROVE  Scheduled(procs) # {}
<1> DEFINE live == {i \in 0 .. n - 1 : procs[i].status # "EXITED"}
<1>1. n > 0 /\ 0 \in live /\ live \subseteq 0 .. n
    BY DEF TableFacts
<1>2. PICK x \in live : \A y \in live : y <= x
    <2> HIDE DEF live
    <2> QED BY <1>1, GreatestExists
<1>3. x \in 0 .. n - 1 /\ procs[x] \in Process /\ procs[x].status # "EXITED"
    OBVIOUS
<1>4. CASE procs[x].status = "SUSPENDED"
    <2>1. PICK j \in 0 .. n - 1 : /\ procs[j].parent_id = procs[x].id
                                  /\ procs[j].status # "EXITED"
        BY <1>3, <1>4 DEF TableFacts
    <2>2. j <= x
        BY <1>2, <2>1
    <2>3. procs[j].id \in Nat /\ procs[x].id \in Nat /\ procs[0].id = 1
        BY <1>3 DEF Process, TableFacts
    <2>4. CASE procs[j].id = 1
        <3>1. j = 0
            BY <1>1, <2>3, <2>4 DEF TableFacts
        <3>2. procs[x].id = 0
            BY <2>1, <3>1 DEF TableFacts
        <3>3. x = 0 \/ procs[0].id < procs[x].id
            BY <1>1, <1>3 DEF TableFacts
        <3> QED BY <2>3, <3>2, <3>3
    <2>5. CASE procs[j].id # 1
        <3>1. PICK l \in 0 .. n - 1 : l < j /\ procs[l].id = procs[x].id
            BY <2>1, <2>5 DEF TableFacts
        <3>2. procs[l].id < procs[x].id
            BY <1>3, <2>2, <3>1 DEF TableFacts
        <3> QED BY <2>3, <3>1, <3>2
    <2> QED BY <2>4, <2>5
<1>5. CASE procs[x].status = "SCHEDULED"
    BY <1>3, <1>5 DEF Scheduled
<1> QED BY <1>3, <1>4, <1>5 DEF Process, Statuses

\* So a switch on a well-formed table does not panic.
LEMMA SwitchNoPanic ==
    ASSUME ChildWaitOnly, IInv', proc_count' > 0, NEW cur,
           SwitchTask(processes', cur)
    PROVE  panic' = panic
<1>1. proc_count' \in Nat /\ processes' \in [0 .. proc_count' - 1 -> Process]
    <2>1. TypeOK'
        BY DEF IInv
    <2>2. proc_count' \in 0 .. SCHEDULER_MAX_TASK_COUNT
        BY <2>1 DEF TypeOK
    <2>3. processes' \in [0 .. proc_count' - 1 -> Process]
        BY <2>1 DEF TypeOK, Indices
    <2>4. proc_count' \in Nat
        BY <2>2, SizesAssumption
    <2> QED BY <2>3, <2>4
<1>2. TableFacts(processes', proc_count', id_gen')
    <2>1. TableSorted' /\ ParentAlive' /\ WaitsOnLiveChild'
        BY DEF IInv, TableInv
    <2>2. Indices' = 0 .. proc_count' - 1
        BY DEF Indices
    <2> QED BY <2>1, <2>2
            DEF TableSorted, ParentAlive, WaitsOnLiveChild, TableFacts, Live,
                INIT_PROC_ID
<1>3. Scheduled(processes') # {}
    BY <1>1, <1>2, SomeoneScheduled
<1> QED BY <1>3 DEF SwitchTask

\* A child's slot is above its parent's: the removal of an exited child moves
\* no slot that the current process could be in.
LEMMA ChildAbove ==
    ASSUME NEW n \in Nat, NEW procs \in [0 .. n - 1 -> Process], NEW g,
           TableFacts(procs, n, g), NEW c \in 0 .. n - 1, NEW k \in 0 .. n - 1,
           procs[k].parent_id = procs[c].id
    PROVE  c < k
<1>1. procs[c].id \in Nat /\ procs[k].id \in Nat
    BY DEF Process
<1>2. CASE procs[k].id = 1
    <2>1. k = 0 /\ procs[c].id = 0
        BY <1>1, <1>2 DEF TableFacts
    <2>2. c = 0 \/ procs[0].id < procs[c].id
        BY <2>1 DEF TableFacts
    <2> QED BY <1>1, <2>1, <2>2 DEF TableFacts
<1>3. CASE procs[k].id # 1
    <2>1. PICK l \in 0 .. n - 1 : l < k /\ procs[l].id = procs[c].id
        BY <1>3 DEF TableFacts
    <2>2. l = c
        BY <1>1, <2>1 DEF TableFacts
    <2> QED BY <2>1, <2>2
<1> QED BY <1>2, <1>3

\* No exit finds its parent missing.
LEMMA ExitNoPanic ==
    ASSUME ChildWaitOnly, IInv, IInv', NEW status \in Int, CurProcExit(status)
    PROVE  NoTablePanic'
<1>1. /\ Running /\ panic = "none" /\ cpu = "user"
      /\ proc_count \in Nat /\ processes \in [0 .. proc_count - 1 -> Process]
      /\ current_proc \in 0 .. proc_count - 1 /\ current_proc \in Nat
      /\ Cur \in Process /\ Cur.status = "SCHEDULED"
    BY UserState DEF CurProcExit
<1>2. CASE Cur.id = INIT_PROC_ID
    BY <1>2 DEF CurProcExit, Die, Fatal, NoTablePanic, TablePanics
<1>3. CASE Cur.id # INIT_PROC_ID
    <2>1. TableFacts(processes, proc_count, id_gen)
        BY <1>1, FactsOfInv
    <2>2. AdoptedTable(ExitTable(status), proc_count)
        BY <1>1, AdoptResult
    <2>3. PICK j \in 0 .. proc_count - 1 :
             j < current_proc /\ processes[j].id = Cur.parent_id
        BY <1>1, <1>3, <2>1 DEF TableFacts, Cur, INIT_PROC_ID
    <2>4. Cur.parent_id \in Ids(ExitTable(status))
        BY <2>2, <2>3 DEF AdoptedTable, Ids
    <2>5. \/ /\ proc_count' = proc_count - 1
             /\ SwitchTask(processes', IndexAfterRemove(current_proc))
          \/ proc_count' = proc_count /\ SwitchTask(processes', current_proc)
        BY <1>3, <2>4 DEF CurProcExit, ExitTable
    <2>6. proc_count' > 0 /\ \E cur : SwitchTask(processes', cur)
        BY <1>1, <2>3, <2>5
    <2>7. panic' = panic
        BY <2>6, SwitchNoPanic
    <2> QED BY <1>1, <2>7 DEF NoTablePanic, TablePanics
<1> QED BY <1>2, <1>3

\* A reap finds the caller in its slot when it returns.
LEMMA ReapNoPanic ==
    ASSUME ChildWaitOnly, IInv, IInv', NEW pid \in 1 .. MaxPid,
           NEW ref \in 0 .. SECTION_COUNT, WaitReap(pid, ref)
    PROVE  NoTablePanic'
<1> DEFINE k == FindProc(processes, pid)
           after == WithoutIndex(processes, k)
<1>1. /\ Running /\ panic = "none" /\ cpu = "user"
      /\ proc_count \in Nat /\ processes \in [0 .. proc_count - 1 -> Process]
      /\ current_proc \in 0 .. proc_count - 1 /\ current_proc \in Nat
      /\ Cur \in Process /\ Cur.status = "SCHEDULED"
    BY UserState DEF WaitReap
<1>2. /\ pid \in Ids(processes) /\ MayWait(pid)
      /\ proc_count' = proc_count - 1
      /\ IF ReapFailure(k) = "none"
         THEN Return(after, pid)
         ELSE Fatal(ReapFailure(k))
    BY DEF WaitReap
<1>3. k \in 0 .. proc_count - 1 /\ processes[k].id = pid
    BY <1>1, <1>2, FindProcIn
<1> HIDE DEF k
<1>4. TableFacts(processes, proc_count, id_gen)
    BY <1>1, FactsOfInv
<1>5. current_proc < k
    <2>1. processes[k].parent_id = processes[current_proc].id
        BY <1>2, <1>3 DEF MayWait, Indices, Cur
    <2> QED BY <1>1, <1>3, <1>4, <2>1, ChildAbove
<1>6. /\ after \in [0 .. (proc_count - 1) - 1 -> Process]
      /\ \A i \in 0 .. (proc_count - 1) - 1 :
            after[i] = processes[IF i < k THEN i ELSE i + 1]
    BY <1>1, <1>3, RemoveResult
<1>7. current_proc \in DOMAIN after /\ after[current_proc].id = Cur.id
    <2> HIDE DEF after
    <2>1. current_proc \in 0 .. (proc_count - 1) - 1
        BY <1>1, <1>3, <1>5
    <2> QED BY <1>5, <1>6, <2>1 DEF Cur
<1>8. IndexAfterRemove(k) = current_proc
    BY <1>1, <1>5 DEF IndexAfterRemove
<1>9. ReapFailure(k) \in {"none", "removed_with_resources"}
    BY <1>7, <1>8 DEF ReapFailure
<1>10. CASE ReapFailure(k) = "none"
    <2>1. SwitchTask(processes', current_proc) /\ proc_count' > 0
        BY <1>1, <1>2, <1>3, <1>5, <1>10 DEF Return
    <2>2. panic' = panic
        BY <2>1, SwitchNoPanic
    <2> QED BY <1>1, <2>2 DEF NoTablePanic, TablePanics
<1>11. CASE ReapFailure(k) = "removed_with_resources"
    BY <1>2, <1>11 DEF Fatal, NoTablePanic, TablePanics
<1> QED BY <1>9, <1>10, <1>11

\* A trap that ends in a switch and changes at most the table's contents.
LEMMA ReturnNoPanic ==
    ASSUME ChildWaitOnly, IInv, IInv', cpu \in {"user", "tty"},
           proc_count' \in {proc_count, proc_count + 1},
           \E cur : SwitchTask(processes', cur)
    PROVE  NoTablePanic'
<1>1. proc_count' > 0 /\ panic = "none"
    BY UserState
<1>2. panic' = panic
    BY <1>1, SwitchNoPanic
<1> QED BY <1>1, <1>2 DEF NoTablePanic, TablePanics

\* A trap that stops the machine for another reason.
LEMMA DieNoPanic ==
    ASSUME NEW reason, reason \notin TablePanics, Die(reason)
    PROVE  NoTablePanic'
BY DEF Die, Fatal, NoTablePanic

\* No step makes one of the scheduler's checks of its table fail.
LEMMA NextNoPanic ==
    ChildWaitOnly /\ IInv /\ IInv' /\ NoTablePanic /\ [Next]_vars => NoTablePanic'
<1> SUFFICES ASSUME ChildWaitOnly, IInv, IInv', NoTablePanic, [Next]_vars
             PROVE  NoTablePanic'
    OBVIOUS
<1>1. ASSUME NEW status, Trivial(status) PROVE NoTablePanic'
    <2>1. /\ cpu \in {"user", "tty"} /\ proc_count' \in {proc_count, proc_count + 1}
          /\ SwitchTask(processes', current_proc)
        BY <1>1 DEF Trivial, Return
    <2> QED BY <2>1, ReturnNoPanic
<1>2. CASE ProcessStep
    <2>1. CASE \/ ForkFull \/ ExecNoFile
               \/ \E pid \in {-1} \cup 1 .. MaxPid : WaitUnknown(pid)
        BY <1>1, <2>1 DEF ForkFull, ExecNoFile, WaitUnknown
    <2>2. CASE Fork
        <3>1. CASE Sections \subseteq sections \/ Tables \subseteq tables
            BY <2>2, <3>1, DieNoPanic DEF Fork, TablePanics
        <3>2. CASE ~ (Sections \subseteq sections \/ Tables \subseteq tables)
            <4>1. /\ cpu \in {"user", "tty"}
                  /\ proc_count' \in {proc_count, proc_count + 1}
                  /\ SwitchTask(processes', current_proc)
                BY <2>2, <3>2 DEF Fork, Return
            <4> QED BY <4>1, ReturnNoPanic
        <3> QED BY <3>1, <3>2
    <2>3. CASE DataAbort \/ \E status \in ExitStatuses : Exit(status)
        <3>1. PICK status \in Int : CurProcExit(status)
            BY <2>3, ProgramsAssumption DEF DataAbort, Exit
        <3> QED BY <3>1, ExitNoPanic
    <2>4. CASE \E pid \in 1 .. MaxPid, ref \in 0 .. SECTION_COUNT :
                  WaitSuspend(pid, ref)
        <3>1. /\ cpu \in {"user", "tty"}
              /\ proc_count' \in {proc_count, proc_count + 1}
              /\ SwitchTask(processes', current_proc)
            BY <2>4 DEF WaitSuspend, Return
        <3> QED BY <3>1, ReturnNoPanic
    <2>5. CASE \E pid \in 1 .. MaxPid, ref \in 0 .. SECTION_COUNT :
                  WaitReap(pid, ref)
        BY <2>5, ReapNoPanic
    <2>6. CASE \E loaded \in BOOLEAN : Exec(loaded)
        <3>1. CASE heap = HEAP_CAPACITY
            BY <2>6, <3>1, DieNoPanic DEF Exec, TablePanics
        <3>2. CASE heap # HEAP_CAPACITY
            <4>1. /\ cpu \in {"user", "tty"}
                  /\ proc_count' \in {proc_count, proc_count + 1}
                  /\ SwitchTask(processes', current_proc)
                BY <2>6, <3>2 DEF Exec, Return
            <4> QED BY <4>1, ReturnNoPanic
        <3> QED BY <3>1, <3>2
    <2> QED BY <1>2, <2>1, <2>2, <2>3, <2>4, <2>5, <2>6 DEF ProcessStep
<1>3. CASE FileStep
    <2>1. CASE Open
        <3>1. CASE heap = HEAP_CAPACITY
            BY <2>1, <3>1, DieNoPanic DEF Open, TablePanics
        <3>2. CASE heap # HEAP_CAPACITY
            <4>1. /\ cpu \in {"user", "tty"}
                  /\ proc_count' \in {proc_count, proc_count + 1}
                  /\ SwitchTask(processes', current_proc)
                BY <2>1, <3>2 DEF Open, Return
            <4> QED BY <4>1, ReturnNoPanic
        <3> QED BY <3>1, <3>2
    <2>2. CASE KeyPressed \/ \E fd \in Fds, status \in {-1, 0} : FileCall(fd, status)
        <3>1. /\ cpu \in {"user", "tty"}
              /\ proc_count' \in {proc_count, proc_count + 1}
              /\ SwitchTask(processes', current_proc)
            BY <2>2 DEF KeyPressed, FileCall, Return
        <3> QED BY <3>1, ReturnNoPanic
    <2>3. CASE \E fd \in Fds : Close(fd)
        <3>1. PICK fd \in Fds : Close(fd)
            BY <2>3
        <3> DEFINE f == Cur.files[fd]
        <3>2. CASE fd_count[f] = 0
            BY <3>1, <3>2, DieNoPanic DEF Close, TablePanics
        <3>3. CASE fd_count[f] # 0 /\ fd_count[f] # 1
            <4>1. Fatal("assert_fd_count_zero")
                BY <3>1, <3>3 DEF Close
            <4> QED BY <4>1 DEF Fatal, NoTablePanic, TablePanics
        <3>4. CASE fd_count[f] = 1
            <4>1. /\ cpu \in {"user", "tty"}
                  /\ proc_count' \in {proc_count, proc_count + 1}
                  /\ SwitchTask(processes', current_proc)
                BY <3>1, <3>4 DEF Close, Return
            <4> QED BY <4>1, ReturnNoPanic
        <3> QED BY <3>2, <3>3, <3>4
    <2>4. CASE \E fd \in Fds : ReadTty(fd)
        BY <2>4 DEF ReadTty, NoTablePanic
    <2>5. CASE \/ OpenFails \/ \E fd \in Fds : CloseUnknown(fd)
               \/ \E status \in {-1, 0} : PathCall(status)
        BY <1>1, <2>5 DEF OpenFails, CloseUnknown, PathCall
    <2> QED BY <1>3, <2>1, <2>2, <2>3, <2>4, <2>5 DEF FileStep
<1>4. CASE OtherStep
    <2>1. CASE \/ \E arg \in ExitStatuses : Yield(arg)
               \/ Getpid \/ Getppid \/ InvalidSyscall
        BY <1>1, <2>1 DEF Yield, Getpid, Getppid, InvalidSyscall
    <2>2. CASE \/ SyscallReboot \/ SyscallMount \/ BadPointer \/ ElfFatal
               \/ UnhandledException
        BY <2>2, DieNoPanic DEF SyscallReboot, SyscallMount, BadPointer, ElfFatal,
                                UnhandledException, TablePanics
    <2>3. CASE TimerIrq
        <3>1. /\ cpu \in {"user", "tty"}
              /\ proc_count' \in {proc_count, proc_count + 1}
              /\ SwitchTask(processes', current_proc)
            BY <2>3 DEF TimerIrq
        <3> QED BY <3>1, ReturnNoPanic
    <2>4. CASE \E word \in StoredWords : UserStore(word)
        BY <2>4 DEF UserStore, cpuVars, NoTablePanic
    <2> QED BY <1>4, <2>1, <2>2, <2>3, <2>4 DEF OtherStep
<1>5. CASE SchedulerStart
    <2>1. SwitchTask(processes', 0) /\ proc_count' > 0 /\ panic = "none"
        BY <1>5 DEF SchedulerStart, IInv, TypeOK
    <2>2. panic' = panic
        BY <2>1, SwitchNoPanic
    <2> QED BY <2>1, <2>2 DEF NoTablePanic, TablePanics
<1>6. CASE BootFails \/ Reboot
    BY <1>6 DEF BootFails, Reboot, Fatal, NoTablePanic, TablePanics
<1>7. CASE UNCHANGED vars
    BY <1>7 DEF vars, cpuVars, NoTablePanic
<1> QED BY <1>2, <1>3, <1>4, <1>5, <1>6, <1>7 DEF Next

\* When programs only wait for their children the scheduler never finds itself
\* without a process to run, never misses a parent, and always returns from
\* WAITPID into the process that called it.
THEOREM SchedulerNeverPanics == ASSUME ChildWaitOnly PROVE Spec => []NoTablePanic
<1>1. Init => NoTablePanic
    BY DEF Init, NoTablePanic, TablePanics
<1>2. IInv /\ IInv' /\ NoTablePanic /\ [Next]_vars => NoTablePanic'
    BY NextNoPanic
<1> QED BY <1>1, <1>2, Invariance, PTL DEF Spec

-----------------------------------------------------------------------------
(* What the traps do to the table                                          *)

\* q is p with, at most, another r0, other files and another exit status.
SameProc(q, p) ==
    /\ q.id = p.id /\ q.parent_id = p.parent_id /\ q.status = p.status
    /\ q.wait_pid = p.wait_pid /\ q.wstatus_ref = p.wstatus_ref
    /\ q.section = p.section /\ q.table = p.table

\* The files of every process, their counts and their objects stay; at most
\* one object is allocated and released again at once.
FilesKept ==
    /\ \A i \in Indices : processes'[i].files = processes[i].files
    /\ fd_count' = fd_count
    /\ \/ heap' = heap /\ released' = released
       \/ heap' = heap + 1 /\ released' = released \cup {heap + 1}

\* A new object takes descriptor fd of the current process.
FileOpened(fd) ==
    /\ Cur.files[fd] = NULL
    /\ \A i \in Indices : processes'[i].files =
          IF i = current_proc THEN [Cur.files EXCEPT ![fd] = heap + 1]
                              ELSE processes[i].files
    /\ fd_count' = [fd_count EXCEPT ![heap + 1] = 1]
    /\ heap' = heap + 1 /\ released' = released

\* Descriptor fd of the current process is dropped; an object without
\* references is released.
FileClosed(fd) ==
    LET f == Cur.files[fd] IN
    /\ f # NULL /\ fd_count[f] # 0
    /\ \A i \in Indices : processes'[i].files =
          IF i = current_proc THEN [Cur.files EXCEPT ![fd] = NULL]
                              ELSE processes[i].files
    /\ fd_count' = [fd_count EXCEPT ![f] = @ - 1]
    /\ released' = IF fd_count[f] = 1 THEN released \cup {f} ELSE released
    /\ heap' = heap

\* What a trap or a store writes: a word of the current process's section, or
\* a buffer of it.
OwnWrite ==
    \/ \E word : mem' = [mem EXCEPT ![l1[Cur.table]] = word]
    \/ mem' \in Writes(mem, l1[Cur.table])
    \/ mem' \in Writes([mem EXCEPT ![Cur.section] = 0], l1[Cur.table])

\* The processes and their resources stay as they are. This is every trap but
\* fork, exit and waitpid, and also the end of the boot in a fatal error.
Kept ==
    /\ proc_count' = proc_count /\ id_gen' = id_gen
    /\ sections' = sections /\ tables' = tables /\ l1' = l1
    /\ \A i \in Indices : /\ SameProc(processes'[i], processes[i])
                          /\ i # current_proc => processes'[i] = processes[i]
    /\ mem' = mem \/ (cpu \in {"user", "tty"} /\ OwnWrite)
    /\ cpu' # "boot" \/ cpu = "boot"
    /\ \/ FilesKept
       \/ cpu = "user" /\ \E fd \in Fds : FileOpened(fd) \/ FileClosed(fd)

\* Return on the unchanged records: only the caller's r0 differs.
LEMMA ReturnKept ==
    ASSUME IInv, cpu \in {"user", "tty"}, NEW status \in Int,
           Return(processes, status)
    PROVE  \A i \in Indices : /\ SameProc(processes'[i], processes[i])
                              /\ i # current_proc => processes'[i] = processes[i]
                              /\ processes'[i].files = processes[i].files
<1>1. /\ proc_count \in Nat /\ processes \in [0 .. proc_count - 1 -> Process]
      /\ current_proc \in 0 .. proc_count - 1
    BY UserState
<1>2. \A i \in 0 .. proc_count - 1 :
         /\ i # current_proc => processes'[i] = processes[i]
         /\ processes'[current_proc] = [processes[current_proc] EXCEPT !.r0 = status]
    BY <1>1, ReturnResult
<1>3. ASSUME NEW c \in Process
      PROVE  SameProc([c EXCEPT !.r0 = status], c) /\ [c EXCEPT !.r0 = status].files = c.files
    BY DEF SameProc, Process
<1>4. \A c \in Process : SameProc(c, c)
    BY DEF SameProc
<1> QED BY <1>1, <1>2, <1>3, <1>4 DEF Indices

\* A trap that only has a status to return keeps the processes.
LEMMA TrivialKept ==
    ASSUME IInv, NEW status \in Int,
           \/ Trivial(status)
           \/ KeyPressed /\ status = 1
           \/ \E fd \in Fds : FileCall(fd, status)
    PROVE  Kept
<1>1. /\ cpu \in {"user", "tty"} /\ Return(processes, status)
      /\ mem' = mem \/ OwnWrite
      /\ UNCHANGED <<proc_count, id_gen, sections, tables, l1, fileVars>>
    BY DEF Trivial, KeyPressed, FileCall, memVars, OwnWrite
<1>2. cpu' # "boot"
    BY <1>1 DEF Return, SwitchTask, Fatal
<1> QED BY <1>1, <1>2, ReturnKept DEF Kept, FilesKept, fileVars

\* So does a trap that ends in kernel_fatal_error.
LEMMA DieKept ==
    ASSUME NEW reason, Die(reason)
    PROVE  Kept
BY DEF Die, Fatal, Kept, FilesKept, SameProc, schedVars, memVars, fileVars

\* The timer, a user store, a tty READ that starts to wait, a failed boot.
LEMMA QuietKept ==
    ASSUME IInv,
           \/ TimerIrq \/ (\E w \in StoredWords : UserStore(w))
           \/ (\E fd \in Fds : ReadTty(fd)) \/ BootFails \/ UNCHANGED vars
    PROVE  Kept
<1>1. /\ processes' = processes /\ proc_count' = proc_count /\ id_gen' = id_gen
      /\ sections' = sections /\ tables' = tables /\ l1' = l1
      /\ fd_count' = fd_count /\ heap' = heap /\ released' = released
    BY DEF TimerIrq, UserStore, ReadTty, BootFails, vars, schedVars, memVars, fileVars
<1>2. cpu' # "boot" \/ cpu = "boot"
    BY DEF TimerIrq, UserStore, ReadTty, BootFails, vars, cpuVars, SwitchTask, Fatal
<1>3. \/ mem' = mem
      \/ cpu = "user" /\ \E word : mem' = [mem EXCEPT ![l1[Cur.table]] = word]
    <2>1. CASE \E w \in StoredWords : UserStore(w)
        <3>1. cpu = "user" /\ \E word : mem' = [mem EXCEPT ![l1[ttbr]] = word]
            BY <2>1 DEF UserStore
        <3>2. ttbr = Cur.table
            BY <3>1 DEF IInv, CurrentIsScheduled, Running
        <3> QED BY <3>1, <3>2
    <2>2. CASE \/ TimerIrq \/ (\E fd \in Fds : ReadTty(fd)) \/ BootFails
               \/ UNCHANGED vars
        BY <2>2 DEF TimerIrq, ReadTty, BootFails, vars, memVars
    <2> QED BY <2>1, <2>2
<1> QED BY <1>1, <1>2, <1>3 DEF Kept, OwnWrite, FilesKept, SameProc

\* Setting one descriptor of one process and a later r0.
LEMMA SetFileKept ==
    ASSUME IInv, cpu \in {"user", "tty"}, NEW fd \in Fds,
           NEW f \in 0 .. HEAP_CAPACITY,
           LET new == [processes EXCEPT ![current_proc].files[fd] = f] IN
           processes' = new \/ \E status \in Int : Return(new, status)
    PROVE  \A i \in Indices :
              /\ SameProc(processes'[i], processes[i])
              /\ i # current_proc => processes'[i] = processes[i]
              /\ processes'[i].files = IF i = current_proc
                                       THEN [Cur.files EXCEPT ![fd] = f]
                                       ELSE processes[i].files
<1> DEFINE fs == [Cur.files EXCEPT ![fd] = f]
           rec == [Cur EXCEPT !.files = fs]
           new == [processes EXCEPT ![current_proc] = rec]
<1>1. /\ proc_count \in Nat /\ processes \in [0 .. proc_count - 1 -> Process]
      /\ current_proc \in 0 .. proc_count - 1 /\ Cur \in Process
    BY UserState
<1>2. new = [processes EXCEPT ![current_proc].files[fd] = f]
    BY <1>1 DEF Cur
<1>3. fs \in [Fds -> 0 .. HEAP_CAPACITY]
    BY <1>1 DEF Process
<1> HIDE DEF fs
<1>4. rec \in Process /\ SameProc(rec, Cur) /\ rec.files = fs
    <2>1. ASSUME NEW c \in Process, NEW g \in [Fds -> 0 .. HEAP_CAPACITY]
          PROVE  /\ [c EXCEPT !.files = g] \in Process
                 /\ SameProc([c EXCEPT !.files = g], c)
                 /\ [c EXCEPT !.files = g].files = g
        BY DEF Process, SameProc
    <2> QED BY <1>1, <1>3, <2>1
<1> HIDE DEF rec
<1>5. /\ new \in [0 .. proc_count - 1 -> Process]
      /\ new[current_proc] = rec
      /\ \A i \in 0 .. proc_count - 1 : i # current_proc => new[i] = processes[i]
    BY <1>1, <1>4
<1>6. \A c : SameProc(c, c)
    BY DEF SameProc
<1>7. CASE processes' = new
    BY <1>1, <1>4, <1>5, <1>6, <1>7 DEF Indices, Cur, fs
<1>8. ASSUME NEW status \in Int, Return(new, status)
      PROVE  \A i \in Indices :
                /\ SameProc(processes'[i], processes[i])
                /\ i # current_proc => processes'[i] = processes[i]
                /\ processes'[i].files = IF i = current_proc THEN fs
                                         ELSE processes[i].files
    <2> HIDE DEF new
    <2>1. \A i \in 0 .. proc_count - 1 :
             /\ i # current_proc => processes'[i] = new[i]
             /\ processes'[current_proc] = [new[current_proc] EXCEPT !.r0 = status]
        BY <1>1, <1>5, <1>8, ReturnResult
    <2>2. ASSUME NEW c \in Process
          PROVE  /\ SameProc([c EXCEPT !.r0 = status], c)
                 /\ [c EXCEPT !.r0 = status].files = c.files
        BY DEF SameProc, Process
    <2>3. SameProc(processes'[current_proc], rec) /\ processes'[current_proc].files = fs
        BY <1>1, <1>4, <1>5, <2>1, <2>2
    <2>4. SameProc(processes'[current_proc], processes[current_proc])
        BY <1>4, <2>3 DEF SameProc, Cur
    <2> QED BY <1>1, <1>5, <1>6, <2>1, <2>3, <2>4 DEF Indices
<1> QED BY <1>2, <1>7, <1>8 DEF fs

\* EXEC, OPEN and CLOSE keep the processes; a file may be opened or closed.
LEMMA FileCallsKept ==
    ASSUME IInv, Open \/ (\E fd \in Fds : Close(fd)) \/ (\E b \in BOOLEAN : Exec(b))
    PROVE  Kept
<1>1. /\ cpu = "user" /\ heap \in Nat /\ HEAP_CAPACITY \in Nat
      /\ heap <= HEAP_CAPACITY /\ Cur \in Process
    <2>1. cpu = "user" BY DEF Open, Close, Exec
    <2> QED BY <2>1, UserState, SizesAssumption DEF IInv, TypeOK
<1>2. ASSUME NEW b \in BOOLEAN, Exec(b) PROVE Kept
    <2>1. CASE heap = HEAP_CAPACITY
        BY <1>2, <2>1, DieKept DEF Exec
    <2>2. CASE heap # HEAP_CAPACITY
        <3>1. PICK st \in Int : st = IF b THEN ARGV_POINTER ELSE -1
            BY DEF ARGV_POINTER
        <3>2. /\ heap' = heap + 1 /\ released' = released \cup {heap + 1}
              /\ mem' = mem \/ OwnWrite
              /\ Return(processes, st)
              /\ UNCHANGED <<proc_count, id_gen, sections, tables, l1, fd_count>>
            BY <1>2, <2>2, <3>1 DEF Exec, OwnWrite
        <3>3. cpu' # "boot"
            BY <3>2 DEF Return, SwitchTask, Fatal
        <3>4. FilesKept /\ \A i \in Indices :
                   /\ SameProc(processes'[i], processes[i])
                   /\ i # current_proc => processes'[i] = processes[i]
            BY <1>1, <3>2, ReturnKept DEF FilesKept
        <3> QED BY <1>1, <3>2, <3>3, <3>4 DEF Kept
    <2> QED BY <2>1, <2>2
<1>3. CASE Open
    <2> DEFINE free == {fd \in Fds : Cur.files[fd] = NULL}
    <2>1. CASE heap = HEAP_CAPACITY
        BY <1>3, <2>1, DieKept DEF Open
    <2>2. CASE heap # HEAP_CAPACITY /\ free = {}
        <3>1. PICK st \in Int : st = -1
            OBVIOUS
        <3>2. /\ heap' = heap + 1 /\ released' = released \cup {heap + 1}
              /\ Return(processes, st) /\ UNCHANGED fd_count
              /\ UNCHANGED <<proc_count, id_gen, memVars>>
            BY <1>3, <2>2, <3>1 DEF Open
        <3>3. cpu' # "boot"
            BY <3>2 DEF Return, SwitchTask, Fatal
        <3>4. FilesKept /\ \A i \in Indices :
                   /\ SameProc(processes'[i], processes[i])
                   /\ i # current_proc => processes'[i] = processes[i]
            BY <1>1, <3>2, ReturnKept DEF FilesKept
        <3> QED BY <3>2, <3>3, <3>4 DEF Kept, memVars
    <2>3. CASE heap # HEAP_CAPACITY /\ free # {}
        <3>1. free \subseteq Nat
            BY SizesAssumption DEF Fds
        <3>2. Least(free) \in free
            <4> HIDE DEF free
            <4> QED BY <2>3, <3>1, LeastIsLeast
        <3>3. PICK fd \in free : fd = Least(free)
            BY <3>2
        <3>4. PICK f \in 0 .. HEAP_CAPACITY : f = heap + 1
            BY <1>1, <2>3
        <3>5. /\ heap' = f /\ fd_count' = [fd_count EXCEPT ![f] = 1]
              /\ Return([processes EXCEPT ![current_proc].files[fd] = f], fd)
              /\ UNCHANGED released
              /\ UNCHANGED <<proc_count, id_gen, memVars>>
            BY <1>3, <2>3, <3>3, <3>4 DEF Open
        <3>6. fd \in Fds /\ fd \in Int /\ Cur.files[fd] = NULL
            BY <3>1, <3>3
        <3> HIDE DEF free
        <3>7. \A i \in Indices :
                 /\ SameProc(processes'[i], processes[i])
                 /\ i # current_proc => processes'[i] = processes[i]
                 /\ processes'[i].files = IF i = current_proc
                                          THEN [Cur.files EXCEPT ![fd] = f]
                                          ELSE processes[i].files
            <4>1. \E st \in Int :
                     Return([processes EXCEPT ![current_proc].files[fd] = f], st)
                BY <3>5, <3>6
            <4> QED BY <1>1, <3>6, <4>1, SetFileKept
        <3>8. FileOpened(fd)
            BY <3>4, <3>5, <3>6, <3>7 DEF FileOpened
        <3>9. cpu' # "boot"
            BY <3>5 DEF Return, SwitchTask, Fatal
        <3> QED BY <1>1, <3>5, <3>6, <3>7, <3>8, <3>9 DEF Kept, memVars
    <2> QED BY <2>1, <2>2, <2>3
<1>4. ASSUME NEW fd \in Fds, Close(fd) PROVE Kept
    <2> DEFINE f == Cur.files[fd]
               closed == [processes EXCEPT ![current_proc].files[fd] = NULL]
    <2>1. CASE fd_count[f] = 0
        BY <1>4, <2>1, DieKept DEF Close
    <2>2. CASE fd_count[f] # 0
        <3>1. /\ f # NULL /\ fd_count' = [fd_count EXCEPT ![f] = @ - 1]
              /\ IF fd_count[f] = 1
                 THEN Return(closed, 0) /\ released' = released \cup {f}
                 ELSE /\ Fatal("assert_fd_count_zero")
                      /\ processes' = closed
                      /\ UNCHANGED <<current_proc, released>>
              /\ UNCHANGED <<proc_count, id_gen, memVars, heap>>
            BY <1>4, <2>2 DEF Close
        <3> HIDE DEF f, closed
        <3>2. PICK z \in Int : z = 0
            OBVIOUS
        <3>3. processes' = closed \/ \E st \in Int : Return(closed, st)
            BY <3>1, <3>2
        <3>4. \A i \in Indices :
                 /\ SameProc(processes'[i], processes[i])
                 /\ i # current_proc => processes'[i] = processes[i]
                 /\ processes'[i].files = IF i = current_proc
                                          THEN [Cur.files EXCEPT ![fd] = NULL]
                                          ELSE processes[i].files
            <4>1. NULL \in 0 .. HEAP_CAPACITY
                BY <1>1 DEF NULL
            <4> QED BY <1>1, <3>3, <4>1, SetFileKept DEF closed
        <3>5. released' = IF fd_count[f] = 1 THEN released \cup {f} ELSE released
            BY <3>1
        <3>6. cpu' # "boot"
            BY <3>1 DEF Return, SwitchTask, Fatal
        <3>7. FileClosed(fd)
            BY <2>2, <3>1, <3>4, <3>5 DEF FileClosed, f
        <3> QED BY <1>1, <3>1, <3>4, <3>6, <3>7 DEF Kept, memVars
    <2> QED BY <2>1, <2>2
<1> QED BY <1>2, <1>3, <1>4


\* A child is appended: the record of its parent but for its pid, parent, r0,
\* section and table, which were free.
ForkStep ==
    /\ cpu = "user" /\ cpu' # "boot" /\ proc_count < SCHEDULER_MAX_TASK_COUNT
    /\ id_gen < MaxPid
    /\ proc_count' = proc_count + 1 /\ id_gen' = id_gen + 1
    /\ \E s \in Sections \ sections, t \in Tables \ tables :
          /\ sections' = sections \cup {s} /\ tables' = tables \cup {t}
          /\ l1' = [l1 EXCEPT ![t] = s]
          /\ mem' = [mem EXCEPT ![s] = mem[Cur.section]]
          /\ processes'[proc_count].section = s
          /\ processes'[proc_count].table = t
    /\ \A i \in Indices : /\ SameProc(processes'[i], processes[i])
                          /\ i # current_proc => processes'[i] = processes[i]
                          /\ processes'[i].files = processes[i].files
    /\ processes'[proc_count].id = id_gen + 1
    /\ processes'[proc_count].parent_id = Cur.id
    /\ processes'[proc_count].status = "SCHEDULED"
    /\ processes'[proc_count].wait_pid = Cur.wait_pid
    /\ processes'[proc_count].files = Cur.files
    /\ fd_count' = ForkedCounts /\ heap' = heap /\ released' = released

\* The fields of a forked record that ForkedRecord does not tell.
LEMMA ForkedFields ==
    ASSUME NEW c \in Process, NEW pid \in Nat, NEW ppid \in Nat, NEW r \in Int,
           NEW s \in 0 .. SECTION_COUNT, NEW t \in 0 .. TABLE_COUNT
    PROVE  /\ Forked(c, pid, ppid, r, s, t).wait_pid = c.wait_pid
           /\ Forked(c, pid, ppid, r, s, t).section = s
           /\ Forked(c, pid, ppid, r, s, t).table = t
           /\ Forked(c, pid, ppid, r, s, t).files = c.files
BY DEF Forked, Process

\* FORK appends a child, or stops the machine and keeps the processes.
LEMMA ForkEffect ==
    ASSUME IInv, Fork
    PROVE  \/ ForkStep
           \/ /\ Kept /\ Die("alloc_failed")
              /\ proc_count < SCHEDULER_MAX_TASK_COUNT
              /\ Sections \subseteq sections \/ Tables \subseteq tables
<1> DEFINE pid == id_gen + 1
           s == FirstFree(Sections, sections)
           t == FirstFree(Tables, tables)
           child == [Cur EXCEPT !.id = pid, !.parent_id = Cur.id, !.r0 = 0,
                                !.section = s, !.table = t]
           table == [i \in 0 .. proc_count |->
                        IF i = proc_count THEN child ELSE processes[i]]
           n == proc_count + 1
<1>1. /\ cpu = "user"
      /\ proc_count \in Nat /\ processes \in [0 .. proc_count - 1 -> Process]
      /\ current_proc \in 0 .. proc_count - 1 /\ current_proc \in Nat
      /\ Cur \in Process /\ Cur.status = "SCHEDULED" /\ Cur.id \in Nat
      /\ id_gen \in Nat
    <2>1. cpu = "user" BY DEF Fork
    <2>2. Cur \in Process BY <2>1, UserState
    <2>3. Cur.id \in Nat BY <2>2 DEF Process
    <2> QED BY <2>1, <2>3, UserState DEF IInv, TypeOK
<1>2. CASE Sections \subseteq sections \/ Tables \subseteq tables
    BY <1>2, DieKept DEF Fork
<1>3. CASE ~ (Sections \subseteq sections \/ Tables \subseteq tables)
    <2>1. /\ id_gen' = pid /\ proc_count' = n
          /\ Return(table, pid)
          /\ sections' = sections \cup {s} /\ tables' = tables \cup {t}
          /\ l1' = [l1 EXCEPT ![t] = s]
          /\ mem' = [mem EXCEPT ![s] = mem[Cur.section]]
          /\ fd_count' = ForkedCounts
          /\ UNCHANGED <<heap, released>>
          /\ proc_count < SCHEDULER_MAX_TASK_COUNT /\ id_gen < MaxPid
        BY <1>3 DEF Fork
    <2>2. s \in Sections \ sections /\ t \in Tables \ tables
        BY <1>3, FirstFreeIn, SizesAssumption DEF Sections, Tables
    <2>3. s \in 0 .. SECTION_COUNT /\ t \in 0 .. TABLE_COUNT /\ pid \in Nat
        BY <1>1, <2>2 DEF Sections, Tables
    <2> HIDE DEF s, t, pid
    <2>4. /\ child \in Process
          /\ child.id = pid /\ child.parent_id = Cur.id
          /\ child.status = Cur.status /\ child.wait_pid = Cur.wait_pid
          /\ child.section = s /\ child.table = t /\ child.files = Cur.files
        <3>1. PICK c \in Process, e \in Nat, z \in Int : c = Cur /\ e = Cur.id /\ z = 0
            BY <1>1
        <3>2. child = Forked(c, pid, e, z, s, t)
            BY <3>1 DEF Forked
        <3> HIDE DEF child
        <3>3. /\ Forked(c, pid, e, z, s, t) \in Process
              /\ Forked(c, pid, e, z, s, t).id = pid
              /\ Forked(c, pid, e, z, s, t).parent_id = e
              /\ Forked(c, pid, e, z, s, t).status = c.status
            BY <2>3, ForkedRecord
        <3>4. /\ Forked(c, pid, e, z, s, t).wait_pid = c.wait_pid
              /\ Forked(c, pid, e, z, s, t).section = s
              /\ Forked(c, pid, e, z, s, t).table = t
              /\ Forked(c, pid, e, z, s, t).files = c.files
            BY <2>3, ForkedFields
        <3> QED BY <3>1, <3>2, <3>3, <3>4
    <2> HIDE DEF child
    <2>5. /\ table \in [0 .. n - 1 -> Process] /\ n \in Nat
          /\ current_proc \in 0 .. n - 1
          /\ \A i \in 0 .. proc_count - 1 : table[i] = processes[i]
          /\ table[proc_count] = child
        BY <1>1, <2>4
    <2> HIDE DEF table, n
    <2>6. /\ \A i \in 0 .. n - 1 :
                /\ i # current_proc => processes'[i] = table[i]
                /\ processes'[current_proc] = [table[current_proc] EXCEPT !.r0 = pid]
          /\ SwitchTask(processes', current_proc)
        <3>1. Return(table, pid) /\ pid \in Int
            BY <2>1, <2>3
        <3> QED BY <2>5, <3>1, ReturnResult
    <2>7. \A i \in Indices : /\ SameProc(processes'[i], processes[i])
                             /\ i # current_proc => processes'[i] = processes[i]
                             /\ processes'[i].files = processes[i].files
        <3>1. ASSUME NEW c \in Process
              PROVE  /\ SameProc([c EXCEPT !.r0 = pid], c)
                     /\ [c EXCEPT !.r0 = pid].files = c.files
            BY DEF SameProc, Process
        <3>2. \A c : SameProc(c, c)
            BY DEF SameProc
        <3>3. \A i \in Indices : i \in 0 .. n - 1 /\ i \in 0 .. proc_count - 1
            BY <1>1 DEF Indices, n
        <3>4. ASSUME NEW i \in Indices, i = current_proc
              PROVE  /\ SameProc(processes'[i], processes[i])
                     /\ processes'[i].files = processes[i].files
            <4>1. processes'[i] = [processes[i] EXCEPT !.r0 = pid] /\ processes[i] \in Process
                BY <1>1, <2>5, <2>6, <3>3, <3>4
            <4> QED BY <3>1, <4>1
        <3>5. ASSUME NEW i \in Indices, i # current_proc
              PROVE  processes'[i] = processes[i]
            BY <2>5, <2>6, <3>3, <3>5
        <3> QED BY <3>2, <3>4, <3>5
    <2>8. processes'[proc_count] = child
        <3>1. proc_count \in 0 .. n - 1 /\ proc_count # current_proc
            BY <1>1 DEF n
        <3> QED BY <2>5, <2>6, <3>1
    <2>9. cpu' # "boot"
        BY <2>6 DEF SwitchTask, Fatal
    <2>10. /\ processes'[proc_count].section = s /\ processes'[proc_count].table = t
           /\ processes'[proc_count].status = "SCHEDULED"
           /\ processes'[proc_count].parent_id = Cur.id
           /\ processes'[proc_count].wait_pid = Cur.wait_pid
           /\ processes'[proc_count].files = Cur.files
           /\ processes'[proc_count].id = id_gen + 1
        BY <1>1, <2>4, <2>8 DEF pid
    <2> QED BY <1>1, <2>1, <2>2, <2>7, <2>9, <2>10 DEF ForkStep, n, pid
<1> QED BY <1>2, <1>3

\* The current process waits for pid.
SuspendStep(pid, ref) ==
    /\ cpu = "user" /\ cpu' # "boot"
    /\ ref \in StatusRefs /\ pid \in Ids(processes) /\ MayWait(pid)
    /\ processes[FindProc(processes, pid)].status # "EXITED"
    /\ proc_count' = proc_count /\ id_gen' = id_gen
    /\ sections' = sections /\ tables' = tables /\ l1' = l1 /\ mem' = mem
    /\ fd_count' = fd_count /\ heap' = heap /\ released' = released
    /\ \A i \in Indices :
          /\ i # current_proc => processes'[i] = processes[i]
          /\ processes'[i].id = processes[i].id
          /\ processes'[i].parent_id = processes[i].parent_id
          /\ processes'[i].section = processes[i].section
          /\ processes'[i].table = processes[i].table
          /\ processes'[i].files = processes[i].files
    /\ processes'[current_proc].status = "SUSPENDED"
    /\ processes'[current_proc].wait_pid = pid
    /\ processes'[current_proc].wstatus_ref = ref

\* WAITPID on a live process.
LEMMA SuspendEffect ==
    ASSUME IInv, NEW pid \in 1 .. MaxPid, NEW ref \in 0 .. SECTION_COUNT,
           WaitSuspend(pid, ref)
    PROVE  SuspendStep(pid, ref)
<1> DEFINE me == Waiting(Cur, pid, ref)
           table == [processes EXCEPT ![current_proc] = me]
<1>1. /\ cpu = "user"
      /\ proc_count \in Nat /\ processes \in [0 .. proc_count - 1 -> Process]
      /\ current_proc \in 0 .. proc_count - 1 /\ Cur \in Process
    BY UserState DEF WaitSuspend
<1>2. Return(table, 0)
    <2>1. table = [processes EXCEPT ![current_proc] =
                     [@ EXCEPT !.status = "SUSPENDED", !.wait_pid = pid,
                               !.wstatus_ref = ref]]
        BY <1>1 DEF Waiting, Cur
    <2> HIDE DEF table
    <2> QED BY <2>1 DEF WaitSuspend
<1>3. /\ me \in Process /\ me.id = Cur.id /\ me.parent_id = Cur.parent_id
      /\ me.wait_pid = pid /\ me.status = "SUSPENDED" /\ me.wstatus_ref = ref
      /\ me.section = Cur.section /\ me.table = Cur.table /\ me.files = Cur.files
    <2>1. pid \in Nat BY SizesAssumption
    <2>2. ASSUME NEW c \in Process
          PROVE  /\ Waiting(c, pid, ref).wstatus_ref = ref
                 /\ Waiting(c, pid, ref).section = c.section
                 /\ Waiting(c, pid, ref).table = c.table
                 /\ Waiting(c, pid, ref).files = c.files
        BY <2>1 DEF Waiting, Process
    <2> QED BY <1>1, <2>1, <2>2, WaitingRecord
<1> HIDE DEF me
<1>4. /\ table \in [0 .. proc_count - 1 -> Process] /\ table[current_proc] = me
      /\ \A i \in 0 .. proc_count - 1 : i # current_proc => table[i] = processes[i]
    BY <1>1, <1>3
<1> HIDE DEF table
<1>5. PICK z \in Int : z = 0 /\ Return(table, z)
    BY <1>2
<1>6. /\ \A i \in 0 .. proc_count - 1 :
            /\ i # current_proc => processes'[i] = table[i]
            /\ processes'[current_proc] = [table[current_proc] EXCEPT !.r0 = z]
      /\ SwitchTask(processes', current_proc)
    BY <1>1, <1>4, <1>5, ReturnResult
<1>7. /\ SameProc(processes'[current_proc], me)
      /\ processes'[current_proc].files = me.files
    <2>1. ASSUME NEW c \in Process
          PROVE  SameProc([c EXCEPT !.r0 = z], c) /\ [c EXCEPT !.r0 = z].files = c.files
        BY DEF SameProc, Process
    <2> QED BY <1>1, <1>3, <1>4, <1>6, <2>1
<1>8. \A i \in Indices :
          /\ i # current_proc => processes'[i] = processes[i]
          /\ processes'[i].id = processes[i].id
          /\ processes'[i].parent_id = processes[i].parent_id
          /\ processes'[i].section = processes[i].section
          /\ processes'[i].table = processes[i].table
          /\ processes'[i].files = processes[i].files
    BY <1>1, <1>3, <1>4, <1>6, <1>7 DEF Indices, SameProc, Cur
<1>9. cpu' # "boot"
    BY <1>6 DEF SwitchTask, Fatal
<1>10. /\ processes'[current_proc].status = "SUSPENDED"
       /\ processes'[current_proc].wait_pid = pid
       /\ processes'[current_proc].wstatus_ref = ref
    BY <1>3, <1>7 DEF SameProc
<1>11. /\ ref \in StatusRefs /\ pid \in Ids(processes) /\ MayWait(pid)
       /\ processes[FindProc(processes, pid)].status # "EXITED"
       /\ proc_count' = proc_count /\ id_gen' = id_gen
       /\ sections' = sections /\ tables' = tables /\ l1' = l1 /\ mem' = mem
       /\ fd_count' = fd_count /\ heap' = heap /\ released' = released
    BY DEF WaitSuspend, memVars, fileVars
<1> QED BY <1>1, <1>8, <1>9, <1>10, <1>11 DEF SuspendStep


\* The slot that a process had before the memmove of _remove_process.
OldIndex(k, j) == IF j < k THEN j ELSE j + 1

\* The slot k of a process that has exited is freed. The caller's r0 is set
\* when the checks that follow pass; otherwise the machine stops.
ReapStep(k, ref) ==
    /\ cpu = "user" /\ cpu' # "boot"
    /\ ref \in StatusRefs /\ MayWait(processes[k].id)
    /\ k \in Indices /\ k # current_proc /\ processes[k].status = "EXITED"
    /\ mem' = [mem EXCEPT ![ref] = processes[k].wstatus]
    /\ proc_count' = proc_count - 1 /\ id_gen' = id_gen
    /\ sections' = sections /\ tables' = tables /\ l1' = l1
    /\ fd_count' = fd_count /\ heap' = heap /\ released' = released
    /\ \A j \in 0 .. proc_count - 2 :
          /\ SameProc(processes'[j], processes[OldIndex(k, j)])
          /\ processes'[j].files = processes[OldIndex(k, j)].files
          /\ j # current_proc => processes'[j] = processes[OldIndex(k, j)]
    /\ IF ReapFailure(k) = "none"
       THEN /\ current_proc \in 0 .. proc_count - 2
            /\ OldIndex(k, current_proc) = current_proc
            /\ processes'[current_proc].r0 = processes[k].id
            /\ SwitchTask(processes', current_proc)
       ELSE /\ Fatal(ReapFailure(k))
            /\ \A j \in 0 .. proc_count - 2 : processes'[j] = processes[OldIndex(k, j)]

\* WAITPID on a process that has exited.
LEMMA ReapEffect ==
    ASSUME IInv, NEW pid \in 1 .. MaxPid, NEW ref \in 0 .. SECTION_COUNT,
           WaitReap(pid, ref)
    PROVE  /\ ReapStep(FindProc(processes, pid), ref)
           /\ processes[FindProc(processes, pid)].id = pid
<1> DEFINE k == FindProc(processes, pid)
           after == WithoutIndex(processes, k)
           m == proc_count - 1
<1>1. /\ Running /\ cpu = "user"
      /\ proc_count \in Nat /\ processes \in [0 .. proc_count - 1 -> Process]
      /\ current_proc \in 0 .. proc_count - 1 /\ current_proc \in Nat
      /\ Cur \in Process /\ Cur.status = "SCHEDULED"
    BY UserState DEF WaitReap
<1>2. /\ pid \in Ids(processes) /\ processes[k].status = "EXITED"
      /\ ref \in StatusRefs /\ MayWait(pid)
      /\ mem' = [mem EXCEPT ![ref] = processes[k].wstatus]
      /\ proc_count' = m
      /\ IF ReapFailure(k) = "none"
         THEN Return(after, pid)
         ELSE /\ Fatal(ReapFailure(k))
              /\ processes' = after
              /\ UNCHANGED current_proc
      /\ id_gen' = id_gen /\ sections' = sections /\ tables' = tables /\ l1' = l1
      /\ fd_count' = fd_count /\ heap' = heap /\ released' = released
    BY DEF WaitReap, fileVars
<1>3. k \in 0 .. proc_count - 1 /\ processes[k].id = pid
    BY <1>1, <1>2, FindProcIn
<1>4. k # current_proc
    BY <1>1, <1>2 DEF Cur
<1> HIDE DEF k
<1>5. TableFacts(processes, proc_count, id_gen) /\ m > 0 /\ m \in Nat
    <2>1. TableFacts(processes, proc_count, id_gen)
        BY <1>1, FactsOfInv
    <2>2. TableFacts(after, m, id_gen)
        BY <1>1, <1>2, <1>3, <2>1, RemoveFacts
    <2>3. m > 0
        BY <2>2 DEF TableFacts
    <2> QED BY <1>1, <2>1, <2>3
<1>6. /\ after \in [0 .. m - 1 -> Process]
      /\ \A j \in 0 .. m - 1 : after[j] = processes[OldIndex(k, j)]
    BY <1>1, <1>3, RemoveResult DEF OldIndex
<1>7. \A c : SameProc(c, c)
    BY DEF SameProc
<1>8. 0 .. m - 1 = 0 .. proc_count - 2
    BY <1>1
<1>9. CASE ReapFailure(k) = "none"
    <2>1. Return(after, pid)
        BY <1>2, <1>9
    <2>2. current_proc \in 0 .. m - 1 /\ after[current_proc].id = Cur.id
        <3>1. IndexAfterRemove(k) = current_proc
            BY <1>4 DEF IndexAfterRemove
        <3>2. current_proc \in DOMAIN after /\ after[current_proc].id = Cur.id
            BY <1>9, <3>1 DEF ReapFailure
        <3> HIDE DEF after, m
        <3> QED BY <1>6, <3>2
    <2> HIDE DEF after, m
    <2>3. OldIndex(k, current_proc) = current_proc
        <3>1. CASE current_proc < k
            BY <3>1 DEF OldIndex
        <3>2. CASE ~ (current_proc < k)
            <4>1. /\ processes[current_proc + 1].id = processes[current_proc].id
                  /\ current_proc + 1 \in 0 .. proc_count - 1
                BY <1>1, <1>6, <2>2, <3>2 DEF OldIndex, Cur, m
            <4>2. processes[current_proc].id < processes[current_proc + 1].id
                BY <1>1, <1>5, <4>1 DEF TableFacts
            <4>3. processes[current_proc].id \in Nat
                BY <1>1 DEF Process
            <4> QED BY <4>1, <4>2, <4>3
        <3> QED BY <3>1, <3>2
    <2>4. pid \in Int OBVIOUS
    <2>5. /\ \A i \in 0 .. m - 1 :
                /\ i # current_proc => processes'[i] = after[i]
                /\ processes'[current_proc] = [after[current_proc] EXCEPT !.r0 = pid]
          /\ SwitchTask(processes', current_proc)
        BY <1>5, <1>6, <2>1, <2>2, <2>4, ReturnResult
    <2>6. ASSUME NEW c \in Process
          PROVE  /\ SameProc([c EXCEPT !.r0 = pid], c)
                 /\ [c EXCEPT !.r0 = pid].files = c.files
                 /\ [c EXCEPT !.r0 = pid].r0 = pid
        BY DEF SameProc, Process
    <2>7. /\ SameProc(processes'[current_proc], processes[OldIndex(k, current_proc)])
          /\ processes'[current_proc].files = processes[OldIndex(k, current_proc)].files
          /\ processes'[current_proc].r0 = pid
        <3>1. after[current_proc] \in Process BY <1>6, <2>2
        <3> QED BY <1>6, <2>2, <2>5, <2>6, <3>1
    <2>8. \A j \in 0 .. m - 1 :
             /\ SameProc(processes'[j], processes[OldIndex(k, j)])
             /\ processes'[j].files = processes[OldIndex(k, j)].files
             /\ j # current_proc => processes'[j] = processes[OldIndex(k, j)]
        BY <1>6, <1>7, <2>5, <2>7
    <2>9. cpu' # "boot"
        BY <2>5 DEF SwitchTask, Fatal
    <2> QED BY <1>1, <1>2, <1>3, <1>4, <1>8, <1>9, <2>2, <2>3, <2>5, <2>7, <2>8, <2>9
            DEF ReapStep, k, m, Indices
<1>10. CASE ReapFailure(k) # "none"
    <2>1. Fatal(ReapFailure(k)) /\ processes' = after
        BY <1>2, <1>10
    <2> HIDE DEF after, m
    <2>2. cpu' # "boot"
        BY <2>1 DEF Fatal
    <2>3. \A j \in 0 .. m - 1 : processes'[j] = processes[OldIndex(k, j)]
        BY <1>6, <2>1
    <2> QED BY <1>1, <1>2, <1>3, <1>4, <1>7, <1>8, <1>10, <2>1, <2>2, <2>3
            DEF ReapStep, k, m, Indices
<1> QED BY <1>9, <1>10

\* The record q of process i after the current process has exited: itself,
\* its parent if it was waiting, an adopted child, or any other process.
ExitImage(q, i, status) ==
    /\ q \in Process
    /\ q.id = processes[i].id /\ q.files = processes[i].files
    /\ q.parent_id = IF processes[i].parent_id = Cur.id THEN 1
                     ELSE processes[i].parent_id
    /\ i = current_proc =>
          /\ q.status = "EXITED" /\ q.wstatus = status /\ q.wait_pid = Cur.wait_pid
          /\ q.section = NULL /\ q.table = NULL
    /\ i # current_proc =>
          /\ q.section = processes[i].section /\ q.table = processes[i].table
          /\ IF Awaits(processes, current_proc, i)
             THEN /\ q.status = "SCHEDULED" /\ q.wait_pid = 0
                  /\ q.wstatus_ref = NULL /\ q.r0 = Cur.id
             ELSE q = [processes[i] EXCEPT !.parent_id = q.parent_id]

\* The current process exits. Its slot is freed at once when its parent p
\* waits for it.
ExitStep(status) ==
    /\ cpu = "user" /\ cpu' # "boot" /\ Cur.id # INIT_PROC_ID
    /\ sections' = sections \ {Cur.section} /\ tables' = tables \ {Cur.table}
    /\ l1' = l1 /\ id_gen' = id_gen
    /\ fd_count' = fd_count /\ heap' = heap /\ released' = released
    /\ last_exit' = [pid |-> Cur.id, status |-> status]
    /\ \/ /\ \A i \in Indices : ~ Awaits(processes, current_proc, i)
          /\ proc_count' = proc_count /\ mem' = mem
          /\ \A i \in Indices : ExitImage(processes'[i], i, status)
       \/ /\ \E p \in Indices \ {current_proc} :
                /\ Awaits(processes, current_proc, p)
                /\ mem' = [mem EXCEPT ![processes[p].wstatus_ref] = status]
          /\ proc_count' = proc_count - 1
          /\ \A j \in 0 .. proc_count - 2 :
                ExitImage(processes'[j], OldIndex(current_proc, j), status)


\* The records that exit writes, field by field.
LEMMA ExitRecordFields ==
    ASSUME Cur \in Process, NEW status \in Int, NEW parent \in Process
    PROVE  /\ ExitedProc(status).wstatus = status
           /\ ExitedProc(status).wait_pid = Cur.wait_pid
           /\ ExitedProc(status).section = NULL /\ ExitedProc(status).table = NULL
           /\ ExitedProc(status).files = Cur.files
           /\ WokenProc(parent).wait_pid = 0 /\ WokenProc(parent).wstatus_ref = NULL
           /\ WokenProc(parent).r0 = Cur.id
           /\ WokenProc(parent).section = parent.section
           /\ WokenProc(parent).table = parent.table
           /\ WokenProc(parent).files = parent.files
<1>1. PICK z \in Nat, c \in Process, r \in {Cur.id} : z = 0 /\ c = Cur /\ r = Cur.id
    OBVIOUS
<1>2. ASSUME NEW q, q = [c EXCEPT !.status = "EXITED", !.wstatus = status, !.r0 = z,
                                  !.section = z, !.table = z]
      PROVE  /\ q.wstatus = status /\ q.wait_pid = c.wait_pid
             /\ q.section = z /\ q.table = z /\ q.files = c.files
    BY <1>2 DEF Process
<1>3. ASSUME NEW q, q = [parent EXCEPT !.status = "SCHEDULED", !.wait_pid = z,
                                       !.wstatus_ref = z, !.r0 = r]
      PROVE  /\ q.wait_pid = z /\ q.wstatus_ref = z /\ q.r0 = r
             /\ q.section = parent.section /\ q.table = parent.table
             /\ q.files = parent.files
    BY <1>3 DEF Process
<1>4. PICK q : q = ExitedProc(status)
    OBVIOUS
<1>5. q = [c EXCEPT !.status = "EXITED", !.wstatus = status, !.r0 = z,
                    !.section = z, !.table = z]
    BY <1>1, <1>4 DEF ExitedProc, NULL
<1>6. PICK w : w = WokenProc(parent)
    OBVIOUS
<1>7. w = [parent EXCEPT !.status = "SCHEDULED", !.wait_pid = z,
                         !.wstatus_ref = z, !.r0 = r]
    BY <1>1, <1>6 DEF WokenProc, NULL
<1>8. /\ q.wstatus = status /\ q.wait_pid = c.wait_pid
      /\ q.section = z /\ q.table = z /\ q.files = c.files
    BY <1>2, <1>5
<1>9. /\ w.wait_pid = z /\ w.wstatus_ref = z /\ w.r0 = r
      /\ w.section = parent.section /\ w.table = parent.table
      /\ w.files = parent.files
    BY <1>3, <1>7
<1> QED BY <1>1, <1>4, <1>6, <1>8, <1>9 DEF NULL

\* Setting a field to the value it has changes nothing.
LEMMA SameParent ==
    ASSUME NEW c \in Process
    PROVE  [c EXCEPT !.parent_id = c.parent_id] = c
BY DEF Process

\* The table once the children are adopted, before the parent is looked at.
LEMMA AdoptImage ==
    ASSUME NEW n \in Nat, processes \in [0 .. n - 1 -> Process],
           current_proc \in 0 .. n - 1, NEW status \in Int,
           NEW i \in 0 .. n - 1
    PROVE  LET q == ExitTable(status)[i] IN
           /\ i # current_proc => q = [processes[i] EXCEPT !.parent_id = q.parent_id]
           /\ i = current_proc =>
                 /\ q.wstatus = status /\ q.wait_pid = Cur.wait_pid
                 /\ q.section = NULL /\ q.table = NULL /\ q.files = Cur.files
<1> DEFINE me == ExitedProc(status)
           p == [processes EXCEPT ![current_proc] = me]
           q == ExitTable(status)[i]
<1>1. Cur \in Process
    BY DEF Cur
<1>2. /\ me \in Process
      /\ me.wstatus = status /\ me.wait_pid = Cur.wait_pid
      /\ me.section = NULL /\ me.table = NULL /\ me.files = Cur.files
    BY <1>1, ExitRecords, ExitRecordFields
<1> HIDE DEF me
<1>3. /\ p \in [0 .. n - 1 -> Process] /\ p[current_proc] = me
      /\ \A j \in 0 .. n - 1 : j # current_proc => p[j] = processes[j]
    BY <1>2
<1>4. ExitTable(status) = Adopt(p)
    BY DEF me, ExitTable
<1> HIDE DEF p
<1>5. ExitTable(status) = [j \in 0 .. n - 1 |->
                              IF p[j].parent_id = Cur.id
                              THEN [p[j] EXCEPT !.parent_id = 1] ELSE p[j]]
    BY <1>3, <1>4 DEF Adopt, INIT_PROC_ID
<1>6. q = IF p[i].parent_id = Cur.id THEN [p[i] EXCEPT !.parent_id = 1] ELSE p[i]
    BY <1>5
<1> HIDE DEF q
<1>7. p[i] \in Process
    BY <1>3
<1>8. ASSUME NEW c \in Process, NEW one \in Nat
      PROVE  LET d == [c EXCEPT !.parent_id = one] IN
             /\ d = [c EXCEPT !.parent_id = d.parent_id]
             /\ d.wstatus = c.wstatus /\ d.wait_pid = c.wait_pid
             /\ d.section = c.section /\ d.table = c.table /\ d.files = c.files
    BY DEF Process
<1>9. /\ q = [p[i] EXCEPT !.parent_id = q.parent_id]
      /\ q.wstatus = p[i].wstatus /\ q.wait_pid = p[i].wait_pid
      /\ q.section = p[i].section /\ q.table = p[i].table /\ q.files = p[i].files
    <2>1. PICK c \in Process, one \in Nat : c = p[i] /\ one = 1
        BY <1>7
    <2>2. CASE c.parent_id = Cur.id
        <3>1. q = [c EXCEPT !.parent_id = one]
            BY <1>6, <2>1, <2>2
        <3> QED BY <1>8, <2>1, <3>1
    <2>3. CASE c.parent_id # Cur.id
        <3>1. q = c
            BY <1>6, <2>1, <2>3
        <3> QED BY <2>1, <3>1, SameParent
    <2> QED BY <2>2, <2>3
<1>10. CASE i = current_proc
    BY <1>2, <1>3, <1>9, <1>10 DEF q
<1>11. CASE i # current_proc
    BY <1>3, <1>9, <1>11 DEF q
<1> QED BY <1>10, <1>11

\* exit, called by EXIT or by the data abort.
LEMMA ExitEffect ==
    ASSUME IInv, NEW status \in Int, CurProcExit(status)
    PROVE  \/ ExitStep(status)
           \/ /\ Kept /\ \E reason \in {"init_exited", "no_parent"} : Die(reason)
<1> DEFINE adopted == ExitTable(status)
           p == FindProc(adopted, Cur.parent_id)
           parent == adopted[p]
           awaited == parent.status = "SUSPENDED" /\ parent.wait_pid = Cur.id
           woken == [adopted EXCEPT ![p] = WokenProc(parent)]
           n == proc_count
<1>1. /\ Running /\ cpu = "user"
      /\ n \in Nat /\ processes \in [0 .. n - 1 -> Process]
      /\ current_proc \in 0 .. n - 1 /\ current_proc \in Nat
      /\ Cur \in Process /\ Cur.status = "SCHEDULED"
    BY UserState DEF CurProcExit
<1>2. CASE Cur.id = INIT_PROC_ID \/ Cur.parent_id \notin Ids(adopted)
    <2>1. Die("init_exited") \/ Die("no_parent")
        BY <1>2 DEF CurProcExit, ExitTable
    <2> QED BY <2>1, DieKept
<1>3. CASE Cur.id # INIT_PROC_ID /\ Cur.parent_id \in Ids(adopted)
    <2>1. /\ sections' = sections \ {Cur.section}
          /\ tables' = tables \ {Cur.table}
          /\ last_exit' = [pid |-> Cur.id, status |-> status]
          /\ l1' = l1 /\ id_gen' = id_gen
          /\ fd_count' = fd_count /\ heap' = heap /\ released' = released
          /\ IF awaited
             THEN /\ mem' = [mem EXCEPT ![parent.wstatus_ref] = status]
                  /\ processes' = WithoutIndex(woken, current_proc)
                  /\ proc_count' = n - 1
                  /\ SwitchTask(processes', IndexAfterRemove(current_proc))
             ELSE /\ processes' = adopted
                  /\ SwitchTask(processes', current_proc)
                  /\ UNCHANGED <<mem, proc_count>>
        BY <1>3 DEF CurProcExit, ExitTable, fileVars
    <2>2. /\ adopted \in [0 .. n - 1 -> Process]
          /\ \A i \in 0 .. n - 1 :
               /\ adopted[i].id = processes[i].id
               /\ adopted[i].parent_id = IF processes[i].parent_id = Cur.id THEN 1
                                         ELSE processes[i].parent_id
          /\ adopted[current_proc].status = "EXITED"
        <3>1. AdoptedTable(adopted, n)
            BY <1>1, AdoptResult
        <3> HIDE DEF adopted
        <3> QED BY <3>1 DEF AdoptedTable
    <2>3. \A i \in 0 .. n - 1 :
             /\ i # current_proc =>
                   adopted[i] = [processes[i] EXCEPT !.parent_id = adopted[i].parent_id]
             /\ i = current_proc =>
                   /\ adopted[i].wstatus = status /\ adopted[i].wait_pid = Cur.wait_pid
                   /\ adopted[i].section = NULL /\ adopted[i].table = NULL
                   /\ adopted[i].files = Cur.files
        BY <1>1, AdoptImage
    <2> HIDE DEF adopted
    <2>4. ASSUME NEW i \in 0 .. n - 1, i # current_proc
          PROVE  /\ adopted[i].status = processes[i].status
                 /\ adopted[i].wait_pid = processes[i].wait_pid
                 /\ adopted[i].wstatus_ref = processes[i].wstatus_ref
                 /\ adopted[i].section = processes[i].section
                 /\ adopted[i].table = processes[i].table
                 /\ adopted[i].files = processes[i].files
        <3>1. PICK c \in Process, d \in Process : c = processes[i] /\ d = adopted[i]
            BY <1>1, <2>2
        <3>2. d = [c EXCEPT !.parent_id = d.parent_id]
            BY <2>3, <2>4, <3>1
        <3>3. PICK e : e = d.parent_id
            OBVIOUS
        <3>4. d = [c EXCEPT !.parent_id = e]
            BY <3>2, <3>3
        <3>5. /\ d.status = c.status /\ d.wait_pid = c.wait_pid
              /\ d.wstatus_ref = c.wstatus_ref /\ d.section = c.section
              /\ d.table = c.table /\ d.files = c.files
            BY <3>4 DEF Process
        <3> QED BY <3>1, <3>5
    <2>5. p \in 0 .. n - 1 /\ adopted[p].id = Cur.parent_id
        BY <1>1, <1>3, <2>2, FindProcIn
    <2> HIDE DEF p
    <2>6. TableFacts(processes, n, id_gen)
        BY <1>1, FactsOfInv
    <2>7. /\ processes[current_proc].id # 1
          /\ processes[current_proc].status = "SCHEDULED"
        BY <1>1, <1>3 DEF Cur, INIT_PROC_ID
    <2>8. ASSUME NEW i \in 0 .. n - 1, Awaits(processes, current_proc, i)
          PROVE  i = p
        <3>1. processes[i].id = processes[p].id
            BY <2>2, <2>5, <2>8 DEF Awaits, Cur
        <3>2. processes[i].id \in Nat /\ processes[p].id \in Nat
            BY <1>1, <2>5 DEF Process
        <3> QED BY <2>5, <2>6, <3>1, <3>2 DEF TableFacts
    <2>9. p # current_proc
        <3>1. PICK j \in 0 .. n - 1 :
                 j < current_proc /\ processes[j].id = processes[current_proc].parent_id
            BY <1>1, <2>6, <2>7 DEF TableFacts
        <3>2. processes[j].id < processes[current_proc].id
            BY <1>1, <2>6, <3>1 DEF TableFacts
        <3>3. processes[j].id \in Nat /\ processes[current_proc].id \in Nat
            BY <1>1, <3>1 DEF Process
        <3>4. processes[p].id = processes[j].id
            BY <2>2, <2>5, <3>1 DEF Cur
        <3> QED BY <3>2, <3>3, <3>4
    <2>10. Awaits(processes, current_proc, p) <=> awaited
        BY <2>2, <2>4, <2>5, <2>9 DEF Awaits, Cur
    <2>11. ASSUME NEW i \in 0 .. n - 1, ~ Awaits(processes, current_proc, i)
           PROVE  ExitImage(adopted[i], i, status)
        <3>1. CASE i = current_proc
            BY <2>2, <2>3, <3>1 DEF ExitImage, Cur
        <3>2. CASE i # current_proc
            BY <2>2, <2>3, <2>4, <2>11, <3>2 DEF ExitImage
        <3> QED BY <3>1, <3>2
    <2>12. cpu' # "boot"
        BY <2>1 DEF SwitchTask, Fatal
    <2>13. CASE awaited
        <3>1. parent \in Process
            BY <2>2, <2>5
        <3>2. /\ WokenProc(parent) \in Process
              /\ WokenProc(parent).id = parent.id
              /\ WokenProc(parent).parent_id = parent.parent_id
              /\ WokenProc(parent).status = "SCHEDULED"
              /\ WokenProc(parent).wait_pid = 0
              /\ WokenProc(parent).wstatus_ref = NULL
              /\ WokenProc(parent).r0 = Cur.id
              /\ WokenProc(parent).section = parent.section
              /\ WokenProc(parent).table = parent.table
              /\ WokenProc(parent).files = parent.files
            <4> HIDE DEF parent
            <4> QED BY <1>1, <3>1, ExitRecords, ExitRecordFields
        <3>3. /\ woken \in [0 .. n - 1 -> Process]
              /\ woken[p] = WokenProc(parent)
              /\ \A i \in 0 .. n - 1 : i # p => woken[i] = adopted[i]
            BY <2>2, <2>5, <3>2
        <3> HIDE DEF woken
        <3>4. ASSUME NEW i \in 0 .. n - 1
              PROVE  ExitImage(woken[i], i, status)
            <4>1. CASE i = p
                BY <2>2, <2>4, <2>5, <2>9, <2>10, <2>13, <3>2, <3>3, <4>1 DEF ExitImage
            <4>2. CASE i # p
                <5>1. ~ Awaits(processes, current_proc, i) BY <2>8, <4>2
                <5> QED BY <2>11, <3>3, <4>2, <5>1
            <4> QED BY <4>1, <4>2
        <3>5. /\ processes' = WithoutIndex(woken, current_proc)
              /\ proc_count' = n - 1
              /\ mem' = [mem EXCEPT ![parent.wstatus_ref] = status]
            BY <2>1, <2>13
        <3>6. \A j \in 0 .. (n - 1) - 1 : processes'[j] = woken[OldIndex(current_proc, j)]
            <4> HIDE DEF n
            <4> QED BY <1>1, <3>3, <3>5, RemoveResult DEF OldIndex
        <3>7. ASSUME NEW j \in 0 .. n - 2
              PROVE  ExitImage(processes'[j], OldIndex(current_proc, j), status)
            <4>1. OldIndex(current_proc, j) \in 0 .. n - 1 /\ j \in 0 .. (n - 1) - 1
                BY <1>1 DEF OldIndex
            <4> QED BY <3>4, <3>6, <4>1
        <3>8. parent.wstatus_ref = processes[p].wstatus_ref
            BY <2>4, <2>5, <2>9
        <3>9. /\ p \in Indices \ {current_proc} /\ Awaits(processes, current_proc, p)
              /\ mem' = [mem EXCEPT ![processes[p].wstatus_ref] = status]
            BY <2>5, <2>9, <2>10, <2>13, <3>5, <3>8 DEF Indices
        <3> QED BY <1>1, <1>3, <2>1, <2>12, <3>5, <3>7, <3>9 DEF ExitStep
    <2>14. CASE ~ awaited
        <3>1. /\ processes' = adopted /\ proc_count' = proc_count /\ mem' = mem
            BY <2>1, <2>14
        <3>2. \A i \in 0 .. n - 1 : ~ Awaits(processes, current_proc, i)
            BY <2>8, <2>10, <2>14
        <3>3. \A i \in Indices : ExitImage(processes'[i], i, status)
            BY <2>11, <3>1, <3>2 DEF Indices
        <3> QED BY <1>1, <1>3, <2>1, <2>12, <3>1, <3>2, <3>3 DEF ExitStep, Indices
    <2> QED BY <2>13, <2>14
<1> QED BY <1>2, <1>3


\* Every step has one of these effects.
LEMMA StepEffects ==
    ASSUME IInv, [Next]_vars
    PROVE  \/ SchedulerStart \/ Reboot \/ Kept \/ ForkStep
           \/ \E pid \in 1 .. MaxPid, ref \in 0 .. SECTION_COUNT : SuspendStep(pid, ref)
           \/ \E k \in Indices, ref \in 0 .. SECTION_COUNT : ReapStep(k, ref)
           \/ \E status \in Int : ExitStep(status)
<1>1. PICK m \in Int : m = -1
    OBVIOUS
<1>2. PICK one \in Int : one = 1
    OBVIOUS
<1>3. ASSUME \E status \in Int : Trivial(status) PROVE Kept
    BY <1>3, TrivialKept
<1>4. CASE ProcessStep
    <2>1. CASE ForkFull \/ ExecNoFile
             \/ (\E pid \in {-1} \cup 1 .. MaxPid : WaitUnknown(pid))
        <3>1. Trivial(m)
            BY <1>1, <2>1 DEF ForkFull, ExecNoFile, WaitUnknown
        <3> QED BY <1>3, <3>1
    <2>2. CASE Fork
        BY <2>2, ForkEffect
    <2>3. CASE (\E status \in ExitStatuses : Exit(status)) \/ DataAbort
        <3>1. PICK status \in Int : CurProcExit(status)
            BY <1>2, <2>3, ProgramsAssumption DEF Exit, DataAbort
        <3> QED BY <3>1, ExitEffect
    <2>4. CASE \E pid \in 1 .. MaxPid, ref \in 0 .. SECTION_COUNT :
                  WaitSuspend(pid, ref)
        BY <2>4, SuspendEffect
    <2>5. ASSUME NEW pid \in 1 .. MaxPid, NEW ref \in 0 .. SECTION_COUNT,
                 WaitReap(pid, ref)
          PROVE  \E k \in Indices, r \in 0 .. SECTION_COUNT : ReapStep(k, r)
        <3>1. ReapStep(FindProc(processes, pid), ref)
            BY <2>5, ReapEffect
        <3>2. FindProc(processes, pid) \in Indices
            BY <3>1 DEF ReapStep
        <3> QED BY <3>1, <3>2
    <2>6. CASE \E loaded \in BOOLEAN : Exec(loaded)
        BY <2>6, FileCallsKept
    <2> QED BY <1>4, <2>1, <2>2, <2>3, <2>4, <2>5, <2>6 DEF ProcessStep
<1>5. CASE FileStep
    <2>1. CASE Open \/ \E fd \in Fds : Close(fd)
        BY <2>1, FileCallsKept
    <2>2. CASE KeyPressed
        BY <1>2, <2>2, TrivialKept
    <2>6. ASSUME NEW fd \in Fds, NEW status \in {-1, 0}, FileCall(fd, status)
          PROVE  Kept
        <3>1. status \in Int OBVIOUS
        <3> QED BY <2>6, <3>1, TrivialKept
    <2>3. CASE OpenFails \/ \E fd \in Fds : CloseUnknown(fd)
        <3>1. Trivial(m)
            BY <1>1, <2>3 DEF OpenFails, CloseUnknown
        <3> QED BY <1>3, <3>1
    <2>4. CASE \E fd \in Fds : ReadTty(fd)
        BY <2>4, QuietKept
    <2>5. CASE \E status \in {-1, 0} : PathCall(status)
        <3>1. PICK status \in {-1, 0} : Trivial(status)
            BY <2>5 DEF PathCall
        <3>2. status \in Int
            BY <3>1
        <3> QED BY <1>3, <3>1, <3>2
    <2> QED BY <1>5, <2>1, <2>2, <2>3, <2>4, <2>5, <2>6 DEF FileStep
<1>6. CASE OtherStep
    <2>1. CASE TimerIrq \/ \E word \in StoredWords : UserStore(word)
        BY <2>1, QuietKept
    <2>2. CASE \E arg \in ExitStatuses : Yield(arg)
        BY <1>3, <2>2, ProgramsAssumption DEF Yield
    <2>3. CASE Getpid \/ Getppid
        <3>1. Cur \in Process
            <4>1. cpu = "user" BY <2>3 DEF Getpid, Getppid, Trivial
            <4> QED BY <4>1, UserState
        <3>2. Cur.id \in Int /\ Cur.parent_id \in Int
            BY <3>1 DEF Process
        <3> QED BY <1>3, <2>3, <3>2 DEF Getpid, Getppid
    <2>4. CASE InvalidSyscall
        <3>1. Trivial(m)
            BY <1>1, <2>4 DEF InvalidSyscall
        <3> QED BY <1>3, <3>1
    <2>5. CASE SyscallReboot \/ SyscallMount \/ BadPointer \/ ElfFatal
               \/ UnhandledException
        BY <2>5, DieKept
        DEF SyscallReboot, SyscallMount, BadPointer, ElfFatal, UnhandledException
    <2> QED BY <1>6, <2>1, <2>2, <2>3, <2>4, <2>5 DEF OtherStep
<1>7. CASE BootFails \/ UNCHANGED vars
    BY <1>7, QuietKept
<1> QED BY <1>4, <1>5, <1>6, <1>7 DEF Next

-----------------------------------------------------------------------------
(* Sections and translation tables                                         *)

\* ResourcesOwned, said of a table procs[0 .. n-1] and element by element.
Owned(procs, n, secs, tabs, map) ==
    /\ KernelSections \subseteq secs /\ KernelTable \in tabs
    /\ \A i \in 0 .. n - 1 : procs[i].status = "EXITED" =>
          procs[i].section = NULL /\ procs[i].table = NULL
    /\ \A i \in 0 .. n - 1 : procs[i].status # "EXITED" =>
          /\ procs[i].section \in secs /\ procs[i].section \notin KernelSections
          /\ procs[i].table \in tabs /\ procs[i].table # KernelTable
          /\ map[procs[i].table] = procs[i].section
    /\ \A i, j \in 0 .. n - 1 :
          i # j /\ procs[i].status # "EXITED" /\ procs[j].status # "EXITED" =>
              procs[i].section # procs[j].section /\ procs[i].table # procs[j].table
    /\ \A s \in secs : s \notin KernelSections =>
          \E i \in 0 .. n - 1 : procs[i].status # "EXITED" /\ procs[i].section = s
    /\ \A t \in tabs : t # KernelTable =>
          \E i \in 0 .. n - 1 : procs[i].status # "EXITED" /\ procs[i].table = t

\* The two forms agree, now ...
LEMMA OwnedForm ==
    ResourcesOwned <=> Owned(processes, proc_count, sections, tables, l1)
<1>1. ASSUME ResourcesOwned PROVE Owned(processes, proc_count, sections, tables, l1)
    BY <1>1 DEF ResourcesOwned, Owned, Indices, Live
<1>2. ASSUME Owned(processes, proc_count, sections, tables, l1) PROVE ResourcesOwned
    <2> DEFINE live == {i \in Indices : Live(i)}
    <2>1. sections = KernelSections \cup {processes[i].section : i \in live}
        BY <1>2 DEF Owned, Indices, Live
    <2>2. tables = {KernelTable} \cup {processes[i].table : i \in live}
        BY <1>2 DEF Owned, Indices, Live
    <2>3. /\ \A i \in Indices \ live :
                processes[i].section = NULL /\ processes[i].table = NULL
          /\ \A i \in live : l1[processes[i].table] = processes[i].section
          /\ \A i, j \in live : i # j =>
                /\ processes[i].section # processes[j].section
                /\ processes[i].table # processes[j].table
          /\ \A i \in live : /\ processes[i].section \notin KernelSections
                             /\ processes[i].table # KernelTable
        BY <1>2 DEF Owned, Indices, Live
    <2> QED BY <2>1, <2>2, <2>3 DEF ResourcesOwned
<1> QED BY <1>1, <1>2

\* A waiting process has its status stored in its own section, or nowhere
\* (mem[NULL] belongs to no process).
WaitRefs ==
    \A i \in Indices : processes[i].status = "SUSPENDED" =>
        processes[i].wstatus_ref \in {NULL, processes[i].section}

ResourceInv == ResourcesOwned /\ WaitRefs


\* ... and in the next state.
LEMMA OwnedFormNext ==
    ResourcesOwned' <=> Owned(processes', proc_count', sections', tables', l1')
<1>1. (ResourcesOwned <=> Owned(processes, proc_count, sections, tables, l1))'
    BY OwnedForm, PTL
<1> QED BY <1>1

\* The processes and the allocators stay: so does the ownership.
LEMMA KeptOwned ==
    ASSUME ResourceInv, Kept
    PROVE  ResourceInv'
<1>1. Indices' = Indices
    BY DEF Kept, Indices
<1>2. Owned(processes', proc_count', sections', tables', l1')
    BY OwnedForm DEF Kept, SameProc, ResourceInv, Owned, Indices
<1>3. WaitRefs'
    BY <1>1 DEF WaitRefs, Kept, SameProc, ResourceInv
<1> QED BY <1>2, <1>3, OwnedFormNext DEF ResourceInv

\* A caller that waits passed a status word of its own, or none.
LEMMA SuspendOwned ==
    ASSUME IInv, ResourceInv, NEW pid, NEW ref, SuspendStep(pid, ref)
    PROVE  ResourceInv'
<1>1. /\ current_proc \in Indices /\ Cur.status = "SCHEDULED"
    BY UserState DEF SuspendStep, Indices
<1>2. Indices' = Indices
    BY DEF SuspendStep, Indices
<1>3. \A i \in Indices : processes'[i].status = "EXITED" <=> processes[i].status = "EXITED"
    BY <1>1 DEF SuspendStep, Cur
<1>4. Owned(processes', proc_count', sections', tables', l1')
    BY <1>3, OwnedForm DEF SuspendStep, ResourceInv, Owned, Indices
<1>5. ref \in {NULL, Cur.section}
    <2>1. l1[Cur.table] = Cur.section
        BY <1>1 DEF ResourceInv, ResourcesOwned, Cur, Live
    <2> QED BY <2>1 DEF SuspendStep, StatusRefs
<1>6. WaitRefs'
    BY <1>1, <1>2, <1>5 DEF WaitRefs, SuspendStep, ResourceInv, Cur
<1> QED BY <1>4, <1>6, OwnedFormNext DEF ResourceInv

\* The child gets a section and a table that nobody had.
LEMMA ForkOwned ==
    ASSUME IInv, ResourceInv, ForkStep
    PROVE  ResourceInv'
<1>1. PICK s \in Sections \ sections, t \in Tables \ tables :
          /\ sections' = sections \cup {s} /\ tables' = tables \cup {t}
          /\ l1' = [l1 EXCEPT ![t] = s]
          /\ processes'[proc_count].section = s
          /\ processes'[proc_count].table = t
    BY DEF ForkStep
<1>2. /\ proc_count \in Nat /\ Indices = 0 .. proc_count - 1
      /\ Indices' = 0 .. proc_count /\ proc_count' - 1 = proc_count
    <2>1. proc_count \in Nat BY UserState DEF ForkStep
    <2> QED BY <2>1 DEF ForkStep, Indices
<1>3. \A i \in 0 .. proc_count : i \in Indices \/ i = proc_count
    BY <1>2
<1>4. \A i \in Indices : SameProc(processes'[i], processes[i]) /\ i \in 0 .. proc_count
    BY <1>2 DEF ForkStep
<1>5. processes'[proc_count].status = "SCHEDULED" /\ proc_count \in 0 .. proc_count
    BY <1>2 DEF ForkStep
<1>6. Owned(processes, proc_count, sections, tables, l1)
    BY OwnedForm DEF ResourceInv
<1>7. s \notin KernelSections /\ t # KernelTable
    BY <1>6 DEF Owned
<1>8. \A x \in tables : l1'[x] = l1[x]
    <2>1. tables \subseteq Tables /\ l1 \in [Tables -> 0 .. SECTION_COUNT]
        BY DEF IInv, TypeOK
    <2> QED BY <1>1, <2>1
<1>9. l1'[t] = s
    BY <1>1 DEF IInv, TypeOK
<1>10. ASSUME NEW i \in 0 .. proc_count, processes'[i].status # "EXITED"
       PROVE  /\ processes'[i].section \in sections' \ KernelSections
              /\ processes'[i].table \in tables' \ {KernelTable}
              /\ l1'[processes'[i].table] = processes'[i].section
    <2>1. CASE i \in Indices
        BY <1>1, <1>2, <1>4, <1>6, <1>8, <1>10, <2>1 DEF Owned, SameProc
    <2>2. CASE i = proc_count
        BY <1>1, <1>7, <1>9, <2>2
    <2> QED BY <1>3, <2>1, <2>2
<1>11. ASSUME NEW i \in 0 .. proc_count, NEW j \in 0 .. proc_count, i # j,
              processes'[i].status # "EXITED", processes'[j].status # "EXITED"
       PROVE  /\ processes'[i].section # processes'[j].section
              /\ processes'[i].table # processes'[j].table
    <2>1. CASE i \in Indices /\ j \in Indices
        BY <1>2, <1>4, <1>6, <1>11, <2>1 DEF Owned, SameProc
    <2>2. CASE i \in Indices /\ j = proc_count
        BY <1>1, <1>2, <1>4, <1>6, <1>11, <2>2 DEF Owned, SameProc
    <2>3. CASE i = proc_count /\ j \in Indices
        BY <1>1, <1>2, <1>4, <1>6, <1>11, <2>3 DEF Owned, SameProc
    <2> QED BY <1>3, <1>11, <2>1, <2>2, <2>3
<1>12. \A x \in sections' : x \notin KernelSections =>
          \E i \in 0 .. proc_count : processes'[i].status # "EXITED" /\ processes'[i].section = x
    BY <1>1, <1>2, <1>4, <1>5, <1>6 DEF Owned, SameProc
<1>13. \A x \in tables' : x # KernelTable =>
          \E i \in 0 .. proc_count : processes'[i].status # "EXITED" /\ processes'[i].table = x
    BY <1>1, <1>2, <1>4, <1>5, <1>6 DEF Owned, SameProc
<1>14. \A i \in 0 .. proc_count : processes'[i].status = "EXITED" =>
          processes'[i].section = NULL /\ processes'[i].table = NULL
    BY <1>2, <1>3, <1>4, <1>5, <1>6 DEF Owned, SameProc
<1>15. Owned(processes', proc_count', sections', tables', l1')
    BY <1>1, <1>2, <1>6, <1>10, <1>11, <1>12, <1>13, <1>14 DEF Owned
<1>16. WaitRefs'
    BY <1>2, <1>3, <1>4, <1>5 DEF WaitRefs, SameProc, ResourceInv
<1> QED BY <1>15, <1>16, OwnedFormNext DEF ResourceInv

\* The slots below k keep their index, those above it move down by one.
LEMMA OldIndexRange ==
    ASSUME NEW n \in Nat, NEW k \in 0 .. n - 1
    PROVE  /\ \A j \in 0 .. n - 2 : OldIndex(k, j) \in 0 .. n - 1 /\ OldIndex(k, j) # k
           /\ \A i, j \in 0 .. n - 2 : OldIndex(k, i) = OldIndex(k, j) => i = j
           /\ \A i, j \in 0 .. n - 2 : i < j => OldIndex(k, i) < OldIndex(k, j)
           /\ \A i \in 0 .. n - 1 : i # k => \E j \in 0 .. n - 2 : OldIndex(k, j) = i
<1>1. \A j \in 0 .. n - 2 : OldIndex(k, j) \in 0 .. n - 1 /\ OldIndex(k, j) # k
    BY DEF OldIndex
<1>2. \A i, j \in 0 .. n - 2 : OldIndex(k, i) = OldIndex(k, j) => i = j
    BY DEF OldIndex
<1>3. \A i, j \in 0 .. n - 2 : i < j => OldIndex(k, i) < OldIndex(k, j)
    BY DEF OldIndex
<1>4. ASSUME NEW i \in 0 .. n - 1, i # k
      PROVE  \E j \in 0 .. n - 2 : OldIndex(k, j) = i
    <2>1. CASE i < k
        <3>1. i \in 0 .. n - 2 /\ OldIndex(k, i) = i BY <2>1 DEF OldIndex
        <3> QED BY <3>1
    <2>2. CASE i > k
        <3>1. i - 1 \in 0 .. n - 2 /\ OldIndex(k, i - 1) = i BY <2>2 DEF OldIndex
        <3> QED BY <3>1
    <2> QED BY <1>4, <2>1, <2>2
<1> QED BY <1>1, <1>2, <1>3, <1>4

\* A table without the slot of a process that has exited owns the same.
LEMMA RemoveOwned ==
    ASSUME NEW n \in Nat, NEW k \in 0 .. n - 1, NEW p, NEW q, NEW secs, NEW tabs,
           NEW map, Owned(p, n, secs, tabs, map), p[k].status = "EXITED",
           \A j \in 0 .. n - 2 : /\ q[j].status = "EXITED" <=> p[OldIndex(k, j)].status = "EXITED"
                                 /\ q[j].section = p[OldIndex(k, j)].section
                                 /\ q[j].table = p[OldIndex(k, j)].table
    PROVE  Owned(q, n - 1, secs, tabs, map)
<1>1. /\ \A j \in 0 .. n - 2 : OldIndex(k, j) \in 0 .. n - 1 /\ OldIndex(k, j) # k
      /\ \A i, j \in 0 .. n - 2 : OldIndex(k, i) = OldIndex(k, j) => i = j
      /\ \A i \in 0 .. n - 1 : i # k => \E j \in 0 .. n - 2 : OldIndex(k, j) = i
    BY OldIndexRange
<1>2. (n - 1) - 1 = n - 2
    OBVIOUS
<1>3. \A i \in 0 .. n - 2 : q[i].status = "EXITED" => q[i].section = NULL /\ q[i].table = NULL
    BY <1>1 DEF Owned
<1>4. \A i \in 0 .. n - 2 : q[i].status # "EXITED" =>
          /\ q[i].section \in secs /\ q[i].section \notin KernelSections
          /\ q[i].table \in tabs /\ q[i].table # KernelTable
          /\ map[q[i].table] = q[i].section
    BY <1>1 DEF Owned
<1>5. \A i, j \in 0 .. n - 2 :
          i # j /\ q[i].status # "EXITED" /\ q[j].status # "EXITED" =>
              q[i].section # q[j].section /\ q[i].table # q[j].table
    BY <1>1 DEF Owned
<1>6. ASSUME NEW s \in secs, s \notin KernelSections
      PROVE  \E j \in 0 .. n - 2 : q[j].status # "EXITED" /\ q[j].section = s
    <2>1. PICK i \in 0 .. n - 1 : p[i].status # "EXITED" /\ p[i].section = s
        BY <1>6 DEF Owned
    <2>2. PICK j \in 0 .. n - 2 : OldIndex(k, j) = i
        BY <1>1, <2>1
    <2> QED BY <2>1, <2>2
<1>7. ASSUME NEW t \in tabs, t # KernelTable
      PROVE  \E j \in 0 .. n - 2 : q[j].status # "EXITED" /\ q[j].table = t
    <2>1. PICK i \in 0 .. n - 1 : p[i].status # "EXITED" /\ p[i].table = t
        BY <1>7 DEF Owned
    <2>2. PICK j \in 0 .. n - 2 : OldIndex(k, j) = i
        BY <1>1, <2>1
    <2> QED BY <2>1, <2>2
<1>8. KernelSections \subseteq secs /\ KernelTable \in tabs
    BY DEF Owned
<1> HIDE DEF OldIndex
<1> QED BY <1>2, <1>3, <1>4, <1>5, <1>6, <1>7, <1>8 DEF Owned


\* Ownership reads three fields only.
LEMMA SameOwned ==
    ASSUME NEW n \in Nat, NEW p, NEW q, NEW secs, NEW tabs, NEW map,
           Owned(p, n, secs, tabs, map),
           \A i \in 0 .. n - 1 : /\ q[i].status = "EXITED" <=> p[i].status = "EXITED"
                                 /\ q[i].section = p[i].section
                                 /\ q[i].table = p[i].table
    PROVE  Owned(q, n, secs, tabs, map)
BY DEF Owned

\* A process that exits gives back what it owned.
LEMMA ReleaseOwned ==
    ASSUME NEW n \in Nat, NEW k \in 0 .. n - 1, NEW p, NEW q, NEW secs, NEW tabs,
           NEW map, Owned(p, n, secs, tabs, map), p[k].status # "EXITED",
           q[k].status = "EXITED" /\ q[k].section = NULL /\ q[k].table = NULL,
           \A i \in 0 .. n - 1 : i # k =>
              /\ q[i].status = "EXITED" <=> p[i].status = "EXITED"
              /\ q[i].section = p[i].section
              /\ q[i].table = p[i].table
    PROVE  Owned(q, n, secs \ {p[k].section}, tabs \ {p[k].table}, map)
<1> DEFINE S == secs \ {p[k].section}
           T == tabs \ {p[k].table}
<1>1. KernelSections \subseteq S /\ KernelTable \in T
    BY DEF Owned
<1>2. \A i \in 0 .. n - 1 : q[i].status = "EXITED" => q[i].section = NULL /\ q[i].table = NULL
    BY DEF Owned
<1>3. ASSUME NEW i \in 0 .. n - 1, q[i].status # "EXITED"
      PROVE  /\ q[i].section \in S /\ q[i].section \notin KernelSections
             /\ q[i].table \in T /\ q[i].table # KernelTable
             /\ map[q[i].table] = q[i].section
    <2>1. i # k /\ p[i].status # "EXITED" /\ q[i].section = p[i].section
          /\ q[i].table = p[i].table
        BY <1>3
    <2>2. /\ p[i].section # p[k].section /\ p[i].table # p[k].table
          /\ p[i].section \in secs /\ p[i].section \notin KernelSections
          /\ p[i].table \in tabs /\ p[i].table # KernelTable
          /\ map[p[i].table] = p[i].section
        BY <2>1 DEF Owned
    <2> QED BY <2>1, <2>2
<1>4. ASSUME NEW i \in 0 .. n - 1, NEW j \in 0 .. n - 1,
             i # j, q[i].status # "EXITED", q[j].status # "EXITED"
      PROVE  q[i].section # q[j].section /\ q[i].table # q[j].table
    <2>1. i # k /\ j # k BY <1>4
    <2> QED BY <1>4, <2>1 DEF Owned
<1>5. ASSUME NEW s \in S, s \notin KernelSections
      PROVE  \E i \in 0 .. n - 1 : q[i].status # "EXITED" /\ q[i].section = s
    <2>1. PICK i \in 0 .. n - 1 : p[i].status # "EXITED" /\ p[i].section = s
        BY <1>5 DEF Owned
    <2>2. i # k BY <2>1
    <2> QED BY <2>1, <2>2
<1>6. ASSUME NEW t \in T, t # KernelTable
      PROVE  \E i \in 0 .. n - 1 : q[i].status # "EXITED" /\ q[i].table = t
    <2>1. PICK i \in 0 .. n - 1 : p[i].status # "EXITED" /\ p[i].table = t
        BY <1>6 DEF Owned
    <2>2. i # k BY <2>1
    <2> QED BY <2>1, <2>2
<1> HIDE DEF S, T
<1>7. Owned(q, n, S, T, map)
    BY <1>1, <1>2, <1>3, <1>4, <1>5, <1>6 DEF Owned
<1> QED BY <1>7 DEF S, T

\* Reaping frees a slot that owned nothing.
LEMMA ReapOwned ==
    ASSUME IInv, ResourceInv, NEW k, NEW ref, ReapStep(k, ref)
    PROVE  ResourceInv'
<1>1. /\ proc_count \in Nat /\ k \in 0 .. proc_count - 1
      /\ Indices' = 0 .. proc_count - 2 /\ proc_count' = proc_count - 1
    <2>1. proc_count \in Nat BY UserState DEF ReapStep
    <2> QED BY <2>1 DEF ReapStep, Indices
<1>2. Owned(processes, proc_count, sections, tables, l1)
    BY OwnedForm DEF ResourceInv
<1>3. /\ \A j \in 0 .. proc_count - 2 : SameProc(processes'[j], processes[OldIndex(k, j)])
      /\ processes[k].status = "EXITED"
      /\ sections' = sections /\ tables' = tables /\ l1' = l1
    BY DEF ReapStep
<1>4. Owned(processes', proc_count - 1, sections, tables, l1)
    <2>1. \A j \in 0 .. proc_count - 2 :
             /\ processes'[j].status = "EXITED" <=> processes[OldIndex(k, j)].status = "EXITED"
             /\ processes'[j].section = processes[OldIndex(k, j)].section
             /\ processes'[j].table = processes[OldIndex(k, j)].table
        BY <1>3 DEF SameProc
    <2> QED BY <1>1, <1>2, <1>3, <2>1, RemoveOwned
<1>5. WaitRefs'
    <2>1. \A j \in 0 .. proc_count - 2 : OldIndex(k, j) \in 0 .. proc_count - 1
        BY <1>1, OldIndexRange
    <2> QED BY <1>1, <1>3, <2>1 DEF WaitRefs, SameProc, ResourceInv, Indices
<1> QED BY <1>1, <1>3, <1>4, <1>5, OwnedFormNext DEF ResourceInv

\* Exit gives back the section and the table of the process that exits.
LEMMA ExitOwned ==
    ASSUME IInv, ResourceInv, NEW status \in Int, ExitStep(status)
    PROVE  ResourceInv'
<1> DEFINE n == proc_count
           me == current_proc
           r == [i \in 0 .. n - 1 |->
                   [status |-> IF i = me THEN "EXITED" ELSE processes[i].status,
                    section |-> IF i = me THEN NULL ELSE processes[i].section,
                    table |-> IF i = me THEN NULL ELSE processes[i].table]]
<1>1. /\ n \in Nat /\ me \in 0 .. n - 1 /\ processes[me].status # "EXITED"
      /\ Indices = 0 .. n - 1 /\ processes[me] = Cur
    BY UserState DEF ExitStep, Indices, Cur
<1>2. Owned(processes, n, sections, tables, l1)
    BY OwnedForm DEF ResourceInv
<1>3. sections' = sections \ {Cur.section} /\ tables' = tables \ {Cur.table} /\ l1' = l1
    BY DEF ExitStep
<1>4. /\ r[me].status = "EXITED" /\ r[me].section = NULL /\ r[me].table = NULL
      /\ \A i \in 0 .. n - 1 : i # me =>
            /\ r[i].status = processes[i].status /\ r[i].section = processes[i].section
            /\ r[i].table = processes[i].table
    BY <1>1
<1> HIDE DEF r, n, me
<1>5. Owned(r, n, sections', tables', l1')
    <2>1. Owned(r, n, sections \ {processes[me].section},
                tables \ {processes[me].table}, l1)
        BY <1>1, <1>2, <1>4, ReleaseOwned
    <2> QED BY <1>1, <1>3, <2>1
<1>6. ASSUME NEW q, NEW i \in 0 .. n - 1, ExitImage(q, i, status)
      PROVE  /\ q.status = "EXITED" <=> r[i].status = "EXITED"
             /\ q.section = r[i].section /\ q.table = r[i].table
             /\ q.status = "SUSPENDED" =>
                   /\ processes[i].status = "SUSPENDED"
                   /\ q.wstatus_ref = processes[i].wstatus_ref
                   /\ q.section = processes[i].section
    <2>1. CASE i = me
        BY <1>4, <1>6, <2>1 DEF ExitImage, me
    <2>2. CASE i # me /\ Awaits(processes, me, i)
        BY <1>4, <1>6, <2>2 DEF ExitImage, me, Awaits
    <2>3. CASE i # me /\ ~ Awaits(processes, me, i)
        <3>1. q = [processes[i] EXCEPT !.parent_id = q.parent_id]
            BY <1>6, <2>3 DEF ExitImage, me
        <3>2. processes[i] \in Process
            BY <1>1 DEF IInv, TypeOK
        <3>3. q.status = processes[i].status /\ q.wstatus_ref = processes[i].wstatus_ref
            <4>1. PICK c \in Process, e \in {q.parent_id} : c = processes[i] /\ e = q.parent_id
                BY <3>2
            <4>2. q = [c EXCEPT !.parent_id = e]
                BY <3>1, <4>1
            <4>3. q.status = c.status /\ q.wstatus_ref = c.wstatus_ref
                BY <4>2 DEF Process
            <4> QED BY <4>1, <4>3
        <3>4. q.section = processes[i].section /\ q.table = processes[i].table
            BY <1>6, <2>3 DEF ExitImage, me
        <3> QED BY <1>4, <2>3, <3>3, <3>4
    <2> QED BY <2>1, <2>2, <2>3
<1>7. CASE /\ proc_count' = proc_count
           /\ \A i \in Indices : ExitImage(processes'[i], i, status)
    <2>1. Indices' = 0 .. n - 1 /\ proc_count' = n
        BY <1>1, <1>7 DEF Indices, n
    <2>2. Owned(processes', n, sections', tables', l1')
        BY <1>1, <1>5, <1>6, <1>7, SameOwned
    <2>3. WaitRefs'
        BY <1>1, <1>6, <1>7, <2>1 DEF WaitRefs, ResourceInv
    <2> QED BY <2>1, <2>2, <2>3, OwnedFormNext DEF ResourceInv
<1>8. CASE /\ proc_count' = proc_count - 1
           /\ \A j \in 0 .. proc_count - 2 :
                 ExitImage(processes'[j], OldIndex(current_proc, j), status)
    <2>1. Indices' = 0 .. n - 2 /\ proc_count' = n - 1
        BY <1>1, <1>8 DEF Indices, n
    <2>2. \A j \in 0 .. n - 2 : OldIndex(me, j) \in 0 .. n - 1
        BY <1>1, OldIndexRange
    <2>3. \A j \in 0 .. n - 2 : ExitImage(processes'[j], OldIndex(me, j), status)
        BY <1>8 DEF n, me
    <2>4. Owned(processes', n - 1, sections', tables', l1')
        <3>1. \A j \in 0 .. n - 2 :
                 /\ processes'[j].status = "EXITED" <=> r[OldIndex(me, j)].status = "EXITED"
                 /\ processes'[j].section = r[OldIndex(me, j)].section
                 /\ processes'[j].table = r[OldIndex(me, j)].table
            BY <1>6, <2>2, <2>3
        <3> QED BY <1>1, <1>4, <1>5, <3>1, RemoveOwned
    <2>5. WaitRefs'
        BY <1>1, <1>6, <2>1, <2>2, <2>3 DEF WaitRefs, ResourceInv
    <2> QED BY <2>1, <2>4, <2>5, OwnedFormNext DEF ResourceInv
<1> QED BY <1>7, <1>8 DEF ExitStep

\* scheduler_start gives init a section and a table; a machine that has not
\* started has no process.
LEMMA StartOwned ==
    ASSUME IInv, SchedulerStart \/ Reboot
    PROVE  ResourceInv'
<1>1. CASE Reboot
    <2>1. /\ proc_count' = 0 /\ Indices' = {} /\ sections' = KernelSections
          /\ tables' = {KernelTable}
        BY <1>1 DEF Reboot, Indices
    <2>2. ResourcesOwned'
        BY <2>1, OwnedFormNext DEF Owned
    <2> QED BY <2>1, <2>2 DEF ResourceInv, WaitRefs
<1>2. CASE SchedulerStart
    <2> DEFINE s == FirstFree(Sections, sections)
               t == FirstFree(Tables, tables)
    <2>1. sections = 1 .. 4 /\ tables = {1}
        BY <1>2 DEF SchedulerStart, IInv, BootState, KernelSections, KernelTable
    <2>2. s \in Sections \ sections /\ t \in Tables \ tables
        <3>1. 5 \in Sections /\ 2 \in Tables
            BY SizesAssumption DEF Sections, Tables
        <3>2. ~ (Sections \subseteq sections) /\ ~ (Tables \subseteq tables)
            BY <2>1, <3>1
        <3> QED BY <3>2, FirstFreeIn, SizesAssumption DEF Sections, Tables
    <2>3. /\ proc_count' = 1 /\ DOMAIN processes' = {0}
          /\ processes'[0].status = "SCHEDULED"
          /\ processes'[0].section = s /\ processes'[0].table = t
          /\ sections' = sections \cup {s} /\ tables' = tables \cup {t}
          /\ l1' = [l1 EXCEPT ![t] = s]
        BY <1>2 DEF SchedulerStart
    <2> HIDE DEF s, t
    <2>4. l1'[t] = s
        BY <2>2, <2>3 DEF IInv, TypeOK
    <2>5. Owned(processes', proc_count', sections', tables', l1')
        BY <2>1, <2>2, <2>3, <2>4 DEF Owned, KernelSections, KernelTable
    <2>6. WaitRefs'
        BY <2>3 DEF WaitRefs, Indices
    <2> QED BY <2>5, <2>6, OwnedFormNext DEF ResourceInv
<1> QED BY <1>1, <1>2

\* Every step keeps the ownership.
LEMMA NextOwned == IInv /\ ResourceInv /\ [Next]_vars => ResourceInv'
BY StepEffects, StartOwned, KeptOwned, ForkOwned, SuspendOwned, ReapOwned, ExitOwned

\* Ownership holds in every reachable state.
THEOREM Ownership == Spec => []ResourceInv
<1>1. Init => ResourceInv
    <2> SUFFICES ASSUME Init PROVE ResourceInv
        OBVIOUS
    <2>1. /\ proc_count = 0 /\ Indices = {} /\ sections = KernelSections
          /\ tables = {KernelTable}
        BY DEF Init, Indices
    <2>2. ResourcesOwned
        BY <2>1, OwnedForm DEF Owned
    <2> QED BY <2>1, <2>2 DEF ResourceInv, WaitRefs
<1>2. IInv /\ ResourceInv /\ [Next]_vars => ResourceInv'
    BY NextOwned
<1> QED BY <1>1, <1>2, Invariance, PTL DEF Spec

\* The allocators' bits are exactly the resources of the kernel and of the
\* live processes: no section and no table leaks, is freed twice or is shared,
\* whatever the processes do.
THEOREM ResourcesStayOwned == Spec => []ResourcesOwned
<1>1. ResourceInv => ResourcesOwned BY DEF ResourceInv
<1> QED BY <1>1, Ownership, PTL


-----------------------------------------------------------------------------
(* Private memory                                                          *)

\* What PrivateMemory says of one step.
MemoryStep ==
    cpu' = "boot" \/ cpu = "boot" \/ \A s \in Sections : mem'[s] # mem[s] =>
        \/ s \notin sections
        \/ s = Cur.section
        \/ \E i \in Indices : /\ processes[i].section = s
                               /\ processes[i].status = "SUSPENDED"
                               /\ processes[i].wait_pid = Cur.id
                               /\ processes[i].wstatus_ref = s
        \/ /\ ~ BuffersInside /\ s > Cur.section
           /\ proc_count' = proc_count
           /\ \A i \in Indices : processes'[i].status = processes[i].status

\* A store changes one word.
LEMMA OneWord ==
    ASSUME TypeOK, NEW a, NEW word, mem' = [mem EXCEPT ![a] = word],
           NEW s \in Sections, mem'[s] # mem[s]
    PROVE  s = a
<1>1. s \in DOMAIN mem
    BY DEF TypeOK, Sections
<1> QED BY <1>1

\* The current process's table maps its own section.
LEMMA OwnSection ==
    ASSUME IInv, ResourceInv, cpu \in {"user", "tty"}
    PROVE  l1[Cur.table] = Cur.section
<1>1. current_proc \in Indices /\ Cur.status = "SCHEDULED"
    BY UserState DEF Indices
<1> QED BY <1>1 DEF ResourceInv, ResourcesOwned, Live, Cur

\* A buffer changes the words of the sections from the first one on, and of
\* that one alone if buffers end inside their section.
LEMMA WritesChange ==
    ASSUME NEW m, NEW first \in Int, NEW w \in Writes(m, first),
           NEW s \in Sections, w[s] # m[s], s # first
    PROVE  ~ BuffersInside /\ s > first
<1>1. PICK last \in LastSections(first), word \in StoredWords :
         w = [x \in 0 .. SECTION_COUNT |-> IF x \in first .. last THEN word ELSE m[x]]
    BY DEF Writes
<1>2. /\ s \in Int /\ s \in 0 .. SECTION_COUNT /\ last \in Int
      /\ first <= last /\ (BuffersInside => last = first)
    BY <1>1, SizesAssumption DEF LastSections, Sections
<1>3. s \in first .. last
    BY <1>1, <1>2
<1> QED BY <1>2, <1>3

\* Every step changes only memory that was free, that belongs to the current
\* process, or the status word of a process that waits for it; and what
\* follows the section of the current process, if buffers go beyond it.
LEMMA StepPrivate == IInv /\ ResourceInv /\ [Next]_vars => MemoryStep
<1> SUFFICES ASSUME IInv, ResourceInv, [Next]_vars, cpu # "boot", cpu' # "boot",
                    NEW x \in Sections, mem'[x] # mem[x]
             PROVE  \/ x \notin sections
                    \/ x = Cur.section
                    \/ \E i \in Indices : /\ processes[i].section = x
                                          /\ processes[i].status = "SUSPENDED"
                                          /\ processes[i].wait_pid = Cur.id
                                          /\ processes[i].wstatus_ref = x
                    \/ /\ ~ BuffersInside /\ x > Cur.section
                       /\ proc_count' = proc_count
                       /\ \A i \in Indices : processes'[i].status = processes[i].status
    BY DEF MemoryStep
<1>1. TypeOK /\ NULL \notin Sections
    BY DEF IInv, NULL, Sections
<1>2. CASE SchedulerStart \/ Reboot
    BY <1>2 DEF SchedulerStart, Reboot
<1>3. CASE Kept
    <2>1. cpu \in {"user", "tty"} /\ OwnWrite
        BY <1>3 DEF Kept
    <2>2. l1[Cur.table] = Cur.section
        BY <2>1, OwnSection
    <2>3. Cur.section \in Int
        BY <2>1, UserState, SizesAssumption DEF Process
    <2>7. /\ proc_count' = proc_count
          /\ \A i \in Indices : processes'[i].status = processes[i].status
        BY <1>3 DEF Kept, SameProc
    <2>4. CASE \E word : mem' = [mem EXCEPT ![Cur.section] = word]
        BY <1>1, <2>4, OneWord
    <2>5. CASE mem' \in Writes(mem, Cur.section)
        BY <2>3, <2>5, <2>7, WritesChange
    <2>6. CASE mem' \in Writes([mem EXCEPT ![Cur.section] = 0], Cur.section)
        <3>1. x # Cur.section => [mem EXCEPT ![Cur.section] = 0][x] = mem[x]
            <4>1. x \in DOMAIN mem BY <1>1 DEF TypeOK, Sections
            <4> QED BY <4>1
        <3> QED BY <2>3, <2>6, <2>7, <3>1, WritesChange
    <2> QED BY <2>1, <2>2, <2>4, <2>5, <2>6 DEF OwnWrite
<1>4. CASE ForkStep
    <2>1. PICK s \in Sections \ sections : mem' = [mem EXCEPT ![s] = mem[Cur.section]]
        BY <1>4 DEF ForkStep
    <2>2. x = s BY <1>1, <2>1, OneWord
    <2> QED BY <2>1, <2>2
<1>5. CASE \E pid \in 1 .. MaxPid, ref \in 0 .. SECTION_COUNT : SuspendStep(pid, ref)
    BY <1>5 DEF SuspendStep
<1>6. ASSUME NEW k \in Indices, NEW ref \in 0 .. SECTION_COUNT, ReapStep(k, ref)
      PROVE  x = Cur.section
    <2>1. cpu = "user" /\ ref \in StatusRefs /\ \E word : mem' = [mem EXCEPT ![ref] = word]
        BY <1>6 DEF ReapStep
    <2>2. x = ref BY <1>1, <2>1, OneWord
    <2> QED BY <1>1, <2>1, <2>2, OwnSection DEF StatusRefs
<1>7. ASSUME NEW status \in Int, ExitStep(status)
      PROVE  \E i \in Indices : /\ processes[i].section = x
                                /\ processes[i].status = "SUSPENDED"
                                /\ processes[i].wait_pid = Cur.id
                                /\ processes[i].wstatus_ref = x
    <2>1. PICK p \in Indices :
             /\ Awaits(processes, current_proc, p)
             /\ mem' = [mem EXCEPT ![processes[p].wstatus_ref] = status]
        BY <1>7 DEF ExitStep
    <2>2. x = processes[p].wstatus_ref BY <1>1, <2>1, OneWord
    <2>3. processes[p].wstatus_ref \in {NULL, processes[p].section}
        BY <2>1 DEF ResourceInv, WaitRefs, Awaits
    <2> QED BY <1>1, <2>1, <2>2, <2>3 DEF Awaits, Cur
<1> QED BY <1>2, <1>3, <1>4, <1>5, <1>6, <1>7, StepEffects

\* Memory is private: no trap, no status of a child that is stored through a
\* pointer and no store of a program changes the section of another process,
\* but for the status word of a process that waits for the current one, and
\* for the sections behind its own when a buffer goes beyond that section,
\* which no fork, exit or waitpid does.
THEOREM MemoryStaysPrivate == Spec => PrivateMemory
<1>1. IInv /\ ResourceInv /\ [Next]_vars => [MemoryStep]_vars
    BY StepPrivate
<1>2. Spec => [][MemoryStep]_vars
    BY <1>1, Invariance, Ownership, PTL DEF Spec
<1> QED BY <1>2 DEF PrivateMemory, MemoryStep


-----------------------------------------------------------------------------
(* Open files                                                              *)

\* The descriptors of the live processes of a table that refer to f.
Refs(procs, n, f) ==
    {r \in (0 .. n - 1) \X Fds :
        procs[r[1]].status # "EXITED" /\ procs[r[1]].files[r[2]] = f}

\* They are finitely many.
LEMMA RefsFinite ==
    ASSUME NEW n \in Nat, NEW procs, NEW f
    PROVE  IsFiniteSet(Refs(procs, n, f)) /\ Cardinality(Refs(procs, n, f)) \in Nat
<1>1. IsFiniteSet(0 .. n - 1) /\ IsFiniteSet(Fds)
    BY FS_Interval, SizesAssumption DEF Fds
<1>2. IsFiniteSet((0 .. n - 1) \X Fds)
    BY <1>1, FS_Product
<1>3. Refs(procs, n, f) \in SUBSET ((0 .. n - 1) \X Fds)
    BY DEF Refs
<1>4. IsFiniteSet(Refs(procs, n, f))
    BY <1>2, <1>3, FS_Subset
<1> QED BY <1>4, FS_CardinalityType

\* Every live process of q was, under another index, a live process of p with
\* the same files.
Embeds(g, p, n, q, m) ==
    /\ g \in [0 .. m - 1 -> 0 .. n - 1]
    /\ \A i, j \in 0 .. m - 1 : g[i] = g[j] => i = j
    /\ \A j \in 0 .. m - 1 : q[j].status # "EXITED" =>
          p[g[j]].status # "EXITED" /\ q[j].files = p[g[j]].files

\* Then q holds no more references than p.
LEMMA RefsShrink ==
    ASSUME NEW n \in Nat, NEW m \in Nat, NEW p, NEW q, NEW f,
           NEW g, Embeds(g, p, n, q, m)
    PROVE  /\ Cardinality(Refs(q, m, f)) <= Cardinality(Refs(p, n, f))
           /\ Refs(q, m, f) # {} => Refs(p, n, f) # {}
<1> DEFINE S == Refs(q, m, f)
           T == Refs(p, n, f)
           h == [r \in S |-> <<g[r[1]], r[2]>>]
<1>1. ASSUME NEW r \in S
      PROVE  /\ r[1] \in 0 .. m - 1 /\ r[2] \in Fds /\ r = <<r[1], r[2]>>
             /\ q[r[1]].status # "EXITED" /\ q[r[1]].files[r[2]] = f
    BY DEF Refs
<1>2. ASSUME NEW a \in 0 .. n - 1, NEW b \in Fds, p[a].status # "EXITED",
             p[a].files[b] = f
      PROVE  <<a, b>> \in T
    BY <1>2 DEF Refs
<1> HIDE DEF S, T
<1>3. ASSUME NEW r \in S PROVE <<g[r[1]], r[2]>> \in T
    BY <1>1, <1>2 DEF Embeds
<1>4. h \in [S -> T]
    BY <1>3
<1>5. ASSUME NEW a \in S, NEW b \in S, h[a] = h[b] PROVE a = b
    <2>1. g[a[1]] = g[b[1]] /\ a[2] = b[2]
        BY <1>5
    <2> QED BY <1>1, <2>1 DEF Embeds
<1>6. h \in Injection(S, T)
    BY <1>4, <1>5 DEF Injection, IsInjective
<1>7. IsFiniteSet(T)
    BY RefsFinite DEF T
<1>8. Cardinality(S) <= Cardinality(T)
    BY <1>6, <1>7, FS_Injection
<1>9. S # {} => T # {}
    BY <1>3
<1> QED BY <1>8, <1>9 DEF S, T


\* What is known of the files of a table: OpenFilesCounted, and every released
\* object was allocated.
Counted(procs, n, counts, h, gone) ==
    /\ \A f \in gone : f <= h
    /\ \A f \in Files :
          /\ counts[f] >= Cardinality(Refs(procs, n, f))
          /\ Refs(procs, n, f) # {} => f <= h /\ f \notin gone

FilesInv == OpenFilesCounted /\ \A f \in released : f <= heap

\* The two forms agree, now ...
LEMMA CountedForm ==
    FilesInv <=> Counted(processes, proc_count, fd_count, heap, released)
<1>1. \A f : FdRefs(f) = Refs(processes, proc_count, f)
    BY DEF FdRefs, Refs, Indices, Live
<1> QED BY <1>1 DEF FilesInv, OpenFilesCounted, Counted

\* ... and in the next state.
LEMMA CountedFormNext ==
    FilesInv' <=> Counted(processes', proc_count', fd_count', heap', released')
<1>1. (FilesInv <=> Counted(processes, proc_count, fd_count, heap, released))'
    BY CountedForm, PTL
<1> QED BY <1>1

\* A table with no more references, the same counts, and at most one object
\* more, which is released at once.
LEMMA ShrinkCounted ==
    ASSUME NEW n \in Nat, NEW m \in Nat, NEW p, NEW q, NEW counts \in [Files -> Nat],
           NEW h \in Nat, NEW h2, NEW gone, NEW gone2,
           Counted(p, n, counts, h, gone), gone \subseteq Files,
           \/ h2 = h /\ gone2 = gone
           \/ h2 = h + 1 /\ gone2 = gone \cup {h + 1},
           NEW g, Embeds(g, p, n, q, m)
    PROVE  Counted(q, m, counts, h2, gone2)
<1>1. ASSUME NEW f \in Files
      PROVE  /\ Cardinality(Refs(q, m, f)) <= Cardinality(Refs(p, n, f))
             /\ Refs(q, m, f) # {} => Refs(p, n, f) # {}
    BY RefsShrink
<1>2. \A f \in Files : f \in Nat
    BY DEF Files
<1>3. ASSUME NEW f \in Files PROVE counts[f] >= Cardinality(Refs(q, m, f))
    <2>1. /\ Cardinality(Refs(q, m, f)) \in Nat /\ Cardinality(Refs(p, n, f)) \in Nat
          /\ counts[f] \in Nat /\ counts[f] >= Cardinality(Refs(p, n, f))
        BY RefsFinite DEF Counted
    <2> QED BY <1>1, <2>1
<1>4. ASSUME NEW f \in Files, Refs(q, m, f) # {} PROVE f <= h2 /\ f \notin gone2
    <2>1. f <= h /\ f \notin gone
        BY <1>1, <1>4 DEF Counted
    <2> QED BY <1>2, <2>1
<1>5. ASSUME NEW f \in gone2 PROVE f <= h2
    <2>1. CASE f \in gone
        <3>1. f <= h /\ f \in Nat BY <1>2, <2>1 DEF Counted
        <3> QED BY <3>1
    <2>2. CASE f \notin gone
        BY <1>5, <2>2
    <2> QED BY <2>1, <2>2
<1> QED BY <1>3, <1>4, <1>5 DEF Counted

\* What the invariant says of the file variables.
LEMMA FileTypes ==
    ASSUME IInv
    PROVE  /\ fd_count \in [Files -> Nat] /\ heap \in Nat /\ heap <= HEAP_CAPACITY
           /\ released \subseteq Files /\ proc_count \in Nat
BY SizesAssumption DEF IInv, TypeOK

\* Steps that keep the processes and open or close no descriptor.
LEMMA KeptCounted ==
    ASSUME IInv, FilesInv, Kept, FilesKept
    PROVE  FilesInv'
<1> DEFINE n == proc_count
           g == [i \in 0 .. n - 1 |-> i]
<1>1. /\ n \in Nat /\ fd_count \in [Files -> Nat] /\ heap \in Nat /\ released \subseteq Files
    BY FileTypes
<1>2. /\ g \in [0 .. n - 1 -> 0 .. n - 1]
      /\ \A i, j \in 0 .. n - 1 : g[i] = g[j] => i = j
    OBVIOUS
<1>3. \A j \in 0 .. n - 1 : processes'[j].status # "EXITED" =>
          processes[g[j]].status # "EXITED" /\ processes'[j].files = processes[g[j]].files
    BY DEF Kept, SameProc, FilesKept, Indices
<1>4. Counted(processes, n, fd_count, heap, released)
    BY CountedForm
<1>5. /\ fd_count' = fd_count /\ proc_count' = n
      /\ \/ heap' = heap /\ released' = released
         \/ heap' = heap + 1 /\ released' = released \cup {heap + 1}
    BY DEF Kept, FilesKept
<1> HIDE DEF g, n
<1>6. Counted(processes', n, fd_count, heap', released')
    <2>1. Embeds(g, processes, n, processes', n) BY <1>2, <1>3 DEF Embeds
    <2> QED BY <1>1, <1>4, <1>5, <2>1, ShrinkCounted
<1> QED BY <1>5, <1>6, CountedFormNext

\* A caller that is suspended keeps its files.
LEMMA SuspendCounted ==
    ASSUME IInv, FilesInv, NEW pid, NEW ref, SuspendStep(pid, ref)
    PROVE  FilesInv'
<1> DEFINE n == proc_count
           g == [i \in 0 .. n - 1 |-> i]
<1>1. /\ n \in Nat /\ fd_count \in [Files -> Nat] /\ heap \in Nat /\ released \subseteq Files
    BY FileTypes
<1>2. /\ g \in [0 .. n - 1 -> 0 .. n - 1]
      /\ \A i, j \in 0 .. n - 1 : g[i] = g[j] => i = j
    OBVIOUS
<1>3. Cur.status = "SCHEDULED"
    BY UserState DEF SuspendStep
<1>4. \A j \in 0 .. n - 1 : processes'[j].status # "EXITED" =>
          processes[g[j]].status # "EXITED" /\ processes'[j].files = processes[g[j]].files
    BY <1>3 DEF SuspendStep, Indices, Cur
<1>5. Counted(processes, n, fd_count, heap, released)
    BY CountedForm
<1>6. /\ fd_count' = fd_count /\ proc_count' = n /\ heap' = heap /\ released' = released
    BY DEF SuspendStep
<1> HIDE DEF g, n
<1>7. Counted(processes', n, fd_count, heap', released')
    <2>1. Embeds(g, processes, n, processes', n) BY <1>2, <1>4 DEF Embeds
    <2> QED BY <1>1, <1>5, <1>6, <2>1, ShrinkCounted
<1> QED BY <1>6, <1>7, CountedFormNext

\* Removing a slot or letting a process exit only drops references: exit does
\* not close the files, and their counts stay.
LEMMA RemoveCounted ==
    ASSUME IInv, FilesInv,
           (\E k, ref : ReapStep(k, ref)) \/ (\E status \in Int : ExitStep(status))
    PROVE  FilesInv'
<1> DEFINE n == proc_count
<1>1. /\ n \in Nat /\ fd_count \in [Files -> Nat] /\ heap \in Nat /\ released \subseteq Files
      /\ fd_count' = fd_count /\ heap' = heap /\ released' = released
      /\ Indices = 0 .. n - 1 /\ current_proc \in 0 .. n - 1
    <2>1. cpu = "user"
        BY DEF ReapStep, ExitStep
    <2> QED BY <2>1, FileTypes, UserState DEF ReapStep, ExitStep, Indices
<1>2. Counted(processes, n, fd_count, heap, released)
    BY CountedForm
<1>3. ASSUME NEW k \in 0 .. n - 1, proc_count' = n - 1,
             \A j \in 0 .. n - 2 : processes'[j].status # "EXITED" =>
                /\ processes[OldIndex(k, j)].status # "EXITED"
                /\ processes'[j].files = processes[OldIndex(k, j)].files
      PROVE  FilesInv'
    <2> DEFINE g == [j \in 0 .. (n - 1) - 1 |-> OldIndex(k, j)]
    <2>1. 0 .. (n - 1) - 1 = 0 .. n - 2 /\ n - 1 \in Nat
        BY <1>1, <1>3
    <2>2. /\ \A j \in 0 .. n - 2 : OldIndex(k, j) \in 0 .. n - 1
          /\ \A i, j \in 0 .. n - 2 : OldIndex(k, i) = OldIndex(k, j) => i = j
        BY <1>1, OldIndexRange
    <2> HIDE DEF n
    <2>3. /\ g \in [0 .. (n - 1) - 1 -> 0 .. n - 1]
          /\ \A i, j \in 0 .. (n - 1) - 1 : g[i] = g[j] => i = j
          /\ \A j \in 0 .. (n - 1) - 1 : g[j] = OldIndex(k, j)
        BY <2>1, <2>2
    <2> HIDE DEF g
    <2>4. \A j \in 0 .. (n - 1) - 1 : processes'[j].status # "EXITED" =>
             processes[g[j]].status # "EXITED" /\ processes'[j].files = processes[g[j]].files
        BY <1>3, <2>1, <2>3
    <2>5. Counted(processes', n - 1, fd_count, heap, released)
        <3>1. PICK m \in Nat : m = n - 1
            BY <2>1
        <3>2. Embeds(g, processes, n, processes', m)
            BY <2>3, <2>4, <3>1 DEF Embeds
        <3>3. Counted(processes', m, fd_count, heap, released)
            BY <1>1, <1>2, <3>2, ShrinkCounted
        <3> QED BY <3>1, <3>3
    <2> QED BY <1>1, <1>3, <2>5, CountedFormNext
<1>4. ASSUME NEW k, NEW ref, ReapStep(k, ref) PROVE FilesInv'
    BY <1>1, <1>3, <1>4 DEF ReapStep, SameProc
<1>5. ASSUME NEW status \in Int, ExitStep(status) PROVE FilesInv'
    <2>1. ASSUME NEW q, NEW i \in Indices, ExitImage(q, i, status), q.status # "EXITED"
          PROVE  processes[i].status # "EXITED" /\ q.files = processes[i].files
        <3>1. CASE i = current_proc
            BY <2>1, <3>1 DEF ExitImage
        <3>2. CASE i # current_proc /\ Awaits(processes, current_proc, i)
            BY <2>1, <3>2 DEF ExitImage, Awaits
        <3>3. CASE i # current_proc /\ ~ Awaits(processes, current_proc, i)
            <4>1. q = [processes[i] EXCEPT !.parent_id = q.parent_id]
                  /\ q.files = processes[i].files
                BY <2>1, <3>3 DEF ExitImage
            <4>2. PICK c \in Process, e \in {q.parent_id} : c = processes[i] /\ e = q.parent_id
                BY DEF IInv, TypeOK
            <4>3. q = [c EXCEPT !.parent_id = e]
                BY <4>1, <4>2
            <4>4. q.status = c.status
                BY <4>3 DEF Process
            <4> QED BY <2>1, <4>1, <4>2, <4>4
        <3> QED BY <3>1, <3>2, <3>3
    <2>2. CASE /\ proc_count' = proc_count
               /\ \A i \in Indices : ExitImage(processes'[i], i, status)
        <3> DEFINE g == [i \in 0 .. n - 1 |-> i]
        <3>1. /\ g \in [0 .. n - 1 -> 0 .. n - 1]
              /\ \A i, j \in 0 .. n - 1 : g[i] = g[j] => i = j
              /\ \A i \in 0 .. n - 1 : g[i] = i
            OBVIOUS
        <3> HIDE DEF g, n
        <3>2. \A j \in 0 .. n - 1 : processes'[j].status # "EXITED" =>
                 processes[g[j]].status # "EXITED" /\ processes'[j].files = processes[g[j]].files
            BY <1>1, <2>1, <2>2, <3>1
        <3>3. Counted(processes', n, fd_count, heap, released)
            <4>1. Embeds(g, processes, n, processes', n) BY <3>1, <3>2 DEF Embeds
            <4> QED BY <1>1, <1>2, <4>1, ShrinkCounted
        <3> QED BY <1>1, <2>2, <3>3, CountedFormNext DEF n
    <2>3. CASE /\ proc_count' = proc_count - 1
               /\ \A j \in 0 .. proc_count - 2 :
                     ExitImage(processes'[j], OldIndex(current_proc, j), status)
        <3>1. \A j \in 0 .. n - 2 : OldIndex(current_proc, j) \in Indices
            BY <1>1, OldIndexRange
        <3> QED BY <1>1, <1>3, <2>1, <2>3, <3>1
    <2> QED BY <1>5, <2>2, <2>3 DEF ExitStep
<1> QED BY <1>4, <1>5


\* A reference to f is a live process's descriptor that holds f.
LEMMA RefsElement ==
    ASSUME NEW procs, NEW n, NEW f, NEW i, NEW fd
    PROVE  <<i, fd>> \in Refs(procs, n, f) <=>
              /\ i \in 0 .. n - 1 /\ fd \in Fds
              /\ procs[i].status # "EXITED" /\ procs[i].files[fd] = f
BY DEF Refs

\* ... and nothing else is one.
LEMMA RefsPairs ==
    ASSUME NEW procs, NEW n, NEW f, NEW r \in Refs(procs, n, f)
    PROVE  r = <<r[1], r[2]>>
BY DEF Refs

\* Two sets of references with the same pairs are equal.
LEMMA RefsEqual ==
    ASSUME NEW p, NEW n, NEW q, NEW m, NEW f, NEW g,
           \A i, fd : <<i, fd>> \in Refs(q, m, g) <=> <<i, fd>> \in Refs(p, n, f)
    PROVE  Refs(q, m, g) = Refs(p, n, f)
<1>1. ASSUME NEW r \in Refs(q, m, g) PROVE r \in Refs(p, n, f)
    BY RefsPairs
<1>2. ASSUME NEW r \in Refs(p, n, f) PROVE r \in Refs(q, m, g)
    BY RefsPairs
<1> QED BY <1>1, <1>2

\* The slots, statuses and files of a table in which the current process has
\* another file behind one descriptor.
LEMMA DescriptorSet ==
    ASSUME IInv, Kept, cpu = "user", NEW fd \in Fds, NEW v,
           \A i \in Indices : processes'[i].files =
              IF i = current_proc THEN [Cur.files EXCEPT ![fd] = v]
                                  ELSE processes[i].files,
           NEW f
    PROVE  LET old == Refs(processes, proc_count, f)
               new == Refs(processes', proc_count, f)
               me == <<current_proc, fd>>
           IN  /\ Cur.files[fd] = f => me \in old
               /\ \A i, d : <<i, d>> # me => (<<i, d>> \in new <=> <<i, d>> \in old)
               /\ me \in new <=> f = v
<1>1. /\ proc_count \in Nat /\ Indices = 0 .. proc_count - 1 /\ current_proc \in Indices
      /\ Cur \in Process /\ Cur.status = "SCHEDULED" /\ processes[current_proc] = Cur
    BY UserState DEF Indices, Cur
<1>2. \A i \in Indices : processes'[i].status = processes[i].status
    BY DEF Kept, SameProc
<1>3. Cur.files \in [Fds -> 0 .. HEAP_CAPACITY]
    BY <1>1 DEF Process
<1>4. ASSUME NEW i \in Indices, NEW d \in Fds
      PROVE  processes'[i].files[d] = IF i = current_proc /\ d = fd THEN v
                                      ELSE processes[i].files[d]
    BY <1>1, <1>3
<1>5. Cur.files[fd] = f => <<current_proc, fd>> \in Refs(processes, proc_count, f)
    BY <1>1, RefsElement
<1>6. <<current_proc, fd>> \in Refs(processes', proc_count, f) <=> f = v
    BY <1>1, <1>2, <1>4, RefsElement
<1>7. ASSUME NEW i, NEW d, <<i, d>> # <<current_proc, fd>>
      PROVE  <<i, d>> \in Refs(processes', proc_count, f)
               <=> <<i, d>> \in Refs(processes, proc_count, f)
    <2>1. i # current_proc \/ d # fd BY <1>7
    <2> QED BY <1>1, <1>2, <1>4, <2>1, RefsElement
<1> QED BY <1>5, <1>6, <1>7

\* OPEN: the new object has the one reference that is counted.
LEMMA OpenCounted ==
    ASSUME IInv, FilesInv, Kept, cpu = "user", NEW fd \in Fds, FileOpened(fd)
    PROVE  FilesInv'
<1> DEFINE old(f) == Refs(processes, proc_count, f)
           new(f) == Refs(processes', proc_count, f)
           me == <<current_proc, fd>>
<1>1. /\ fd_count \in [Files -> Nat] /\ heap \in Nat /\ released \subseteq Files
      /\ proc_count \in Nat /\ proc_count' = proc_count
    BY FileTypes DEF Kept
<1>2. /\ Cur.files[fd] = 0 /\ fd_count' = [fd_count EXCEPT ![heap + 1] = 1]
      /\ heap' = heap + 1 /\ released' = released
      /\ \A i \in Indices : processes'[i].files =
            IF i = current_proc THEN [Cur.files EXCEPT ![fd] = heap + 1]
                                ELSE processes[i].files
    BY DEF FileOpened, NULL
<1>3. Counted(processes, proc_count, fd_count, heap, released)
    BY CountedForm
<1>4. \A f \in Files : f \in Nat /\ f # 0
    BY DEF Files
<1>5. ASSUME NEW f \in Files
      PROVE  /\ \A i, d : <<i, d>> # me => (<<i, d>> \in new(f) <=> <<i, d>> \in old(f))
             /\ me \in new(f) <=> f = heap + 1
    BY <1>2, DescriptorSet
<1>6. ASSUME NEW f \in Files, f # heap + 1
      PROVE  new(f) = old(f)
    <2>1. Cur.files[fd] # f BY <1>2, <1>4
    <2>2. me \notin old(f)
        BY <2>1, RefsElement DEF Cur
    <2>3. \A i, d : <<i, d>> \in new(f) <=> <<i, d>> \in old(f)
        BY <1>5, <1>6, <2>2
    <2> QED BY <2>3, RefsEqual
<1>7. ASSUME heap + 1 \in Files PROVE new(heap + 1) = {me}
    <2>1. old(heap + 1) = {}
        BY <1>1, <1>3, <1>7 DEF Counted
    <2>2. me \in new(heap + 1)
        BY <1>5, <1>7
    <2>3. ASSUME NEW r \in new(heap + 1) PROVE r = me
        <3>1. r = <<r[1], r[2]>> BY RefsPairs
        <3> QED BY <1>5, <1>7, <2>1, <3>1
    <2> QED BY <2>2, <2>3
<1>8. Cardinality({me}) = 1
    BY FS_Singleton
<1> HIDE DEF old, new, me
<1>9. ASSUME NEW f \in Files
      PROVE  /\ fd_count'[f] >= Cardinality(new(f))
             /\ new(f) # {} => f <= heap + 1 /\ f \notin released
    <2>1. CASE f = heap + 1
        <3>1. fd_count'[f] = 1 /\ Cardinality(new(f)) = 1
            BY <1>1, <1>2, <1>7, <1>8, <2>1
        <3>2. f \notin released
            BY <1>1, <1>3, <2>1 DEF Counted
        <3> QED BY <1>1, <2>1, <3>1, <3>2
    <2>2. CASE f # heap + 1
        <3>1. /\ fd_count'[f] = fd_count[f] /\ new(f) = old(f)
            BY <1>1, <1>2, <1>6, <2>2
        <3>2. /\ fd_count[f] >= Cardinality(old(f))
              /\ old(f) # {} => f <= heap /\ f \notin released
            BY <1>3 DEF Counted, old
        <3> QED BY <1>1, <1>4, <3>1, <3>2
    <2> QED BY <2>1, <2>2
<1>10. \A f \in released : f <= heap + 1
    BY <1>1, <1>3, <1>4 DEF Counted
<1>11. Counted(processes', proc_count', fd_count', heap', released')
    BY <1>1, <1>2, <1>9, <1>10 DEF Counted, new
<1> QED BY <1>11, CountedFormNext

\* CLOSE: one reference and one count less; an object that is released has no
\* reference left.
LEMMA CloseCounted ==
    ASSUME IInv, FilesInv, Kept, cpu = "user", NEW fd \in Fds, FileClosed(fd)
    PROVE  FilesInv'
<1> DEFINE old(f) == Refs(processes, proc_count, f)
           new(f) == Refs(processes', proc_count, f)
           me == <<current_proc, fd>>
           c == Cur.files[fd]
<1>1. /\ fd_count \in [Files -> Nat] /\ heap \in Nat /\ released \subseteq Files
      /\ proc_count \in Nat /\ proc_count' = proc_count
    BY FileTypes DEF Kept
<1>2. /\ c # 0 /\ fd_count[c] # 0 /\ fd_count' = [fd_count EXCEPT ![c] = @ - 1]
      /\ heap' = heap
      /\ released' = IF fd_count[c] = 1 THEN released \cup {c} ELSE released
      /\ \A i \in Indices : processes'[i].files =
            IF i = current_proc THEN [Cur.files EXCEPT ![fd] = NULL]
                                ELSE processes[i].files
    BY DEF FileClosed, NULL
<1>3. Counted(processes, proc_count, fd_count, heap, released)
    BY CountedForm
<1>4. \A f \in Files : f \in Nat /\ f # NULL
    BY DEF Files, NULL
<1>5. ASSUME NEW f \in Files
      PROVE  /\ \A i, d : <<i, d>> # me => (<<i, d>> \in new(f) <=> <<i, d>> \in old(f))
             /\ me \notin new(f) /\ (f = c => me \in old(f))
    BY <1>2, <1>4, DescriptorSet
<1>6. c \in Files
    <2>1. Cur.files \in [Fds -> 0 .. HEAP_CAPACITY]
        BY UserState DEF Process
    <2>2. c \in 0 .. HEAP_CAPACITY
        BY <2>1
    <2> QED BY <1>2, <2>2, SizesAssumption DEF Files
<1>7. ASSUME NEW f \in Files, f # c PROVE new(f) = old(f)
    <2>1. me \notin old(f)
        BY <1>7, RefsElement DEF Cur
    <2>2. \A i, d : <<i, d>> \in new(f) <=> <<i, d>> \in old(f)
        BY <1>5, <2>1
    <2> QED BY <2>2, RefsEqual
<1>8. new(c) = old(c) \ {me} /\ me \in old(c)
    <2>1. ASSUME NEW r \in new(c) PROVE r \in old(c) \ {me}
        <3>1. r = <<r[1], r[2]>> BY RefsPairs
        <3> QED BY <1>5, <1>6, <3>1
    <2>2. ASSUME NEW r \in old(c) \ {me} PROVE r \in new(c)
        <3>1. r = <<r[1], r[2]>> BY RefsPairs
        <3> QED BY <1>5, <1>6, <3>1
    <2> QED BY <1>5, <1>6, <2>1, <2>2
<1>9. /\ IsFiniteSet(old(c)) /\ Cardinality(old(c)) \in Nat
      /\ IsFiniteSet(new(c)) /\ Cardinality(new(c)) \in Nat
    BY <1>1, RefsFinite
<1> HIDE DEF old, new, me, c
<1>10. Cardinality(new(c)) = Cardinality(old(c)) - 1
    BY <1>8, <1>9, FS_RemoveElement
<1>11. /\ fd_count[c] \in Nat /\ fd_count[c] >= Cardinality(old(c))
       /\ fd_count'[c] = fd_count[c] - 1 /\ c <= heap /\ c \notin released
    <2>1. /\ fd_count[c] \in Nat /\ fd_count'[c] = fd_count[c] - 1
        BY <1>1, <1>2, <1>6
    <2>2. fd_count[c] >= Cardinality(old(c)) /\ c <= heap /\ c \notin released
        BY <1>3, <1>6, <1>8 DEF Counted, old
    <2> QED BY <2>1, <2>2
<1>12. fd_count[c] = 1 => new(c) = {}
    <2>1. ASSUME fd_count[c] = 1 PROVE Cardinality(new(c)) = 0
        BY <1>9, <1>10, <1>11, <2>1
    <2> QED BY <1>9, <2>1, FS_EmptySet
<1>13. ASSUME NEW f \in Files
       PROVE  /\ fd_count'[f] >= Cardinality(new(f))
              /\ new(f) # {} => f <= heap /\ f \notin released'
    <2>1. CASE f = c
        <3>1. fd_count'[f] >= Cardinality(new(f))
            BY <1>9, <1>10, <1>11, <2>1
        <3>2. new(f) # {} => f \notin released'
            BY <1>2, <1>11, <1>12, <2>1
        <3> QED BY <1>11, <2>1, <3>1, <3>2
    <2>2. CASE f # c
        <3>1. /\ fd_count'[f] = fd_count[f] /\ new(f) = old(f)
            BY <1>1, <1>2, <1>7, <2>2
        <3>2. /\ fd_count[f] >= Cardinality(old(f))
              /\ old(f) # {} => f <= heap /\ f \notin released
            BY <1>3 DEF Counted, old
        <3> QED BY <1>2, <2>2, <3>1, <3>2
    <2> QED BY <2>1, <2>2
<1>14. \A f \in released' : f <= heap
    BY <1>2, <1>3, <1>11 DEF Counted
<1>15. Counted(processes', proc_count', fd_count', heap', released')
    BY <1>1, <1>2, <1>13, <1>14 DEF Counted, new
<1> QED BY <1>15, CountedFormNext


\* FORK: the child's descriptors are new references, and each is counted.
LEMMA ForkCounted ==
    ASSUME IInv, FilesInv, ForkStep
    PROVE  FilesInv'
<1> DEFINE n == proc_count
           old(f) == Refs(processes, n, f)
           new(f) == Refs(processes', n + 1, f)
           mine(f) == {fd \in Fds : Cur.files[fd] = f}
<1>1. /\ fd_count \in [Files -> Nat] /\ heap \in Nat /\ n \in Nat /\ n + 1 \in Nat
      /\ Indices = 0 .. n - 1 /\ current_proc \in 0 .. n - 1
      /\ Cur.status = "SCHEDULED" /\ Cur = processes[current_proc]
    BY FileTypes, UserState DEF ForkStep, Indices, Cur
<1>2. /\ fd_count' = ForkedCounts /\ heap' = heap /\ released' = released
      /\ proc_count' = n + 1
      /\ processes'[n].status = "SCHEDULED" /\ processes'[n].files = Cur.files
      /\ \A i \in 0 .. n - 1 : /\ processes'[i].status = processes[i].status
                               /\ processes'[i].files = processes[i].files
    BY <1>1 DEF ForkStep, SameProc
<1>3. Counted(processes, n, fd_count, heap, released)
    BY CountedForm
<1>4. ASSUME NEW f \in Files
      PROVE  /\ Cardinality(new(f)) <= Cardinality(old(f)) + Cardinality(mine(f))
             /\ Cardinality(mine(f)) \in Nat
             /\ new(f) # {} => old(f) # {}
    <2> DEFINE T == new(f) \ old(f)
               h == [r \in T |-> r[2]]
    <2>1. ASSUME NEW i, NEW d
          PROVE  /\ i # n => (<<i, d>> \in new(f) <=> <<i, d>> \in old(f))
                 /\ <<i, d>> \in new(f) /\ i = n =>
                        d \in mine(f) /\ <<current_proc, d>> \in old(f)
        <3>1. i \in 0 .. (n + 1) - 1 /\ i # n <=> i \in 0 .. n - 1
            BY <1>1
        <3>2. CASE i # n
            BY <1>2, <3>1, <3>2, RefsElement
        <3>3. CASE i = n
            BY <1>1, <1>2, <3>3, RefsElement
        <3> QED BY <3>2, <3>3
    <2>2. ASSUME NEW r \in new(f)
          PROVE  r = <<r[1], r[2]>>
        BY RefsPairs
    <2>3. ASSUME NEW r \in old(f) PROVE r \in new(f)
        <3>1. r = <<r[1], r[2]>> BY RefsPairs
        <3>2. r[1] \in 0 .. n - 1 BY <3>1, RefsElement
        <3>3. r[1] # n BY <1>1, <3>2
        <3> QED BY <2>1, <3>1, <3>3
    <2>4. IsFiniteSet(old(f)) /\ Cardinality(old(f)) \in Nat
        BY <1>1, RefsFinite
    <2>5. IsFiniteSet(new(f))
        BY <1>1, RefsFinite
    <2>6. IsFiniteSet(mine(f)) /\ Cardinality(mine(f)) \in Nat
        <3>1. IsFiniteSet(Fds)
            BY FS_Interval, SizesAssumption DEF Fds
        <3>2. mine(f) \in SUBSET Fds
            OBVIOUS
        <3>3. IsFiniteSet(mine(f))
            BY <3>1, <3>2, FS_Subset
        <3> QED BY <3>3, FS_CardinalityType
    <2> HIDE DEF n, old, new, mine
    <2>7. ASSUME NEW r \in T PROVE r[1] = n /\ r[2] \in mine(f)
        BY <2>1, <2>2
    <2>8. h \in [T -> mine(f)]
        BY <2>7
    <2>9. ASSUME NEW a \in T, NEW b \in T, h[a] = h[b] PROVE a = b
        BY <2>2, <2>7, <2>9
    <2>10. h \in Injection(T, mine(f))
        BY <2>8, <2>9 DEF Injection, IsInjective
    <2>11. Cardinality(T) <= Cardinality(mine(f))
        BY <2>6, <2>10, FS_Injection
    <2>12. IsFiniteSet(T) /\ Cardinality(T) \in Nat
        BY <2>5, FS_Subset, FS_CardinalityType
    <2>13. new(f) = old(f) \cup T /\ old(f) \cap T = {}
        BY <2>3
    <2> HIDE DEF T
    <2>14. Cardinality(new(f)) = Cardinality(old(f)) + Cardinality(T) - Cardinality({})
        BY <2>4, <2>12, <2>13, FS_Union
    <2>15. Cardinality({}) = 0
        BY FS_EmptySet
    <2>16. Cardinality(new(f)) <= Cardinality(old(f)) + Cardinality(mine(f))
        BY <2>4, <2>6, <2>11, <2>12, <2>14, <2>15
    <2>17. ASSUME NEW r \in new(f) PROVE old(f) # {}
        <3>1. r = <<r[1], r[2]>> BY <2>2
        <3>2. CASE r[1] = n
            <4>1. <<current_proc, r[2]>> \in old(f) BY <2>1, <3>1, <3>2
            <4> QED BY <4>1
        <3>3. CASE r[1] # n
            <4>1. <<r[1], r[2]>> \in old(f) BY <2>1, <3>1, <3>3
            <4> QED BY <4>1
        <3> QED BY <3>2, <3>3
    <2> QED BY <2>6, <2>16, <2>17
<1>5. ASSUME NEW f \in Files
      PROVE  fd_count'[f] = fd_count[f] + Cardinality(mine(f))
    BY <1>2 DEF ForkedCounts
<1>6. ASSUME NEW f \in Files
      PROVE  /\ fd_count[f] \in Nat /\ fd_count[f] >= Cardinality(old(f))
             /\ old(f) # {} => f <= heap /\ f \notin released
    BY <1>1, <1>3 DEF Counted
<1>7. ASSUME NEW f \in Files
      PROVE  Cardinality(old(f)) \in Nat /\ Cardinality(new(f)) \in Nat
    BY <1>1, RefsFinite
<1> HIDE DEF old, mine
<1>8. \A f \in Files : /\ fd_count'[f] >= Cardinality(new(f))
                       /\ new(f) # {} => f <= heap /\ f \notin released
    BY <1>4, <1>5, <1>6, <1>7
<1>9. Counted(processes', n + 1, fd_count', heap', released')
    BY <1>2, <1>3, <1>8 DEF Counted
<1> QED BY <1>2, <1>9, CountedFormNext

\* scheduler_start gives init three descriptors of one object; a reboot leaves
\* no process and no object.
LEMMA StartCounted ==
    ASSUME IInv, SchedulerStart \/ Reboot
    PROVE  FilesInv'
<1>1. CASE Reboot
    <2>1. /\ proc_count' = 0 /\ fd_count' = [f \in Files |-> 0] /\ released' = {}
        BY <1>1 DEF Reboot
    <2>2. \A f : Refs(processes', 0, f) = {}
        BY DEF Refs
    <2>3. Cardinality({}) = 0
        BY FS_EmptySet
    <2>4. Counted(processes', proc_count', fd_count', heap', released')
        BY <2>1, <2>2, <2>3 DEF Counted
    <2> QED BY <2>4, CountedFormNext
<1>2. CASE SchedulerStart
    <2>1. /\ proc_count' = 1 /\ heap' = 2 /\ released' = {2}
          /\ fd_count' = [fd_count EXCEPT ![TTY] = 3]
          /\ processes'[0].files = [fd \in Fds |-> IF fd \in StdFds THEN TTY ELSE NULL]
          /\ HEAP_CAPACITY >= 2
        BY <1>2 DEF SchedulerStart
    <2>2. fd_count \in [Files -> Nat] /\ TTY \in Files
        BY FileTypes, SizesAssumption DEF TTY, Files
    <2>3. ASSUME NEW f \in Files, NEW r \in Refs(processes', 1, f)
          PROVE  f = TTY /\ r = <<0, r[2]>> /\ r[2] \in StdFds
        <3>1. r = <<r[1], r[2]>>
            BY RefsPairs
        <3>2. r[1] \in 0 .. 1 - 1 /\ r[2] \in Fds /\ processes'[r[1]].files[r[2]] = f
            BY <3>1, RefsElement
        <3>3. r[1] = 0
            BY <3>2
        <3>4. f # NULL
            BY DEF Files, NULL
        <3> QED BY <2>1, <3>1, <3>2, <3>3, <3>4
    <2>4. ASSUME NEW f \in Files, f # TTY PROVE Refs(processes', 1, f) = {}
        BY <2>3, <2>4
    <2> DEFINE S == Refs(processes', 1, TTY)
               h == [r \in S |-> r[2]]
    <2>5. Cardinality(S) <= 3 /\ Cardinality(S) \in Nat
        <3>1. h \in [S -> StdFds]
            BY <2>2, <2>3
        <3>2. ASSUME NEW a \in S, NEW b \in S, h[a] = h[b] PROVE a = b
            BY <2>2, <2>3, <3>2
        <3>3. h \in Injection(S, StdFds)
            BY <3>1, <3>2 DEF Injection, IsInjective
        <3>4. IsFiniteSet(StdFds) /\ Cardinality(StdFds) = 3
            <4>1. PICK a \in Int, b \in Int : a = 0 /\ b = 2
                OBVIOUS
            <4>2. IsFiniteSet(a .. b) /\ Cardinality(a .. b) = IF a > b THEN 0 ELSE b - a + 1
                BY FS_Interval
            <4> QED BY <4>1, <4>2 DEF StdFds
        <3>5. Cardinality(S) \in Nat
            BY RefsFinite
        <3> HIDE DEF h, S
        <3>6. Cardinality(S) <= Cardinality(StdFds)
            BY <3>3, <3>4, FS_Injection
        <3> QED BY <3>4, <3>5, <3>6
    <2>6. Cardinality({}) = 0
        BY FS_EmptySet
    <2>7. fd_count'[TTY] = 3 /\ \A f \in Files : fd_count'[f] \in Nat
        BY <2>1, <2>2
    <2>8. ASSUME NEW f \in Files
          PROVE  /\ fd_count'[f] >= Cardinality(Refs(processes', 1, f))
                 /\ Refs(processes', 1, f) # {} => f <= 2 /\ f \notin {2}
        <3>1. CASE f = TTY
            BY <2>5, <2>7, <3>1 DEF TTY
        <3>2. CASE f # TTY
            BY <2>4, <2>6, <2>7, <3>2
        <3> QED BY <3>1, <3>2
    <2>9. Counted(processes', proc_count', fd_count', heap', released')
        BY <2>1, <2>8 DEF Counted
    <2> QED BY <2>9, CountedFormNext
<1> QED BY <1>1, <1>2

\* Every step keeps the counts.
LEMMA NextCounted == IInv /\ FilesInv /\ [Next]_vars => FilesInv'
<1> SUFFICES ASSUME IInv, FilesInv, [Next]_vars PROVE FilesInv'
    OBVIOUS
<1>1. CASE Kept
    <2>1. CASE FilesKept
        BY <1>1, <2>1, KeptCounted
    <2>2. CASE cpu = "user" /\ \E fd \in Fds : FileOpened(fd) \/ FileClosed(fd)
        BY <1>1, <2>2, OpenCounted, CloseCounted
    <2> QED BY <1>1, <2>1, <2>2 DEF Kept
<1>2. CASE \/ \E k \in Indices, ref \in 0 .. SECTION_COUNT : ReapStep(k, ref)
           \/ \E status \in Int : ExitStep(status)
    BY <1>2, RemoveCounted
<1> QED BY <1>1, <1>2, StepEffects, StartCounted, ForkCounted, SuspendCounted

\* The open files stay counted, and what is released was allocated.
THEOREM FilesCounted == Spec => []FilesInv
<1>1. Init => FilesInv
    <2> SUFFICES ASSUME Init PROVE FilesInv
        OBVIOUS
    <2>1. /\ proc_count = 0 /\ fd_count = [f \in Files |-> 0] /\ released = {}
        BY DEF Init
    <2>2. \A f : Refs(processes, 0, f) = {}
        BY DEF Refs
    <2>3. Cardinality({}) = 0
        BY FS_EmptySet
    <2>4. Counted(processes, proc_count, fd_count, heap, released)
        BY <2>1, <2>2, <2>3 DEF Counted
    <2> QED BY <2>4, CountedForm
<1>2. IInv /\ FilesInv /\ [Next]_vars => FilesInv'
    BY NextCounted
<1> QED BY <1>1, <1>2, Invariance, PTL DEF Spec

\* No live process is ever left with a descriptor of a released file: every
\* release finds the count of a file that covers all its descriptors, those
\* that fork copied included.
THEOREM FilesStayCounted == Spec => []OpenFilesCounted
<1>1. FilesInv => OpenFilesCounted BY DEF FilesInv
<1> QED BY <1>1, FilesCounted, PTL


-----------------------------------------------------------------------------
(* No fatal error for want of resources                                    *)

\* Each resource of lo .. hi that is in use is one that a process holds.
Held(held, n, lo, hi, used) ==
    \A s \in lo .. hi : s \in used => \E i \in 0 .. n - 1 : held[i] = s

\* Fewer holders than resources: one is free.
LEMMA PigeonFree ==
    ASSUME NEW n \in Nat, NEW lo \in Nat, NEW hi \in Nat, hi - lo >= n,
           NEW used, NEW held, Held(held, n, lo, hi, used)
    PROVE  ~ (lo .. hi \subseteq used)
<1> SUFFICES ASSUME lo .. hi \subseteq used PROVE FALSE
    OBVIOUS
<1>0. \A s \in lo .. hi : \E i \in 0 .. n - 1 : held[i] = s
    BY DEF Held
<1> DEFINE h == [s \in lo .. hi |-> CHOOSE i \in 0 .. n - 1 : held[i] = s]
<1>1. \A s \in lo .. hi : h[s] \in 0 .. n - 1 /\ held[h[s]] = s
    BY <1>0
<1> HIDE DEF h
<1>2. h \in [lo .. hi -> 0 .. n - 1]
    BY <1>1 DEF h
<1>3. \A s, t \in lo .. hi : h[s] = h[t] => s = t
    BY <1>1
<1>4. h \in Injection(lo .. hi, 0 .. n - 1)
    BY <1>2, <1>3 DEF Injection, IsInjective
<1>5. IsFiniteSet(0 .. n - 1) /\ Cardinality(0 .. n - 1) = n
    <2>1. PICK a \in Int, b \in Int : a = 0 /\ b = n - 1
        OBVIOUS
    <2>2. IsFiniteSet(a .. b) /\ Cardinality(a .. b) = IF a > b THEN 0 ELSE b - a + 1
        BY FS_Interval
    <2> QED BY <2>1, <2>2
<1>6. Cardinality(lo .. hi) = hi - lo + 1
    BY FS_Interval
<1>7. Cardinality(lo .. hi) <= Cardinality(0 .. n - 1)
    BY <1>4, <1>5, FS_Injection
<1> QED BY <1>5, <1>6, <1>7

\* A slot that is free has a section and a table to go with it.
LEMMA RoomLeft ==
    ASSUME IInv, ResourcesOwned, proc_count < SCHEDULER_MAX_TASK_COUNT
    PROVE  ~ (Sections \subseteq sections) /\ ~ (Tables \subseteq tables)
<1> DEFINE n == proc_count
           sec == [i \in 0 .. n - 1 |-> processes[i].section]
           tab == [i \in 0 .. n - 1 |-> processes[i].table]
<1>1. /\ n \in Nat /\ SECTION_COUNT \in Nat /\ TABLE_COUNT \in Nat
      /\ SECTION_COUNT - 5 >= n /\ TABLE_COUNT - 2 >= n
    BY FileTypes, SizesAssumption
<1>2. Owned(processes, n, sections, tables, l1)
    BY OwnedForm
<1>3. ASSUME NEW s \in 5 .. SECTION_COUNT, s \in sections
      PROVE  \E i \in 0 .. n - 1 : sec[i] = s
    BY <1>2, <1>3 DEF Owned, KernelSections
<1>4. ASSUME NEW t \in 2 .. TABLE_COUNT, t \in tables
      PROVE  \E i \in 0 .. n - 1 : tab[i] = t
    BY <1>2, <1>4 DEF Owned, KernelTable
<1> HIDE DEF n, sec, tab
<1>5. PICK a \in Nat, b \in Nat : a = 5 /\ b = 2
    OBVIOUS
<1>6. ~ (a .. SECTION_COUNT \subseteq sections)
    <2>1. Held(sec, n, a, SECTION_COUNT, sections)
        BY <1>3, <1>5 DEF Held
    <2> QED BY <1>1, <1>5, <2>1, PigeonFree
<1>7. ~ (b .. TABLE_COUNT \subseteq tables)
    <2>1. Held(tab, n, b, TABLE_COUNT, tables)
        BY <1>4, <1>5 DEF Held
    <2> QED BY <1>1, <1>5, <2>1, PigeonFree
<1>8. a .. SECTION_COUNT \subseteq Sections /\ b .. TABLE_COUNT \subseteq Tables
    BY <1>5, SizesAssumption DEF Sections, Tables
<1> QED BY <1>6, <1>7, <1>8


\* The switch that ends a trap checks no resource, and neither do the other
\* fatal errors.
LEMMA SwitchFrugal ==
    ASSUME NoResourcePanic, NEW procs, NEW cur, SwitchTask(procs, cur)
    PROVE  NoResourcePanic'
BY DEF SwitchTask, Fatal, NoResourcePanic, ResourcePanics

LEMMA DieFrugal ==
    ASSUME NEW reason, Die(reason), reason \notin ResourcePanics
    PROVE  NoResourcePanic'
BY DEF Die, Fatal, NoResourcePanic

\* A process that has exited holds nothing when its slot is freed.
LEMMA ReapFrugal ==
    ASSUME IInv, ResourcesOwned, NoResourcePanic,
           NEW pid \in 1 .. MaxPid, NEW ref \in 0 .. SECTION_COUNT, WaitReap(pid, ref)
    PROVE  NoResourcePanic'
<1> DEFINE k == FindProc(processes, pid)
<1>1. /\ k \in Indices /\ processes[k].status = "EXITED"
      /\ IF ReapFailure(k) = "none" THEN SwitchTask(processes', current_proc)
         ELSE Fatal(ReapFailure(k))
    BY ReapEffect DEF ReapStep
<1>2. processes[k].section = NULL /\ processes[k].table = NULL
    BY <1>1, OwnedForm DEF Owned, Indices
<1> HIDE DEF k
<1>3. ReapFailure(k) \notin ResourcePanics
    BY <1>2 DEF ReapFailure, ResourcePanics
<1>4. CASE ReapFailure(k) = "none"
    BY <1>1, <1>4, SwitchFrugal
<1>5. CASE ReapFailure(k) # "none"
    BY <1>1, <1>3, <1>5 DEF Fatal, NoResourcePanic
<1> QED BY <1>4, <1>5

\* A descriptor of a process that runs was counted.
LEMMA CloseFrugal ==
    ASSUME IInv, FilesInv, NoResourcePanic, NEW fd \in Fds, Close(fd)
    PROVE  NoResourcePanic'
<1> DEFINE f == Cur.files[fd]
           R == Refs(processes, proc_count, f)
<1>1. /\ cpu = "user" /\ f # NULL /\ proc_count \in Nat
      /\ current_proc \in 0 .. proc_count - 1 /\ Cur \in Process
      /\ Cur.status = "SCHEDULED" /\ processes[current_proc] = Cur
    BY UserState, FileTypes DEF Close, Cur
<1>2. f \in Files
    <2>1. Cur.files \in [Fds -> 0 .. HEAP_CAPACITY]
        BY <1>1 DEF Process
    <2>2. f \in 0 .. HEAP_CAPACITY
        BY <2>1
    <2> QED BY <1>1, <2>2, SizesAssumption DEF Files, NULL
<1>3. <<current_proc, fd>> \in R
    BY <1>1, RefsElement
<1>4. IsFiniteSet(R) /\ Cardinality(R) \in Nat
    BY <1>1, RefsFinite
<1>5. fd_count[f] >= Cardinality(R) /\ fd_count[f] \in Nat
    BY <1>2, CountedForm, FileTypes DEF Counted
<1> HIDE DEF R
<1>6. Cardinality(R) # 0
    BY <1>3, <1>4, FS_EmptySet
<1>7. fd_count[f] # 0
    BY <1>4, <1>5, <1>6
<1>8. CASE fd_count[f] = 1
    <2>1. SwitchTask(processes', current_proc)
        BY <1>7, <1>8 DEF Close, Return
    <2> QED BY <2>1, SwitchFrugal
<1>9. CASE fd_count[f] # 1
    <2>1. Fatal("assert_fd_count_zero")
        BY <1>7, <1>9 DEF Close
    <2> QED BY <2>1 DEF Fatal, NoResourcePanic, ResourcePanics
<1> QED BY <1>8, <1>9

\* No step fails a check of the resources.
LEMMA NextFrugal ==
    IInv /\ ResourceInv /\ FilesInv /\ NoResourcePanic /\ [Next]_vars => NoResourcePanic'
<1> SUFFICES ASSUME IInv, ResourceInv, FilesInv, NoResourcePanic, [Next]_vars
             PROVE  NoResourcePanic'
    OBVIOUS
<1>0. ResourcesOwned
    BY DEF ResourceInv
<1>1. ASSUME NEW status, Trivial(status) PROVE NoResourcePanic'
    BY <1>1, SwitchFrugal DEF Trivial, Return
<1>2. CASE ProcessStep
    <2>1. CASE \/ ForkFull \/ ExecNoFile
               \/ \E pid \in {-1} \cup 1 .. MaxPid : WaitUnknown(pid)
        BY <1>1, <2>1 DEF ForkFull, ExecNoFile, WaitUnknown
    <2>2. CASE Fork
        <3>1. ~ (Sections \subseteq sections) /\ ~ (Tables \subseteq tables)
            BY <1>0, <2>2, RoomLeft DEF Fork
        <3>2. SwitchTask(processes', current_proc)
            BY <2>2, <3>1 DEF Fork, Return
        <3> QED BY <3>2, SwitchFrugal
    <2>3. CASE DataAbort \/ \E status \in ExitStatuses : Exit(status)
        <3>1. PICK status : CurProcExit(status)
            BY <2>3 DEF DataAbort, Exit
        <3>2. \/ Die("init_exited") \/ Die("no_parent")
              \/ \E cur : SwitchTask(processes', cur)
            BY <3>1 DEF CurProcExit
        <3> QED BY <3>2, DieFrugal, SwitchFrugal DEF ResourcePanics
    <2>4. CASE \E pid \in 1 .. MaxPid, ref \in 0 .. SECTION_COUNT :
                  WaitSuspend(pid, ref)
        BY <2>4, SwitchFrugal DEF WaitSuspend, Return
    <2>5. CASE \E pid \in 1 .. MaxPid, ref \in 0 .. SECTION_COUNT :
                  WaitReap(pid, ref)
        BY <1>0, <2>5, ReapFrugal
    <2>6. CASE \E loaded \in BOOLEAN : Exec(loaded)
        <3>1. Die("heap_exhausted") \/ SwitchTask(processes', current_proc)
            BY <2>6 DEF Exec, Return
        <3> QED BY <3>1, DieFrugal, SwitchFrugal DEF ResourcePanics
    <2> QED BY <1>2, <2>1, <2>2, <2>3, <2>4, <2>5, <2>6 DEF ProcessStep
<1>3. CASE FileStep
    <2>1. CASE Open
        <3>1. Die("heap_exhausted") \/ SwitchTask(processes', current_proc)
            BY <2>1 DEF Open, Return
        <3> QED BY <3>1, DieFrugal, SwitchFrugal DEF ResourcePanics
    <2>2. CASE KeyPressed \/ \E fd \in Fds, status \in {-1, 0} : FileCall(fd, status)
        BY <2>2, SwitchFrugal DEF KeyPressed, FileCall, Return
    <2>3. CASE \E fd \in Fds : Close(fd)
        BY <2>3, CloseFrugal
    <2>4. CASE \E fd \in Fds : ReadTty(fd)
        BY <2>4 DEF ReadTty, NoResourcePanic
    <2>5. CASE \/ OpenFails \/ \E fd \in Fds : CloseUnknown(fd)
               \/ \E status \in {-1, 0} : PathCall(status)
        BY <1>1, <2>5 DEF OpenFails, CloseUnknown, PathCall
    <2> QED BY <1>3, <2>1, <2>2, <2>3, <2>4, <2>5 DEF FileStep
<1>4. CASE OtherStep
    <2>1. CASE \/ \E arg \in ExitStatuses : Yield(arg)
               \/ Getpid \/ Getppid \/ InvalidSyscall
        BY <1>1, <2>1 DEF Yield, Getpid, Getppid, InvalidSyscall
    <2>2. CASE \/ SyscallReboot \/ SyscallMount \/ BadPointer \/ ElfFatal
               \/ UnhandledException
        BY <2>2, DieFrugal DEF SyscallReboot, SyscallMount, BadPointer, ElfFatal,
                               UnhandledException, ResourcePanics
    <2>3. CASE TimerIrq
        BY <2>3, SwitchFrugal DEF TimerIrq
    <2>4. CASE \E word \in StoredWords : UserStore(word)
        BY <2>4 DEF UserStore, cpuVars, NoResourcePanic
    <2> QED BY <1>4, <2>1, <2>2, <2>3, <2>4 DEF OtherStep
<1>5. CASE SchedulerStart
    BY <1>5, SwitchFrugal DEF SchedulerStart
<1>6. CASE BootFails \/ Reboot \/ UNCHANGED vars
    BY <1>6 DEF BootFails, Fatal, Reboot, vars, cpuVars, NoResourcePanic, ResourcePanics
<1> QED BY <1>2, <1>3, <1>4, <1>5, <1>6 DEF Next

\* Whatever the programs do, the kernel never stops for want of a section or a
\* table for a slot that is free, never frees the slot of a process that still
\* holds one, and never finds a descriptor's count at zero: MAX_TASK_COUNT,
\* and neither of the allocators, is the limit that fork meets.
THEOREM ResourcesNeverPanic == Spec => []NoResourcePanic
<1>1. Init => NoResourcePanic
    BY DEF Init, NoResourcePanic, ResourcePanics
<1>2. IInv /\ ResourceInv /\ FilesInv /\ NoResourcePanic /\ [Next]_vars => NoResourcePanic'
    BY NextFrugal
<1> QED BY <1>1, <1>2, Invariance, Ownership, FilesCounted, PTL DEF Spec


-----------------------------------------------------------------------------
(* The delivery of exit statuses                                           *)

\* WaitDelivers, said of one step: what becomes of the waiting process i ...
KeepsWaiting(i) ==
    \E j \in 0 .. proc_count' - 1 :
        /\ processes'[j].id = processes[i].id
        /\ \/ processes'[j] = [processes[i] EXCEPT !.parent_id = processes'[j].parent_id]
           \/ /\ last_exit'.pid = processes[i].wait_pid
              /\ processes'[j].status = "SCHEDULED"
              /\ processes'[j].r0 = processes[i].wait_pid
              /\ mem'[processes[i].wstatus_ref] = last_exit'.status

\* ... and of the process i that has exited and leaves the table.
Collected(i) ==
    /\ processes[i].parent_id = Cur.id
    /\ \E j \in 0 .. proc_count' - 1 :
          processes'[j].id = Cur.id /\ processes'[j].r0 = processes[i].id

DeliverStep ==
    cpu' = "boot" \/ \A i \in Indices :
        /\ processes[i].status = "SUSPENDED" => KeepsWaiting(i)
        /\ processes[i].status = "EXITED" /\ processes[i].id \notin Ids(processes')
              => Collected(i)

\* A trap is taken while the machine runs; otherwise it boots or reboots.
LEMMA StepsRun ==
    ASSUME Next
    PROVE  Running \/ SchedulerStart \/ BootFails \/ Reboot
<1>1. CASE ProcessStep
    BY <1>1 DEF ProcessStep, ForkFull, Fork, Exit, DataAbort, CurProcExit,
                WaitUnknown, WaitSuspend, WaitReap, ExecNoFile, Exec, Trivial, Running
<1>2. CASE FileStep
    BY <1>2 DEF FileStep, Open, OpenFails, KeyPressed, Close, CloseUnknown, ReadTty,
                FileCall, PathCall, Trivial, Running
<1>3. CASE OtherStep
    BY <1>3 DEF OtherStep, Yield, Getpid, Getppid, InvalidSyscall, SyscallReboot,
                SyscallMount, BadPointer, ElfFatal, UnhandledException, TimerIrq,
                UserStore, Trivial, Die, Running
<1> QED BY <1>1, <1>2, <1>3 DEF Next

\* A record of the next table has its pid there.
LEMMA NextIds ==
    ASSUME IInv', NEW j \in 0 .. proc_count' - 1
    PROVE  processes'[j].id \in Ids(processes')
<1>1. DOMAIN processes' = 0 .. proc_count' - 1
    BY DEF IInv, TypeOK, Indices
<1> QED BY <1>1 DEF Ids

\* The slot that process i has after the memmove of _remove_process.
LEMMA NewSlot ==
    ASSUME NEW n \in Nat, NEW k \in 0 .. n - 1, NEW i \in 0 .. n - 1, i # k
    PROVE  \E j \in 0 .. n - 2 : OldIndex(k, j) = i
<1>1. CASE i < k
    <2>1. i \in 0 .. n - 2 /\ OldIndex(k, i) = i BY <1>1 DEF OldIndex
    <2> QED BY <2>1
<1>2. CASE i > k
    <2>1. i - 1 \in 0 .. n - 2 /\ OldIndex(k, i - 1) = i BY <1>2 DEF OldIndex
    <2> QED BY <2>1
<1> QED BY <1>1, <1>2

\* Under ChildWaitOnly the caller of WAITPID is older than the child it reaps,
\* so that the checks after the removal pass.
LEMMA ReapSucceeds ==
    ASSUME ChildWaitOnly, IInv, ResourcesOwned, NEW k, NEW ref, ReapStep(k, ref)
    PROVE  /\ ReapFailure(k) = "none" /\ current_proc < k
           /\ processes[k].parent_id = Cur.id
<1> DEFINE after == WithoutIndex(processes, k)
           n == proc_count
<1>1. /\ n \in Nat /\ processes \in [0 .. n - 1 -> Process] /\ Running
      /\ current_proc \in 0 .. n - 1 /\ current_proc \in Nat
      /\ k \in 0 .. n - 1 /\ processes[k].status = "EXITED"
    BY UserState DEF ReapStep, Indices
<1>2. processes[k].parent_id = Cur.id
    BY <1>1 DEF ReapStep, MayWait, Indices
<1>3. current_proc < k
    <2>1. TableFacts(processes, n, id_gen)
        BY <1>1, FactsOfInv
    <2> QED BY <1>1, <1>2, <2>1, ChildAbove DEF Cur
<1>4. /\ after \in [0 .. (n - 1) - 1 -> Process]
      /\ \A i \in 0 .. (n - 1) - 1 :
            after[i] = processes[IF i < k THEN i ELSE i + 1]
    BY <1>1, RemoveResult
<1>5. current_proc \in DOMAIN after /\ after[current_proc].id = Cur.id
    <2> HIDE DEF after
    <2>1. current_proc \in 0 .. (n - 1) - 1
        BY <1>1, <1>3
    <2> QED BY <1>3, <1>4, <2>1 DEF Cur
<1>6. IndexAfterRemove(k) = current_proc
    BY <1>1, <1>3 DEF IndexAfterRemove
<1>7. processes[k].section = NULL /\ processes[k].table = NULL
    BY <1>1, OwnedForm DEF Owned
<1>8. ReapFailure(k) = "none"
    BY <1>5, <1>6, <1>7 DEF ReapFailure
<1> QED BY <1>2, <1>3, <1>8

\* What happens to process i when the current process exits.
LEMMA ExitDelivers ==
    ASSUME IInv, IInv', NEW status \in Int, ExitStep(status), NEW i \in Indices
    PROVE  /\ processes[i].status = "SUSPENDED" => KeepsWaiting(i)
           /\ processes[i].status = "EXITED" => processes[i].id \in Ids(processes')
<1> DEFINE n == proc_count
<1>1. /\ n \in Nat /\ processes \in [0 .. n - 1 -> Process]
      /\ current_proc \in 0 .. n - 1 /\ Indices = 0 .. n - 1
      /\ Cur.status = "SCHEDULED" /\ processes[current_proc] = Cur
      /\ mem \in [0 .. SECTION_COUNT -> Int]
    BY UserState DEF ExitStep, Indices, Cur, IInv, TypeOK
<1>2. ASSUME i # current_proc
      PROVE  \E j \in 0 .. proc_count' - 1 : ExitImage(processes'[j], i, status)
    <2>1. CASE /\ proc_count' = n
               /\ \A x \in Indices : ExitImage(processes'[x], x, status)
        BY <1>1, <2>1
    <2>2. CASE /\ proc_count' = n - 1
               /\ \A j \in 0 .. n - 2 :
                     ExitImage(processes'[j], OldIndex(current_proc, j), status)
        <3>1. PICK j \in 0 .. n - 2 : OldIndex(current_proc, j) = i
            BY <1>1, <1>2, NewSlot
        <3>2. j \in 0 .. proc_count' - 1
            BY <1>1, <2>2
        <3> QED BY <2>2, <3>1, <3>2
    <2> QED BY <2>1, <2>2 DEF ExitStep
<1>3. CASE processes[i].status = "EXITED"
    <2>1. PICK j \in 0 .. proc_count' - 1 : processes'[j].id = processes[i].id
        BY <1>1, <1>2, <1>3 DEF ExitImage
    <2>2. processes[i].id \in Ids(processes')
        BY <2>1, NextIds
    <2> QED BY <1>3, <2>2
<1>4. CASE processes[i].status = "SUSPENDED"
    <2>1. PICK j \in 0 .. proc_count' - 1 : ExitImage(processes'[j], i, status)
        BY <1>1, <1>2, <1>4
    <2>2. i # current_proc
        BY <1>1, <1>4
    <2>3. CASE ~ Awaits(processes, current_proc, i)
        <3>1. /\ processes'[j].id = processes[i].id
              /\ processes'[j] = [processes[i] EXCEPT !.parent_id = processes'[j].parent_id]
            BY <2>1, <2>2, <2>3 DEF ExitImage
        <3> QED BY <1>4, <3>1 DEF KeepsWaiting
    <2>4. CASE Awaits(processes, current_proc, i)
        <3>1. /\ processes'[j].id = processes[i].id
              /\ processes'[j].status = "SCHEDULED" /\ processes'[j].r0 = Cur.id
            BY <2>1, <2>2, <2>4 DEF ExitImage
        <3>2. processes[i].wait_pid = Cur.id
            BY <1>1, <2>4 DEF Awaits
        <3>3. last_exit'.pid = Cur.id /\ last_exit'.status = status
            BY DEF ExitStep
        <3>4. PICK p \in Indices : /\ Awaits(processes, current_proc, p)
                                   /\ mem' = [mem EXCEPT ![processes[p].wstatus_ref] = status]
            BY <2>4 DEF ExitStep
        <3>5. p = i
            <4>1. processes[p].id = processes[i].id
                BY <2>4, <3>4 DEF Awaits
            <4>2. \A a, b \in Indices : a < b => processes[a].id < processes[b].id
                BY DEF IInv, TableInv, TableSorted
            <4>3. processes[i].id \in Nat /\ p \in Int /\ i \in Int
                BY <1>1 DEF Process
            <4> QED BY <4>1, <4>2, <4>3
        <3>6. processes[i].wstatus_ref \in 0 .. SECTION_COUNT
            BY <1>1 DEF Process
        <3>7. mem'[processes[i].wstatus_ref] = status
            BY <1>1, <3>4, <3>5, <3>6
        <3> QED BY <1>4, <3>1, <3>2, <3>3, <3>7 DEF KeepsWaiting
    <2> QED BY <1>4, <2>3, <2>4
<1> QED BY <1>3, <1>4

\* Every step delivers.
LEMMA StepDelivers ==
    ChildWaitOnly /\ IInv /\ IInv' /\ ResourceInv /\ Next => DeliverStep
<1> SUFFICES ASSUME ChildWaitOnly, IInv, IInv', ResourceInv, Next, cpu' # "boot",
                    NEW i \in Indices
             PROVE  /\ processes[i].status = "SUSPENDED" => KeepsWaiting(i)
                    /\ processes[i].status = "EXITED"
                         /\ processes[i].id \notin Ids(processes') => Collected(i)
    BY DEF DeliverStep
<1>1. /\ proc_count \in Nat /\ processes \in [0 .. proc_count - 1 -> Process]
      /\ Indices = 0 .. proc_count - 1 /\ processes[i] \in Process
    BY FileTypes DEF IInv, TypeOK, Indices
<1>2. /\ ResourcesOwned /\ cpu # "boot" /\ Running
      /\ current_proc \in Indices /\ Cur.status = "SCHEDULED"
    <2>1. cpu # "boot"
        BY <1>1 DEF IInv, BootState
    <2>2. Running
        BY <2>1, StepsRun DEF SchedulerStart, BootFails, Reboot
    <2> QED BY <2>1, <2>2 DEF ResourceInv, IInv, CurrentIsScheduled
<1>3. ASSUME NEW j \in 0 .. proc_count' - 1, processes'[j] = processes[i]
      PROVE  /\ processes[i].status = "SUSPENDED" => KeepsWaiting(i)
             /\ processes[i].id \in Ids(processes')
    <2>1. processes'[j] = [processes[i] EXCEPT !.parent_id = processes'[j].parent_id]
        BY <1>1, <1>3, SameParent
    <2>2. processes[i].id \in Ids(processes')
        BY <1>3, NextIds
    <2> QED BY <1>3, <2>1, <2>2 DEF KeepsWaiting
<1>4. ASSUME processes[i].status # "SCHEDULED" PROVE i # current_proc
    BY <1>2, <1>4 DEF Cur
<1>5. CASE SchedulerStart \/ Reboot
    BY <1>2, <1>5 DEF SchedulerStart, Reboot
<1>6. CASE Kept \/ \E pid \in 1 .. MaxPid, ref \in 0 .. SECTION_COUNT : SuspendStep(pid, ref)
    <2>1. proc_count' = proc_count /\ (i # current_proc => processes'[i] = processes[i])
        BY <1>6 DEF Kept, SuspendStep
    <2> QED BY <1>1, <1>3, <1>4, <2>1
<1>7. CASE ForkStep
    <2>1. proc_count' = proc_count + 1 /\ (i # current_proc => processes'[i] = processes[i])
        BY <1>7 DEF ForkStep
    <2>2. i \in 0 .. proc_count' - 1
        BY <1>1, <2>1
    <2> QED BY <1>3, <1>4, <2>1, <2>2
<1>8. ASSUME NEW k \in Indices, NEW ref \in 0 .. SECTION_COUNT, ReapStep(k, ref)
      PROVE  /\ processes[i].status = "SUSPENDED" => KeepsWaiting(i)
             /\ processes[i].status = "EXITED"
                  /\ processes[i].id \notin Ids(processes') => Collected(i)
    <2>1. /\ ReapFailure(k) = "none" /\ current_proc < k
          /\ processes[k].parent_id = Cur.id
        BY <1>2, <1>8, ReapSucceeds
    <2>2. /\ proc_count' = proc_count - 1 /\ processes[k].status = "EXITED"
          /\ \A j \in 0 .. proc_count - 2 :
                /\ SameProc(processes'[j], processes[OldIndex(k, j)])
                /\ j # current_proc => processes'[j] = processes[OldIndex(k, j)]
          /\ current_proc \in 0 .. proc_count - 2
          /\ OldIndex(k, current_proc) = current_proc
          /\ processes'[current_proc].r0 = processes[k].id
        BY <1>8, <2>1 DEF ReapStep
    <2>3. 0 .. proc_count' - 1 = 0 .. proc_count - 2
        BY <1>1, <2>2
    <2>4. CASE i = k
        <3>1. processes'[current_proc].id = Cur.id
            BY <2>2 DEF SameProc, Cur
        <3> QED BY <2>1, <2>2, <2>3, <2>4, <3>1 DEF Collected
    <2>5. CASE i # k /\ i # current_proc
        <3>1. PICK j \in 0 .. proc_count - 2 : OldIndex(k, j) = i
            BY <1>1, <2>5, NewSlot
        <3>2. processes'[j] = processes[i]
            BY <2>2, <2>5, <3>1
        <3> QED BY <1>3, <2>3, <3>1, <3>2
    <2> QED BY <1>4, <2>4, <2>5, <2>2
<1>9. CASE \E status \in Int : ExitStep(status)
    BY <1>9, ExitDelivers
<1> QED BY <1>5, <1>6, <1>7, <1>8, <1>9, StepEffects

\* When programs wait only for their children, no exit status is lost: a
\* waiting process goes on exactly when the child it waits for exits, with the
\* child's pid and its status, and a zombie leaves the table only when its
\* parent collects it.
THEOREM StatusesDelivered == ASSUME ChildWaitOnly PROVE Spec => WaitDelivers
<1>1. IInv /\ IInv' /\ ResourceInv /\ [Next]_vars => [DeliverStep]_vars
    BY StepDelivers
<1>2. Spec => [][DeliverStep]_vars
    BY <1>1, Invariance, Ownership, PTL DEF Spec
<1> QED BY <1>2 DEF WaitDelivers, DeliverStep, KeepsWaiting, Collected

-----------------------------------------------------------------------------
(* What the mapping needs beyond the invariants of the scheduler           *)

\* Init is in the table once a pid was given, and only a suspended process has
\* an awaited pid: wait_pid is left at 0 by every other status, so a parent
\* that no longer waits is not taken for one that does.
MapInv ==
    /\ id_gen > 0 => proc_count > 0
    /\ \A i \in Indices : processes[i].status # "SUSPENDED" => processes[i].wait_pid = 0

\* Every step keeps them.
LEMMA NextMap == IInv /\ MapInv /\ [Next]_vars => MapInv'
<1> SUFFICES ASSUME IInv, MapInv, [Next]_vars PROVE MapInv'
    OBVIOUS
<1> DEFINE n == proc_count
<1>1. n \in Nat /\ Indices = 0 .. n - 1 /\ Indices' = 0 .. proc_count' - 1
    BY FileTypes DEF Indices
<1>2. ASSUME cpu = "user"
      PROVE  /\ current_proc \in 0 .. n - 1 /\ processes[current_proc] = Cur
             /\ Cur.status = "SCHEDULED" /\ Cur.wait_pid = 0
    BY <1>1, <1>2, UserState DEF MapInv, Cur
<1>3. CASE SchedulerStart
    BY <1>3 DEF SchedulerStart, MapInv, Indices
<1>4. CASE Reboot
    BY <1>4 DEF Reboot, MapInv, Indices
<1>5. CASE Kept
    BY <1>1, <1>5 DEF Kept, SameProc, MapInv
<1>6. CASE ForkStep
    <2>1. \A i \in 0 .. n : i \in 0 .. n - 1 \/ i = n
        BY <1>1
    <2>2. proc_count' = n + 1 /\ 0 .. (n + 1) - 1 = 0 .. n /\ cpu = "user"
        BY <1>1, <1>6 DEF ForkStep
    <2> QED BY <1>1, <1>2, <1>6, <2>1, <2>2 DEF ForkStep, SameProc, MapInv
<1>7. CASE \E pid \in 1 .. MaxPid, ref \in 0 .. SECTION_COUNT : SuspendStep(pid, ref)
    BY <1>1, <1>7 DEF SuspendStep, MapInv
<1>8. ASSUME NEW k \in Indices, NEW ref \in 0 .. SECTION_COUNT, ReapStep(k, ref)
      PROVE  MapInv'
    <2>1. /\ cpu = "user" /\ k # current_proc /\ proc_count' = n - 1
          /\ id_gen' = id_gen
          /\ \A j \in 0 .. n - 2 : SameProc(processes'[j], processes[OldIndex(k, j)])
        BY <1>8 DEF ReapStep
    <2>2. proc_count' > 0 /\ 0 .. proc_count' - 1 = 0 .. n - 2
        BY <1>1, <1>2, <2>1
    <2>3. \A j \in 0 .. n - 2 : OldIndex(k, j) \in 0 .. n - 1
        BY <1>1, OldIndexRange
    <2> QED BY <1>1, <2>1, <2>2, <2>3 DEF SameProc, MapInv
<1>9. ASSUME NEW status \in Int, ExitStep(status) PROVE MapInv'
    <2>1. cpu = "user" /\ id_gen' = id_gen
        BY <1>9 DEF ExitStep
    <2>2. ASSUME NEW q, NEW i \in Indices, ExitImage(q, i, status),
                 q.status # "SUSPENDED"
          PROVE  q.wait_pid = 0
        <3>1. CASE i = current_proc
            BY <1>2, <2>1, <2>2, <3>1 DEF ExitImage
        <3>2. CASE i # current_proc /\ Awaits(processes, current_proc, i)
            BY <2>2, <3>2 DEF ExitImage
        <3>3. CASE i # current_proc /\ ~ Awaits(processes, current_proc, i)
            <4>1. PICK c \in Process, e \in {q.parent_id} : c = processes[i] /\ e = q.parent_id
                BY DEF IInv, TypeOK
            <4>2. q = [c EXCEPT !.parent_id = e]
                BY <2>2, <3>3, <4>1 DEF ExitImage
            <4>3. q.status = c.status /\ q.wait_pid = c.wait_pid
                BY <4>2 DEF Process
            <4> QED BY <2>2, <4>1, <4>3 DEF MapInv
        <3> QED BY <3>1, <3>2, <3>3
    <2>3. CASE /\ proc_count' = n
               /\ \A i \in Indices : ExitImage(processes'[i], i, status)
        BY <1>1, <2>1, <2>2, <2>3 DEF MapInv
    <2>4. CASE /\ \E p \in Indices \ {current_proc} : TRUE
               /\ proc_count' = n - 1
               /\ \A j \in 0 .. n - 2 :
                     ExitImage(processes'[j], OldIndex(current_proc, j), status)
        <3>1. proc_count' > 0 /\ 0 .. proc_count' - 1 = 0 .. n - 2
            BY <1>1, <1>2, <2>1, <2>4
        <3>2. \A j \in 0 .. n - 2 : OldIndex(current_proc, j) \in Indices
            BY <1>1, <1>2, <2>1, OldIndexRange
        <3> QED BY <1>1, <2>1, <2>2, <2>4, <3>1, <3>2 DEF MapInv
    <2> QED BY <1>9, <2>3, <2>4 DEF ExitStep
<1> QED BY <1>3, <1>4, <1>5, <1>6, <1>7, <1>8, <1>9, StepEffects

\* They hold in every reachable state.
THEOREM Mappable == Spec => []MapInv
<1>1. Init => MapInv
    BY DEF Init, MapInv, Indices
<1> QED BY <1>1, NextMap, Invariance, PTL DEF Spec

-----------------------------------------------------------------------------
(* The lifecycle that a table shows                                        *)

\* The lifecycle state of a status.
Phase(status) == CASE status = "SCHEDULED" -> "ready"
                   [] status = "SUSPENDED" -> "waiting"
                   [] status = "EXITED"    -> "zombie"

\* The table procs[0 .. n-1], when g is the last pid given, shows the lifecycle
\* st, pa, aw.
Shown(procs, n, g, st, pa, aw) ==
    /\ DOMAIN st = 1 .. MaxPid /\ DOMAIN pa = 1 .. MaxPid /\ DOMAIN aw = 1 .. MaxPid
    /\ st = [x \in DOMAIN st |-> st[x]] /\ pa = [x \in DOMAIN pa |-> pa[x]]
    /\ aw = [x \in DOMAIN aw |-> aw[x]]
    /\ \A i \in 0 .. n - 1 : /\ procs[i].id \in 1 .. MaxPid
                             /\ st[procs[i].id] = Phase(procs[i].status)
                             /\ pa[procs[i].id] = procs[i].parent_id
                             /\ aw[procs[i].id] = procs[i].wait_pid
    /\ \A pid \in 1 .. MaxPid : (\A i \in 0 .. n - 1 : procs[i].id # pid) =>
          /\ st[pid] = IF pid > g THEN "unborn" ELSE "reaped"
          /\ pa[pid] = 0 /\ aw[pid] = 0

St == [pid \in 1 .. MaxPid |-> LifecycleState(pid)]
Pa == [pid \in 1 .. MaxPid |->
          IF InTable(pid) THEN processes[Slot(pid)].parent_id ELSE 0]
Aw == [pid \in 1 .. MaxPid |->
          IF InTable(pid) THEN processes[Slot(pid)].wait_pid ELSE 0]

\* The pids of the table lie between 1 and the last pid given.
LEMMA IdsRange ==
    ASSUME IInv, NEW i \in Indices
    PROVE  processes[i].id \in 1 .. id_gen /\ processes[i].id \in 1 .. MaxPid
<1>1. /\ proc_count \in Nat /\ processes[i].id \in Nat /\ id_gen \in 0 .. MaxPid
      /\ i \in 0 .. proc_count - 1
    BY FileTypes DEF IInv, TypeOK, Indices, Process
<1>2. 0 \in Indices /\ processes[0].id = 1 /\ processes[i].id <= id_gen
    BY <1>1 DEF IInv, TableInv, TableSorted, Indices, INIT_PROC_ID
<1>3. 0 < i => processes[0].id < processes[i].id
    BY <1>2 DEF IInv, TableInv, TableSorted
<1> QED BY <1>1, <1>2, <1>3, SizesAssumption

\* A pid has one slot.
LEMMA OneSlot ==
    ASSUME IInv, NEW i \in Indices, NEW j \in Indices, processes[i].id = processes[j].id
    PROVE  i = j
<1>1. i \in Int /\ j \in Int /\ processes[i].id \in Nat /\ processes[j].id \in Nat
    BY DEF IInv, TypeOK, Indices, Process
<1>2. (i < j => processes[i].id < processes[j].id)
      /\ (j < i => processes[j].id < processes[i].id)
    BY DEF IInv, TableInv, TableSorted
<1> QED BY <1>1, <1>2

\* The mapping shows the table, now ...
LEMMA MappingShown ==
    IInv => Shown(processes, proc_count, id_gen, St, Pa, Aw)
<1> SUFFICES ASSUME IInv PROVE Shown(processes, proc_count, id_gen, St, Pa, Aw)
    OBVIOUS
<1> DEFINE n == proc_count
<1>1. /\ n \in Nat /\ processes \in [0 .. n - 1 -> Process]
      /\ Indices = 0 .. n - 1 /\ DOMAIN processes = 0 .. n - 1
    BY FileTypes DEF IInv, TypeOK, Indices
<1>2. ASSUME NEW i \in 0 .. n - 1
      PROVE  LET pid == processes[i].id IN
             /\ pid \in 1 .. MaxPid
             /\ St[pid] = Phase(processes[i].status)
             /\ Pa[pid] = processes[i].parent_id /\ Aw[pid] = processes[i].wait_pid
    <2> DEFINE pid == processes[i].id
    <2>1. pid \in 1 .. MaxPid
        BY <1>1, IdsRange
    <2>2. InTable(pid)
        BY <1>1 DEF InTable, Ids
    <2>3. Slot(pid) \in 0 .. n - 1 /\ processes[Slot(pid)].id = pid
        BY <1>1, <2>2, FindProcIn DEF Slot, InTable
    <2>4. Slot(pid) = i
        BY <1>1, <2>3, OneSlot
    <2> HIDE DEF pid
    <2>5. LifecycleState(pid) = Phase(processes[i].status)
        BY <2>2, <2>4 DEF LifecycleState, Phase
    <2> QED BY <2>1, <2>2, <2>4, <2>5 DEF St, Pa, Aw, pid
<1>3. ASSUME NEW pid \in 1 .. MaxPid, \A i \in 0 .. n - 1 : processes[i].id # pid
      PROVE  /\ St[pid] = IF pid > id_gen THEN "unborn" ELSE "reaped"
             /\ Pa[pid] = 0 /\ Aw[pid] = 0
    <2>1. ~ InTable(pid)
        BY <1>1, <1>3 DEF InTable, Ids
    <2> QED BY <2>1 DEF St, Pa, Aw, LifecycleState
<1>4. /\ DOMAIN St = 1 .. MaxPid /\ DOMAIN Pa = 1 .. MaxPid /\ DOMAIN Aw = 1 .. MaxPid
      /\ St = [x \in DOMAIN St |-> St[x]] /\ Pa = [x \in DOMAIN Pa |-> Pa[x]]
      /\ Aw = [x \in DOMAIN Aw |-> Aw[x]]
    BY DEF St, Pa, Aw
<1> QED BY <1>2, <1>3, <1>4 DEF Shown

\* ... and in the next state.
LEMMA MappingShownNext ==
    IInv' => Shown(processes', proc_count', id_gen', St', Pa', Aw')
<1>1. (IInv => Shown(processes, proc_count, id_gen, St, Pa, Aw))'
    BY MappingShown, PTL
<1> QED BY <1>1

-----------------------------------------------------------------------------
(* Somebody is ready                                                       *)

\* A table with init in it satisfies the facts, whether or not the machine runs.
LEMMA FactsOfTable ==
    ASSUME IInv, proc_count > 0
    PROVE  TableFacts(processes, proc_count, id_gen)
BY DEF IInv, TableInv, TableSorted, ParentAlive, WaitsOnLiveChild, TableFacts,
       Indices, Live, INIT_PROC_ID

\* Some process is ready once init exists.
LEMMA StateNoDeadlock ==
    ASSUME ChildWaitOnly, IInv, MapInv
    PROVE  NoDeadlock
<1> SUFFICES ASSUME St[1] # "unborn" PROVE \E p \in 1 .. MaxPid : St[p] = "ready"
    BY DEF NoDeadlock, Lifecycle!NoDeadlock, Lifecycle!Pids, Lifecycle!InitPid, St
<1>1. /\ proc_count \in Nat /\ processes \in [0 .. proc_count - 1 -> Process]
      /\ id_gen \in Nat /\ 1 \in 1 .. MaxPid
    BY FileTypes, SizesAssumption DEF IInv, TypeOK, Indices
<1>2. Shown(processes, proc_count, id_gen, St, Pa, Aw)
    BY MappingShown
<1>3. proc_count > 0
    <2>1. CASE id_gen > 0
        BY <2>1 DEF MapInv
    <2>2. CASE id_gen = 0
        BY <1>1, <1>2, <2>2 DEF Shown
    <2> QED BY <1>1, <2>1, <2>2
<1>4. Scheduled(processes) # {}
    BY <1>1, <1>3, FactsOfTable, SomeoneScheduled
<1>5. PICK i \in 0 .. proc_count - 1 : processes[i].status = "SCHEDULED"
    BY <1>1, <1>4 DEF Scheduled
<1>6. processes[i].id \in 1 .. MaxPid /\ St[processes[i].id] = "ready"
    BY <1>2, <1>5 DEF Shown, Phase
<1> QED BY <1>6

\* When programs wait only for their children, the processes never all wait
\* for one another: as long as init exists one of them can run.
THEOREM NeverAllWaiting == ASSUME ChildWaitOnly PROVE Spec => []NoDeadlock
<1>1. IInv /\ MapInv => NoDeadlock
    BY StateNoDeadlock
<1> QED BY <1>1, Invariance, Mappable, PTL


-----------------------------------------------------------------------------
(* Each trap is a lifecycle step                                           *)

\* Two functions that agree but at one point.
LEMMA Updated ==
    ASSUME NEW D, NEW f, NEW g, NEW c \in D, NEW v,
           DOMAIN f = D, DOMAIN g = D, f = [x \in DOMAIN f |-> f[x]],
           g = [x \in DOMAIN g |-> g[x]],
           \A x \in D : g[x] = IF x = c THEN v ELSE f[x]
    PROVE  g = [f EXCEPT ![c] = v]
OBVIOUS

\* Two functions that agree.
LEMMA Equal ==
    ASSUME NEW D, NEW f, NEW g, DOMAIN f = D, DOMAIN g = D,
           f = [x \in DOMAIN f |-> f[x]], g = [x \in DOMAIN g |-> g[x]],
           \A x \in D : g[x] = f[x]
    PROVE  g = f
OBVIOUS

\* The two tables of a step with their lifecycles, in the form the proofs use.
LEMMA BothShown ==
    ASSUME IInv, IInv'
    PROVE  /\ Shown(processes, proc_count, id_gen, St, Pa, Aw)
           /\ Shown(processes', proc_count', id_gen', St', Pa', Aw')
           /\ DOMAIN St = 1 .. MaxPid /\ DOMAIN Pa = 1 .. MaxPid /\ DOMAIN Aw = 1 .. MaxPid
           /\ DOMAIN St' = 1 .. MaxPid /\ DOMAIN Pa' = 1 .. MaxPid
           /\ DOMAIN Aw' = 1 .. MaxPid
           /\ St = [x \in DOMAIN St |-> St[x]] /\ Pa = [x \in DOMAIN Pa |-> Pa[x]]
           /\ Aw = [x \in DOMAIN Aw |-> Aw[x]]
           /\ St' = [x \in DOMAIN St' |-> St'[x]] /\ Pa' = [x \in DOMAIN Pa' |-> Pa'[x]]
           /\ Aw' = [x \in DOMAIN Aw' |-> Aw'[x]]
BY MappingShown, MappingShownNext DEF Shown

\* What is known of the table in user mode.
LEMMA UserTable ==
    ASSUME IInv, MapInv, cpu = "user"
    PROVE  /\ proc_count \in Nat /\ id_gen \in Nat /\ Indices = 0 .. proc_count - 1
           /\ processes \in [0 .. proc_count - 1 -> Process]
           /\ current_proc \in 0 .. proc_count - 1 /\ processes[current_proc] = Cur
           /\ Cur \in Process /\ Cur.status = "SCHEDULED" /\ Cur.wait_pid = 0
           /\ Cur.id \in 1 .. MaxPid /\ Cur.id \in Nat
           /\ St[Cur.id] = "ready" /\ Pa[Cur.id] = Cur.parent_id /\ Aw[Cur.id] = 0
<1>1. /\ proc_count \in Nat /\ id_gen \in Nat /\ Indices = 0 .. proc_count - 1
      /\ processes \in [0 .. proc_count - 1 -> Process]
      /\ current_proc \in 0 .. proc_count - 1 /\ processes[current_proc] = Cur
      /\ Cur \in Process /\ Cur.status = "SCHEDULED"
    BY UserState DEF IInv, TypeOK, Indices, Cur
<1>2. Cur.wait_pid = 0 /\ Cur.id \in 1 .. MaxPid
    BY <1>1, IdsRange DEF MapInv
<1>3. St[Cur.id] = "ready" /\ Pa[Cur.id] = Cur.parent_id /\ Aw[Cur.id] = Cur.wait_pid
    BY <1>1, MappingShown DEF Shown, Phase
<1> QED BY <1>1, <1>2, <1>3 DEF Process

\* A step that keeps the slots and the four fields shows nothing.
LEMMA KeptShows ==
    ASSUME IInv, IInv', Kept
    PROVE  St' = St /\ Pa' = Pa /\ Aw' = Aw
<1> DEFINE n == proc_count
<1>1. n \in Nat /\ Indices = 0 .. n - 1
    BY FileTypes DEF Indices
<1>2. /\ proc_count' = n /\ id_gen' = id_gen
      /\ \A i \in 0 .. n - 1 : SameProc(processes'[i], processes[i])
    BY <1>1 DEF Kept
<1>3. ASSUME NEW x \in 1 .. MaxPid
      PROVE  St'[x] = St[x] /\ Pa'[x] = Pa[x] /\ Aw'[x] = Aw[x]
    <2>1. CASE \E i \in 0 .. n - 1 : processes[i].id = x
        BY <1>2, <2>1, BothShown DEF Shown, SameProc
    <2>2. CASE \A i \in 0 .. n - 1 : processes[i].id # x
        BY <1>2, <2>2, BothShown DEF Shown, SameProc
    <2> QED BY <2>1, <2>2
<1> HIDE DEF n
<1>4. PICK D : D = 1 .. MaxPid
    OBVIOUS
<1>5. St' = St
    BY <1>3, <1>4, BothShown, Equal, ZenonT(30)
<1>6. Pa' = Pa
    BY <1>3, <1>4, BothShown, Equal, ZenonT(30)
<1>7. Aw' = Aw
    BY <1>3, <1>4, BothShown, Equal, ZenonT(30)
<1> QED BY <1>5, <1>6, <1>7

\* The processes that are present fit the slots.
LEMMA PresentFits ==
    ASSUME IInv
    PROVE  Cardinality(Lifecycle!Present) <= proc_count
           /\ Cardinality(Lifecycle!Present) \in Nat
<1> DEFINE n == proc_count
           P == Lifecycle!Present
           h == [x \in P |-> CHOOSE i \in 0 .. n - 1 : processes[i].id = x]
<1>1. n \in Nat
    BY FileTypes
<1>2. ASSUME NEW x \in P PROVE \E i \in 0 .. n - 1 : processes[i].id = x
    <2>1. x \in 1 .. MaxPid /\ St[x] \notin {"unborn", "reaped"}
        BY DEF Lifecycle!Present, Lifecycle!Pids, St
    <2> QED BY <2>1, MappingShown DEF Shown
<1>3. \A x \in P : h[x] \in 0 .. n - 1 /\ processes[h[x]].id = x
    BY <1>2
<1>4. h \in [P -> 0 .. n - 1]
    BY <1>3
<1>5. IsFiniteSet(0 .. n - 1) /\ Cardinality(0 .. n - 1) = n
    <2>1. PICK a \in Int, b \in Int : a = 0 /\ b = n - 1
        BY <1>1
    <2>2. IsFiniteSet(a .. b) /\ Cardinality(a .. b) = IF a > b THEN 0 ELSE b - a + 1
        BY FS_Interval
    <2> QED BY <1>1, <2>1, <2>2
<1> HIDE DEF h, P
<1>6. h \in Injection(P, 0 .. n - 1)
    BY <1>3, <1>4 DEF Injection, IsInjective
<1>7. IsFiniteSet(P) /\ Cardinality(P) <= Cardinality(0 .. n - 1)
    BY <1>5, <1>6, FS_Injection
<1>8. Cardinality(P) \in Nat
    BY <1>7, FS_CardinalityType
<1> QED BY <1>5, <1>7, <1>8 DEF P

\* FORK is the lifecycle's Fork.
LEMMA ForkShows ==
    ASSUME IInv, IInv', MapInv, ForkStep
    PROVE  \E p, c \in 1 .. MaxPid : Lifecycle!Fork(p, c)
<1> DEFINE n == proc_count
           c == id_gen + 1
<1>1. /\ n \in Nat /\ id_gen \in Nat /\ Indices = 0 .. n - 1
      /\ Cur.id \in 1 .. MaxPid /\ St[Cur.id] = "ready" /\ Cur.wait_pid = 0
    BY UserTable DEF ForkStep
<1>2. /\ proc_count' = n + 1 /\ id_gen' = c /\ c \in 1 .. MaxPid
      /\ n < SCHEDULER_MAX_TASK_COUNT
      /\ processes'[n].id = c /\ processes'[n].parent_id = Cur.id
      /\ processes'[n].status = "SCHEDULED" /\ processes'[n].wait_pid = 0
      /\ \A i \in 0 .. n - 1 : SameProc(processes'[i], processes[i])
      /\ n \in 0 .. (n + 1) - 1
      /\ \A i \in 0 .. (n + 1) - 1 : i \in 0 .. n - 1 \/ i = n
      /\ \A i \in 0 .. n - 1 : i \in 0 .. (n + 1) - 1
    <2>1. id_gen < MaxPid /\ id_gen \in Nat /\ MaxPid \in Nat
        BY <1>1, SizesAssumption DEF ForkStep
    <2> QED BY <1>1, <2>1 DEF ForkStep
<1>3. \A i \in 0 .. n - 1 : processes[i].id # c /\ processes[i].id \in 1 .. id_gen
    BY <1>1, IdsRange
<1>4. /\ Shown(processes, n, id_gen, St, Pa, Aw)
       /\ Shown(processes', n + 1, c, St', Pa', Aw')
    BY <1>2, BothShown
<1> HIDE DEF n, c
<1>5. St'[c] = "ready" /\ Pa'[c] = Cur.id /\ Aw'[c] = 0 /\ Aw[c] = 0
    BY <1>2, <1>3, <1>4 DEF Shown, Phase
<1>6. ASSUME NEW x \in 1 .. MaxPid, x # c
      PROVE  St'[x] = St[x] /\ Pa'[x] = Pa[x] /\ Aw'[x] = Aw[x]
    <2>1. CASE \E i \in 0 .. n - 1 : processes[i].id = x
        BY <1>2, <1>4, <2>1 DEF Shown, SameProc
    <2>2. CASE \A i \in 0 .. n - 1 : processes[i].id # x
        <3>1. \A i \in 0 .. (n + 1) - 1 : processes'[i].id # x
            BY <1>2, <1>6, <2>2 DEF SameProc
        <3>2. x > id_gen <=> x > id_gen'
            BY <1>1, <1>2, <1>6 DEF c
        <3> QED BY <1>2, <1>4, <2>2, <3>1, <3>2 DEF Shown
    <2> QED BY <2>1, <2>2
<1>7. PICK D : D = 1 .. MaxPid
    OBVIOUS
<1>8. St' = [St EXCEPT ![c] = "ready"]
    BY <1>2, <1>5, <1>6, <1>7, BothShown, Updated
<1>9. Pa' = [Pa EXCEPT ![c] = Cur.id]
    BY <1>2, <1>5, <1>6, <1>7, BothShown, Updated
<1>10. Aw' = Aw
    <2>1. \A x \in 1 .. MaxPid : Aw'[x] = Aw[x]
        BY <1>5, <1>6
    <2> QED BY <1>7, <2>1, BothShown, Equal
<1>11. ASSUME NEW x \in 1 .. MaxPid PROVE St[x] = "unborn" <=> x >= c
    <2>1. CASE \E i \in 0 .. n - 1 : processes[i].id = x
        <3>1. PICK i \in 0 .. n - 1 : processes[i].id = x
            BY <2>1
        <3>2. ~ (x >= c)
            BY <1>1, <1>3, <3>1 DEF c
        <3>3. processes[i].status \in Statuses
            BY <1>1 DEF IInv, TypeOK, Process
        <3>4. St[x] # "unborn"
            BY <1>4, <3>1, <3>3 DEF Shown, Phase, Statuses
        <3> QED BY <3>2, <3>4
    <2>2. CASE \A i \in 0 .. n - 1 : processes[i].id # x
        <3>1. St[x] = IF x > id_gen THEN "unborn" ELSE "reaped"
            BY <1>4, <2>2 DEF Shown
        <3> QED BY <1>1, <3>1 DEF c
    <2> QED BY <2>1, <2>2
<1>12. Cardinality(Lifecycle!Present) < SCHEDULER_MAX_TASK_COUNT
    BY <1>1, <1>2, PresentFits, SizesAssumption DEF n
<1>13. Lifecycle!Cardinality(Lifecycle!Present) = Cardinality(Lifecycle!Present)
    BY DEF Cardinality, Lifecycle!Cardinality
<1>14. Lifecycle!Fork(Cur.id, c)
    BY <1>1, <1>8, <1>9, <1>10, <1>11, <1>12, <1>13 DEF Lifecycle!Fork, Lifecycle!Pids, St, Pa, Aw
<1> QED BY <1>1, <1>2, <1>14


\* WAITPID on a live child is WaitLive.
LEMMA SuspendShows ==
    ASSUME ChildWaitOnly, IInv, IInv', MapInv, NEW pid \in 1 .. MaxPid, NEW ref,
           SuspendStep(pid, ref)
    PROVE  \E p, c \in 1 .. MaxPid : Lifecycle!WaitLive(p, c)
<1> DEFINE n == proc_count
           k == FindProc(processes, pid)
<1>1. /\ n \in Nat /\ Indices = 0 .. n - 1 /\ processes \in [0 .. n - 1 -> Process]
      /\ current_proc \in 0 .. n - 1 /\ processes[current_proc] = Cur
      /\ Cur.id \in 1 .. MaxPid /\ St[Cur.id] = "ready"
    BY UserTable DEF SuspendStep
<1>2. /\ k \in 0 .. n - 1 /\ processes[k].id = pid /\ processes[k].status # "EXITED"
      /\ processes[k].status \in Statuses
    BY <1>1, FindProcIn DEF SuspendStep, Process
<1>3. processes[k].parent_id = Cur.id
    BY <1>1, <1>2 DEF SuspendStep, MayWait
<1>4. /\ proc_count' = n /\ id_gen' = id_gen
      /\ processes'[current_proc].status = "SUSPENDED"
      /\ processes'[current_proc].wait_pid = pid
      /\ \A i \in 0 .. n - 1 :
            /\ i # current_proc => processes'[i] = processes[i]
            /\ processes'[i].id = processes[i].id
            /\ processes'[i].parent_id = processes[i].parent_id
    BY <1>1 DEF SuspendStep
<1>5. /\ Shown(processes, n, id_gen, St, Pa, Aw)
      /\ Shown(processes', n, id_gen, St', Pa', Aw')
    BY <1>4, BothShown
<1>6. \A i \in 0 .. n - 1 : processes[i].id = Cur.id => i = current_proc
    BY <1>1, OneSlot
<1> HIDE DEF n, k
<1>7. St[pid] \in {"ready", "waiting"} /\ Pa[pid] = Cur.id
    BY <1>2, <1>3, <1>5 DEF Shown, Phase, Statuses
<1>8. St'[Cur.id] = "waiting" /\ Aw'[Cur.id] = pid /\ Pa'[Cur.id] = Pa[Cur.id]
    BY <1>1, <1>4, <1>5 DEF Shown, Phase
<1>9. ASSUME NEW x \in 1 .. MaxPid, x # Cur.id
      PROVE  St'[x] = St[x] /\ Pa'[x] = Pa[x] /\ Aw'[x] = Aw[x]
    <2>1. CASE \E i \in 0 .. n - 1 : processes[i].id = x
        BY <1>1, <1>4, <1>5, <1>9, <2>1, SMTT(30) DEF Shown
    <2>2. CASE \A i \in 0 .. n - 1 : processes[i].id # x
        BY <1>4, <1>5, <2>2 DEF Shown
    <2> QED BY <2>1, <2>2
<1>10. PICK D : D = 1 .. MaxPid
    OBVIOUS
<1>11. St' = [St EXCEPT ![Cur.id] = "waiting"]
    BY <1>1, <1>8, <1>9, <1>10, BothShown, Updated
<1>12. Aw' = [Aw EXCEPT ![Cur.id] = pid]
    BY <1>1, <1>8, <1>9, <1>10, BothShown, Updated
<1>13. Pa' = Pa
    <2>1. \A x \in 1 .. MaxPid : Pa'[x] = Pa[x]
        BY <1>8, <1>9
    <2> QED BY <1>10, <2>1, BothShown, Equal
<1>14. Lifecycle!WaitLive(Cur.id, pid)
    BY <1>1, <1>7, <1>11, <1>12, <1>13 DEF Lifecycle!WaitLive, St, Pa, Aw
<1> QED BY <1>1, <1>14

\* WAITPID on a zombie child is WaitZombie.
LEMMA ReapShows ==
    ASSUME ChildWaitOnly, IInv, IInv', MapInv, ResourcesOwned, NEW k, NEW ref,
           ReapStep(k, ref)
    PROVE  \E p, c \in 1 .. MaxPid : Lifecycle!WaitZombie(p, c)
<1> DEFINE n == proc_count
           m == proc_count - 1
           c == processes[k].id
<1>1. /\ n \in Nat /\ Indices = 0 .. n - 1 /\ processes \in [0 .. n - 1 -> Process]
      /\ Cur.id \in 1 .. MaxPid /\ St[Cur.id] = "ready"
    BY UserTable DEF ReapStep
<1>2. /\ k \in 0 .. n - 1 /\ processes[k].status = "EXITED"
      /\ processes[k].parent_id = Cur.id /\ processes[k].wait_pid = 0
    BY <1>1, ReapSucceeds DEF ReapStep, MapInv
<1>3. c \in 1 .. MaxPid /\ c <= id_gen /\ c \in Nat /\ id_gen \in Nat
    <2>1. c \in 1 .. id_gen /\ c \in 1 .. MaxPid
        BY <1>1, <1>2, IdsRange
    <2>2. id_gen \in Nat
        BY UserTable DEF ReapStep
    <2> QED BY <2>1, <2>2
<1>4. /\ proc_count' = m /\ id_gen' = id_gen /\ 0 .. m - 1 = 0 .. n - 2
      /\ \A j \in 0 .. m - 1 : SameProc(processes'[j], processes[OldIndex(k, j)])
    BY <1>1 DEF ReapStep
<1>5. /\ Shown(processes, n, id_gen, St, Pa, Aw)
      /\ Shown(processes', m, id_gen, St', Pa', Aw')
    BY <1>4, BothShown
<1>6. /\ \A j \in 0 .. m - 1 : OldIndex(k, j) \in 0 .. n - 1 /\ OldIndex(k, j) # k
      /\ \A i \in 0 .. n - 1 : i # k => \E j \in 0 .. m - 1 : OldIndex(k, j) = i
    <2>1. \A j \in 0 .. m - 1 : OldIndex(k, j) # k
        BY <1>1, <1>2 DEF OldIndex
    <2> QED BY <1>1, <1>2, <1>4, <2>1, OldIndexRange, NewSlot, SMTT(30)
<1>7. \A i \in 0 .. n - 1 : i # k => processes[i].id # c
    BY <1>1, <1>2, OneSlot
<1> HIDE DEF n, m, c
<1>8. St[c] = "zombie" /\ Pa[c] = Cur.id /\ Aw[c] = 0
    BY <1>2, <1>5 DEF Shown, Phase, c
<1>9. St'[c] = "reaped" /\ Pa'[c] = 0 /\ Aw'[c] = 0
    <2>1. \A j \in 0 .. m - 1 : processes'[j].id # c
        BY <1>4, <1>6, <1>7 DEF SameProc
    <2>2. ~ (c > id_gen)
        BY <1>3
    <2> QED BY <1>3, <1>5, <2>1, <2>2 DEF Shown
<1>10. ASSUME NEW x \in 1 .. MaxPid, x # c
       PROVE  St'[x] = St[x] /\ Pa'[x] = Pa[x] /\ Aw'[x] = Aw[x]
    <2>1. CASE \E i \in 0 .. n - 1 : processes[i].id = x
        <3>1. PICK i \in 0 .. n - 1 : processes[i].id = x /\ i # k
            BY <1>10, <2>1 DEF c
        <3>2. PICK j \in 0 .. m - 1 : OldIndex(k, j) = i
            BY <1>6, <3>1
        <3> QED BY <1>4, <1>5, <3>1, <3>2 DEF Shown, SameProc
    <2>2. CASE \A i \in 0 .. n - 1 : processes[i].id # x
        <3>1. \A j \in 0 .. m - 1 : processes'[j].id # x
            BY <1>4, <1>6, <2>2 DEF SameProc
        <3> QED BY <1>5, <2>2, <3>1 DEF Shown
    <2> QED BY <2>1, <2>2
<1>11. PICK D : D = 1 .. MaxPid
    OBVIOUS
<1>12. St' = [St EXCEPT ![c] = "reaped"]
    BY <1>3, <1>9, <1>10, <1>11, BothShown, Updated
<1>13. Pa' = [Pa EXCEPT ![c] = 0]
    BY <1>3, <1>9, <1>10, <1>11, BothShown, Updated
<1>14. Aw' = Aw
    <2>1. \A x \in 1 .. MaxPid : Aw'[x] = Aw[x]
        BY <1>8, <1>9, <1>10
    <2> QED BY <1>11, <2>1, BothShown, Equal
<1>15. Lifecycle!WaitZombie(Cur.id, c)
    BY <1>1, <1>8, <1>12, <1>13, <1>14 DEF Lifecycle!WaitZombie, St, Pa, Aw
<1> QED BY <1>1, <1>3, <1>15


\* The record of process i after an exit, in the fields that are shown.
ExitShown(q, i) ==
    /\ q.id = processes[i].id
    /\ q.parent_id = IF processes[i].parent_id = Cur.id THEN 1
                     ELSE processes[i].parent_id
    /\ i = current_proc => q.status = "EXITED" /\ q.wait_pid = Cur.wait_pid
    /\ i # current_proc /\ Awaits(processes, current_proc, i) =>
          q.status = "SCHEDULED" /\ q.wait_pid = 0
    /\ i # current_proc /\ ~ Awaits(processes, current_proc, i) =>
          q.status = processes[i].status /\ q.wait_pid = processes[i].wait_pid

\* Exit leaves such records.
LEMMA ExitFields ==
    ASSUME NEW status \in Int, NEW q, NEW i, processes[i] \in Process,
           ExitImage(q, i, status)
    PROVE  ExitShown(q, i)
<1>1. ASSUME i # current_proc, ~ Awaits(processes, current_proc, i)
      PROVE  q.status = processes[i].status /\ q.wait_pid = processes[i].wait_pid
    <2>1. PICK c \in Process, e \in {q.parent_id} : c = processes[i] /\ e = q.parent_id
        OBVIOUS
    <2>2. q = [c EXCEPT !.parent_id = e]
        BY <1>1, <2>1 DEF ExitImage
    <2>3. q.status = c.status /\ q.wait_pid = c.wait_pid
        BY <2>2 DEF Process
    <2> QED BY <2>1, <2>3
<1> QED BY <1>1 DEF ExitImage, ExitShown

\* EXIT is ExitUnawaited or ExitAwaited.
LEMMA ExitShows ==
    ASSUME IInv, IInv', MapInv, NEW status \in Int, ExitStep(status)
    PROVE  \E c \in 1 .. MaxPid : Lifecycle!ExitUnawaited(c) \/ Lifecycle!ExitAwaited(c)
<1> DEFINE n == proc_count
           m == proc_count - 1
           c == Cur.id
           adopted == [x \in 1 .. MaxPid |-> IF Pa[x] = c THEN 1 ELSE Pa[x]]
<1>1. /\ n \in Nat /\ Indices = 0 .. n - 1 /\ processes \in [0 .. n - 1 -> Process]
      /\ current_proc \in 0 .. n - 1 /\ processes[current_proc] = Cur
      /\ c \in 1 .. MaxPid /\ c # 0 /\ c # 1 /\ Cur.wait_pid = 0
      /\ St[c] = "ready" /\ Pa[c] = Cur.parent_id /\ Aw[c] = 0
      /\ id_gen' = id_gen
    BY UserTable DEF ExitStep, INIT_PROC_ID
<1>2. PICK p \in 0 .. n - 1 : processes[p].id = Cur.parent_id /\ p # current_proc
    BY <1>1 DEF IInv, TableInv, ParentAlive, INIT_PROC_ID
<1>3. Shown(processes, n, id_gen, St, Pa, Aw)
    BY BothShown
<1>4. \A i, j \in 0 .. n - 1 : processes[i].id = processes[j].id => i = j
    BY <1>1, OneSlot
<1>5. /\ Cur.parent_id \in 1 .. MaxPid /\ Cur.parent_id # c
      /\ Aw[Cur.parent_id] = processes[p].wait_pid
      /\ St[Cur.parent_id] = Phase(processes[p].status)
    BY <1>1, <1>2, <1>3, <1>4 DEF Shown
<1>6. Awaits(processes, current_proc, p) <=> Aw[Cur.parent_id] = c
    <2>1. ASSUME processes[p].wait_pid = c PROVE processes[p].status = "SUSPENDED"
        BY <1>1, <1>2, <2>1 DEF MapInv
    <2> QED BY <1>1, <1>2, <1>5, <2>1 DEF Awaits
<1>7. \A i \in 0 .. n - 1 : Awaits(processes, current_proc, i) => i = p
    BY <1>1, <1>2, <1>4 DEF Awaits
<1>8. \A x \in 1 .. MaxPid : (\A i \in 0 .. n - 1 : processes[i].id # x) => adopted[x] = 0
    BY <1>1, <1>3 DEF Shown
<1>9. \A i \in 0 .. n - 1 :
         /\ processes[i].id \in 1 .. MaxPid
         /\ adopted[processes[i].id] = IF processes[i].parent_id = c THEN 1
                                       ELSE processes[i].parent_id
    BY <1>3 DEF Shown
<1>10. /\ DOMAIN adopted = 1 .. MaxPid
       /\ adopted = [x \in DOMAIN adopted |-> adopted[x]]
    OBVIOUS
<1>11. PICK D : D = 1 .. MaxPid
    OBVIOUS
<1>12. c <= id_gen /\ id_gen \in Nat /\ c \in Nat
    <2>1. c \in 1 .. id_gen
        BY <1>1, IdsRange
    <2>2. id_gen \in Nat
        BY UserTable DEF ExitStep
    <2> QED BY <2>1, <2>2
<1>13. \A i \in 0 .. n - 1 : processes[i] \in Process
    BY <1>1
<1>14. CASE /\ \A i \in Indices : ~ Awaits(processes, current_proc, i)
            /\ proc_count' = proc_count
            /\ \A i \in Indices : ExitImage(processes'[i], i, status)
    <2>1. ASSUME NEW i \in 0 .. n - 1
          PROVE  /\ processes'[i].id = processes[i].id
                 /\ processes'[i].parent_id = adopted[processes[i].id]
                 /\ i = current_proc => processes'[i].status = "EXITED"
                 /\ i # current_proc => processes'[i].status = processes[i].status
                 /\ processes'[i].wait_pid = processes[i].wait_pid
        <3>1. ExitShown(processes'[i], i)
            BY <1>1, <1>13, <1>14, ExitFields
        <3>2. ~ Awaits(processes, current_proc, i)
            BY <1>1, <1>14
        <3> HIDE DEF n, c, adopted
        <3> QED BY <1>1, <1>9, <3>1, <3>2 DEF ExitShown, c
    <2>2. Shown(processes', n, id_gen, St', Pa', Aw')
        BY <1>1, <1>14, BothShown
    <2>3. Aw[Cur.parent_id] # c
        BY <1>1, <1>2, <1>6, <1>14
    <2> HIDE DEF n, c, adopted
    <2>4. St'[c] = "zombie"
        BY <1>1, <2>1, <2>2 DEF Shown, Phase, c
    <2>5. ASSUME NEW x \in 1 .. MaxPid
          PROVE  /\ x # c => St'[x] = St[x]
                 /\ Pa'[x] = adopted[x] /\ Aw'[x] = Aw[x]
        <3>1. CASE \E i \in 0 .. n - 1 : processes[i].id = x
            <4>1. PICK i \in 0 .. n - 1 : processes[i].id = x
                BY <3>1
            <4>2. x # c => i # current_proc
                BY <1>1, <4>1 DEF c
            <4> QED BY <1>3, <2>1, <2>2, <4>1, <4>2 DEF Shown
        <3>2. CASE \A i \in 0 .. n - 1 : processes[i].id # x
            <4>1. \A i \in 0 .. n - 1 : processes'[i].id # x
                BY <2>1, <3>2
            <4> QED BY <1>3, <1>8, <2>2, <3>2, <4>1 DEF Shown
        <3> QED BY <3>1, <3>2
    <2>6. St' = [St EXCEPT ![c] = "zombie"]
        BY <1>1, <1>11, <2>4, <2>5, BothShown, Updated
    <2>7. Pa' = adopted
        <3>1. \A x \in 1 .. MaxPid : Pa'[x] = adopted[x] BY <2>5
        <3> QED BY <1>10, <1>11, <3>1, BothShown, Equal
    <2>8. Aw' = Aw
        <3>1. \A x \in 1 .. MaxPid : Aw'[x] = Aw[x] BY <2>5
        <3> QED BY <1>11, <3>1, BothShown, Equal
    <2>9. Lifecycle!ExitUnawaited(c)
        BY <1>1, <2>3, <2>6, <2>7, <2>8
        DEF Lifecycle!ExitUnawaited, Lifecycle!Adopted, Lifecycle!Pids,
            Lifecycle!InitPid, St, Pa, Aw, adopted
    <2> QED BY <1>1, <2>9 DEF c
<1>15. CASE /\ \E i \in Indices \ {current_proc} : Awaits(processes, current_proc, i)
            /\ proc_count' = proc_count - 1
            /\ \A j \in 0 .. proc_count - 2 :
                  ExitImage(processes'[j], OldIndex(current_proc, j), status)
    <2>1. 0 .. m - 1 = 0 .. n - 2 /\ proc_count' = m
        BY <1>1, <1>15
    <2>2. /\ \A j \in 0 .. m - 1 : /\ OldIndex(current_proc, j) \in 0 .. n - 1
                                   /\ OldIndex(current_proc, j) # current_proc
          /\ \A i \in 0 .. n - 1 : i # current_proc =>
                \E j \in 0 .. m - 1 : OldIndex(current_proc, j) = i
        <3>1. \A j \in 0 .. m - 1 : OldIndex(current_proc, j) # current_proc
            BY <1>1 DEF OldIndex
        <3> QED BY <1>1, <2>1, <3>1, OldIndexRange, NewSlot, SMTT(30)
    <2>3. Awaits(processes, current_proc, p)
        BY <1>1, <1>7, <1>15
    <2>4. ASSUME NEW j \in 0 .. m - 1, NEW i \in 0 .. n - 1, OldIndex(current_proc, j) = i
          PROVE  /\ processes'[j].id = processes[i].id
                 /\ processes'[j].parent_id = adopted[processes[i].id]
                 /\ i = p => processes'[j].status = "SCHEDULED" /\ processes'[j].wait_pid = 0
                 /\ i # p => /\ processes'[j].status = processes[i].status
                             /\ processes'[j].wait_pid = processes[i].wait_pid
        <3>1. ExitImage(processes'[j], i, status) /\ i # current_proc
            BY <1>15, <2>1, <2>2, <2>4
        <3>2. i = p <=> Awaits(processes, current_proc, i)
            BY <1>7, <2>3
        <3>3. ExitShown(processes'[j], i)
            BY <1>13, <3>1, ExitFields
        <3> HIDE DEF n, m, c, adopted
        <3> QED BY <1>9, <3>1, <3>2, <3>3 DEF ExitShown, c
    <2>5. Shown(processes', m, id_gen, St', Pa', Aw')
        BY <1>1, <2>1, BothShown
    <2> HIDE DEF n, m, c, adopted
    <2>6. ASSUME NEW j \in 0 .. m - 1 PROVE processes'[j].id # c
        <3>1. PICK i \in 0 .. n - 1 : OldIndex(current_proc, j) = i /\ i # current_proc
            BY <2>2
        <3>2. processes[i].id # c
            BY <1>1, <1>4, <3>1 DEF c
        <3> QED BY <2>4, <3>1, <3>2
    <2>7. St'[c] = "reaped" /\ Pa'[c] = 0 /\ Aw'[c] = 0
        <3>1. ~ (c > id_gen) BY <1>12
        <3> QED BY <1>1, <2>5, <2>6, <3>1 DEF Shown
    <2>8. ASSUME NEW x \in 1 .. MaxPid, x # c
          PROVE  /\ x = Cur.parent_id => St'[x] = "ready" /\ Aw'[x] = 0
                 /\ x # Cur.parent_id => St'[x] = St[x] /\ Aw'[x] = Aw[x]
                 /\ Pa'[x] = adopted[x]
        <3>1. CASE \E i \in 0 .. n - 1 : processes[i].id = x
            <4>1. PICK i \in 0 .. n - 1 : processes[i].id = x
                BY <3>1
            <4>2. i # current_proc
                BY <1>1, <2>8, <4>1 DEF c
            <4>3. PICK j \in 0 .. m - 1 : OldIndex(current_proc, j) = i
                BY <2>2, <4>2
            <4>4. i = p <=> x = Cur.parent_id
                BY <1>2, <1>4, <4>1
            <4>5. /\ St'[x] = Phase(processes'[j].status)
                  /\ Pa'[x] = processes'[j].parent_id /\ Aw'[x] = processes'[j].wait_pid
                BY <2>4, <2>5, <4>1, <4>3 DEF Shown
            <4>6. St[x] = Phase(processes[i].status) /\ Aw[x] = processes[i].wait_pid
                BY <1>3, <4>1 DEF Shown
            <4>7. Phase("SCHEDULED") = "ready"
                BY DEF Phase
            <4> QED BY <2>4, <4>1, <4>3, <4>4, <4>5, <4>6, <4>7
        <3>2. CASE \A i \in 0 .. n - 1 : processes[i].id # x
            <4>1. \A j \in 0 .. m - 1 : processes'[j].id # x
                BY <2>2, <2>4, <3>2
            <4>2. x # Cur.parent_id
                BY <1>2, <3>2
            <4> QED BY <1>3, <1>8, <2>5, <3>2, <4>1, <4>2 DEF Shown
        <3> QED BY <3>1, <3>2
    <2> DEFINE zs == [St EXCEPT ![c] = "reaped"]
    <2>9. /\ DOMAIN zs = 1 .. MaxPid /\ zs = [x \in DOMAIN zs |-> zs[x]]
          /\ \A x \in 1 .. MaxPid : zs[x] = IF x = c THEN "reaped" ELSE St[x]
        BY BothShown
    <2> HIDE DEF zs
    <2>10. St' = [zs EXCEPT ![Cur.parent_id] = "ready"]
        <3>1. \A x \in 1 .. MaxPid : St'[x] = IF x = Cur.parent_id THEN "ready" ELSE zs[x]
            BY <1>1, <1>5, <2>7, <2>8, <2>9
        <3> QED BY <1>5, <1>11, <2>9, <3>1, BothShown, Updated
    <2>11. Aw' = [Aw EXCEPT ![Cur.parent_id] = 0]
        <3>1. \A x \in 1 .. MaxPid : Aw'[x] = IF x = Cur.parent_id THEN 0 ELSE Aw[x]
            BY <1>1, <1>5, <2>7, <2>8
        <3> QED BY <1>5, <1>11, <3>1, BothShown, Updated
    <2>12. Pa' = [adopted EXCEPT ![c] = 0]
        <3>1. \A x \in 1 .. MaxPid : Pa'[x] = IF x = c THEN 0 ELSE adopted[x]
            BY <2>7, <2>8
        <3> QED BY <1>1, <1>10, <1>11, <3>1, BothShown, Updated
    <2>13. Aw[Pa[c]] = c
        BY <1>1, <1>6, <2>3
    <2>14. St' = [St EXCEPT ![c] = "reaped", ![Pa[c]] = "ready"]
        BY <1>1, <2>10 DEF zs
    <2>15. Lifecycle!ExitAwaited(c)
        BY <1>1, <2>11, <2>12, <2>13, <2>14
        DEF Lifecycle!ExitAwaited, Lifecycle!Adopted, Lifecycle!Pids,
            Lifecycle!InitPid, St, Pa, Aw, adopted
    <2> QED BY <1>1, <2>15 DEF c
<1> QED BY <1>14, <1>15 DEF ExitStep


\* scheduler_start is Start and a reboot is Reset.
LEMMA StartShows ==
    ASSUME IInv, IInv'
    PROVE  (SchedulerStart => Lifecycle!Start) /\ (Reboot => Lifecycle!Reset)
<1>1. PICK D : D = 1 .. MaxPid
    OBVIOUS
<1>2. ASSUME Reboot PROVE Lifecycle!Reset
    <2>1. proc_count' = 0 /\ id_gen' = 0
        BY <1>2 DEF Reboot
    <2>2. Shown(processes', 0, 0, St', Pa', Aw')
        BY <2>1, BothShown
    <2>3. \A x \in 1 .. MaxPid : St'[x] = "unborn" /\ Pa'[x] = 0 /\ Aw'[x] = 0
        BY <2>2 DEF Shown
    <2>4. /\ St' = [x \in 1 .. MaxPid |-> "unborn"] /\ Pa' = [x \in 1 .. MaxPid |-> 0]
          /\ Aw' = [x \in 1 .. MaxPid |-> 0]
        BY <2>3, BothShown
    <2> QED BY <2>4 DEF Lifecycle!Reset, Lifecycle!Pids, St, Pa, Aw
<1>3. ASSUME SchedulerStart PROVE Lifecycle!Start
    <2>1. proc_count = 0 /\ id_gen = 0 /\ proc_count' = 1 /\ id_gen' = 1
        BY <1>3 DEF SchedulerStart, IInv, BootState
    <2>2. /\ processes'[0].id = 1 /\ processes'[0].parent_id = 0
          /\ processes'[0].status = "SCHEDULED" /\ processes'[0].wait_pid = 0
        BY <1>3 DEF SchedulerStart, INIT_PROC_ID
    <2>3. Shown(processes, 0, 0, St, Pa, Aw) /\ Shown(processes', 1, 1, St', Pa', Aw')
        BY <2>1, BothShown
    <2>4. \A x \in 1 .. MaxPid : St[x] = "unborn" /\ Pa[x] = 0 /\ Aw[x] = 0
        BY <2>3 DEF Shown
    <2>5. \A i \in 0 .. 1 - 1 : i = 0
        OBVIOUS
    <2>6. 1 \in 1 .. MaxPid /\ St'[1] = "ready" /\ Pa'[1] = 0 /\ Aw'[1] = 0
        BY <2>2, <2>3, SizesAssumption DEF Shown, Phase
    <2>7. ASSUME NEW x \in 1 .. MaxPid, x # 1
          PROVE  St'[x] = "unborn" /\ Pa'[x] = 0 /\ Aw'[x] = 0
        <3>1. x > 1 /\ \A i \in 0 .. 1 - 1 : processes'[i].id # x
            BY <2>2, <2>5, <2>7
        <3> QED BY <2>3, <3>1 DEF Shown
    <2>8. St' = [St EXCEPT ![1] = "ready"]
        <3>1. \A x \in 1 .. MaxPid : St'[x] = IF x = 1 THEN "ready" ELSE St[x]
            BY <2>4, <2>6, <2>7
        <3>2. PICK e \in D : e = 1
            BY <1>1, <2>6
        <3>3. St' = [St EXCEPT ![e] = "ready"]
            BY <1>1, <3>1, <3>2, BothShown, Updated
        <3> QED BY <3>2, <3>3
    <2>9. \A x \in 1 .. MaxPid : Pa'[x] = Pa[x] /\ Aw'[x] = Aw[x]
        BY <2>4, <2>6, <2>7
    <2>10. Pa' = Pa
        BY <1>1, <2>9, BothShown, Equal
    <2>11. Aw' = Aw
        BY <1>1, <2>9, BothShown, Equal
    <2>12. St[1] = "unborn"
        BY <2>4, <2>6
    <2> QED BY <2>8, <2>10, <2>11, <2>12 DEF Lifecycle!Start, Lifecycle!InitPid, St, Pa, Aw
<1> QED BY <1>2, <1>3

\* Every step of the scheduler is a step of the lifecycle, or shows nothing.
LEMMA StepShows ==
    ASSUME ChildWaitOnly, IInv, IInv', ResourceInv, MapInv, [Next]_vars
    PROVE  [Lifecycle!Next]_(Lifecycle!vars)
<1>1. CASE SchedulerStart \/ Reboot
    BY <1>1, StartShows DEF Lifecycle!Next
<1>2. CASE Kept
    BY <1>2, KeptShows DEF Lifecycle!vars, St, Pa, Aw
<1>3. CASE ForkStep
    BY <1>3, ForkShows DEF Lifecycle!Next, Lifecycle!Pids
<1>4. CASE \E pid \in 1 .. MaxPid, ref \in 0 .. SECTION_COUNT : SuspendStep(pid, ref)
    BY <1>4, SuspendShows DEF Lifecycle!Next, Lifecycle!Pids
<1>5. CASE \E k \in Indices, ref \in 0 .. SECTION_COUNT : ReapStep(k, ref)
    BY <1>5, ReapShows DEF ResourceInv, Lifecycle!Next, Lifecycle!Pids
<1>6. CASE \E status \in Int : ExitStep(status)
    BY <1>6, ExitShows DEF Lifecycle!Next, Lifecycle!Pids
<1> QED BY <1>1, <1>2, <1>3, <1>4, <1>5, <1>6, StepEffects

\* When programs wait only for their children, the process table implements
\* ProcessLifecycle: every pid is born once, in order, exits at most once and
\* is collected at most once, by its parent or by init, whatever the traps do
\* to the slots of the table.
THEOREM Refinement == ASSUME ChildWaitOnly PROVE Spec => ImplementsLifecycle
<1>1. Init => Lifecycle!Init
    <2> SUFFICES ASSUME Init PROVE Lifecycle!Init
        OBVIOUS
    <2>1. proc_count = 0 /\ id_gen = 0 /\ IInv
        BY InitInv DEF Init
    <2>2. Shown(processes, 0, 0, St, Pa, Aw)
        BY <2>1, MappingShown
    <2>3. \A x \in 1 .. MaxPid : St[x] = "unborn" /\ Pa[x] = 0 /\ Aw[x] = 0
        BY <2>2 DEF Shown
    <2>4. /\ St = [x \in 1 .. MaxPid |-> "unborn"] /\ Pa = [x \in 1 .. MaxPid |-> 0]
          /\ Aw = [x \in 1 .. MaxPid |-> 0]
        BY <2>2, <2>3 DEF Shown
    <2> QED BY <2>4 DEF Lifecycle!Init, Lifecycle!Pids, St, Pa, Aw
<1>2. IInv /\ IInv' /\ ResourceInv /\ MapInv /\ [Next]_vars
         => [Lifecycle!Next]_(Lifecycle!vars)
    BY StepShows
<1> QED BY <1>1, <1>2, Invariance, Ownership, Mappable, PTL
        DEF Spec, ImplementsLifecycle, Lifecycle!Spec
=============================================================================
