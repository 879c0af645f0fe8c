------------------------ MODULE SchedulerRefinement ------------------------
(***************************************************************************)
(* The process table implements ProcessLifecycle: a pid above the          *)
(* generator is unborn, one that left the table is reaped.                 *)
(***************************************************************************)
EXTENDS Scheduler

Slot(pid) == FindProc(processes, pid)
InTable(pid) == pid \in Ids(processes)

LifecycleState(pid) ==
    IF InTable(pid)
    THEN CASE processes[Slot(pid)].status = "SCHEDULED" -> "ready"
           [] processes[Slot(pid)].status = "SUSPENDED" -> "waiting"
           [] processes[Slot(pid)].status = "EXITED"    -> "zombie"
    ELSE IF pid > id_gen THEN "unborn" ELSE "reaped"

Lifecycle == INSTANCE ProcessLifecycle WITH
    MaxPid   <- MaxPid,
    Capacity <- SCHEDULER_MAX_TASK_COUNT,
    state    <- [pid \in 1 .. MaxPid |-> LifecycleState(pid)],
    parent   <- [pid \in 1 .. MaxPid |->
                    IF InTable(pid) THEN processes[Slot(pid)].parent_id ELSE 0],
    awaits   <- [pid \in 1 .. MaxPid |->
                    IF InTable(pid) THEN processes[Slot(pid)].wait_pid ELSE 0]

\* Every behaviour of the scheduler, seen through this mapping, is one of
\* ProcessLifecycle: each trap is one lifecycle step or changes nothing.
ImplementsLifecycle == Lifecycle!Spec

\* Processes never all wait for one another (see ProcessLifecycle): once init
\* is in the table, some process is scheduled.
NoDeadlock == Lifecycle!NoDeadlock
=============================================================================
