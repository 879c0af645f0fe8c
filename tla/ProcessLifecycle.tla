-------------------------- MODULE ProcessLifecycle --------------------------
(***************************************************************************)
(* What the process calls of the kernel promise to programs, without the   *)
(* process table: a pid is born once, exits at most once, and its exit is  *)
(* collected at most once, by its parent. Children of a process that       *)
(* exits belong to init. The module Scheduler implements it (see           *)
(* SchedulerRefinement).                                                   *)
(***************************************************************************)
EXTENDS Integers, FiniteSets

CONSTANTS
    MaxPid,     \* pids are 1 .. MaxPid, given in order
    Capacity    \* processes, zombies included, that can exist at once

VARIABLES
    state,      \* per pid
    parent,     \* per pid: its parent, 0 when there is none
    awaits      \* per pid: the child it is suspended on, or 0

vars == <<state, parent, awaits>>

Pids == 1 .. MaxPid
InitPid == 1
States == {"unborn", "ready", "waiting", "zombie", "reaped"}

Present == {p \in Pids : state[p] \notin {"unborn", "reaped"}}

Init ==
    /\ state = [p \in Pids |-> "unborn"]
    /\ parent = [p \in Pids |-> 0]
    /\ awaits = [p \in Pids |-> 0]

\* The first process.
Start ==
    /\ state[InitPid] = "unborn"
    /\ state' = [state EXCEPT ![InitPid] = "ready"]
    /\ UNCHANGED <<parent, awaits>>

\* p creates c, the next pid.
Fork(p, c) ==
    /\ state[p] = "ready"
    /\ Cardinality(Present) < Capacity
    /\ \A q \in Pids : state[q] = "unborn" <=> q >= c
    /\ state' = [state EXCEPT ![c] = "ready"]
    /\ parent' = [parent EXCEPT ![c] = p]
    /\ UNCHANGED awaits

\* The parent table once c's children belong to init.
Adopted(c) == [q \in Pids |-> IF parent[q] = c THEN InitPid ELSE parent[q]]

\* c exits and nobody waits for it yet.
ExitUnawaited(c) ==
    /\ state[c] = "ready" /\ c # InitPid
    /\ awaits[parent[c]] # c
    /\ state' = [state EXCEPT ![c] = "zombie"]
    /\ parent' = Adopted(c)
    /\ UNCHANGED awaits

\* c exits and its parent, which waits for it, goes on.
ExitAwaited(c) ==
    /\ state[c] = "ready" /\ c # InitPid
    /\ awaits[parent[c]] = c
    /\ state' = [state EXCEPT ![c] = "reaped", ![parent[c]] = "ready"]
    /\ awaits' = [awaits EXCEPT ![parent[c]] = 0]
    /\ parent' = [Adopted(c) EXCEPT ![c] = 0]

\* p collects the exit of its child c.
WaitZombie(p, c) ==
    /\ state[p] = "ready" /\ state[c] = "zombie" /\ parent[c] = p
    /\ state' = [state EXCEPT ![c] = "reaped"]
    /\ parent' = [parent EXCEPT ![c] = 0]
    /\ UNCHANGED awaits

\* p waits for its child c, which has not exited.
WaitLive(p, c) ==
    /\ state[p] = "ready" /\ state[c] \in {"ready", "waiting"} /\ parent[c] = p
    /\ state' = [state EXCEPT ![p] = "waiting"]
    /\ awaits' = [awaits EXCEPT ![p] = c]
    /\ UNCHANGED parent

\* The machine reboots.
Reset ==
    /\ state' = [p \in Pids |-> "unborn"]
    /\ parent' = [p \in Pids |-> 0]
    /\ awaits' = [p \in Pids |-> 0]

Next ==
    \/ Start \/ Reset
    \/ \E c \in Pids : ExitUnawaited(c) \/ ExitAwaited(c)
    \/ \E p, c \in Pids : Fork(p, c) \/ WaitZombie(p, c) \/ WaitLive(p, c)

Spec == Init /\ [][Next]_vars

-----------------------------------------------------------------------------
(* Properties                                                              *)

\* Every variable has its type.
TypeOK ==
    /\ state \in [Pids -> States]
    /\ parent \in [Pids -> 0 .. MaxPid]
    /\ awaits \in [Pids -> 0 .. MaxPid]

\* Every process but init has an older parent that has not exited, so its
\* exit can always be collected.
ParentsLive ==
    \A p \in Present \ {InitPid} :
        /\ parent[p] \in Pids /\ parent[p] < p
        /\ state[parent[p]] \in {"ready", "waiting"}

\* A process is suspended exactly on a child of its own that has not exited.
WaitsMatched ==
    \A p \in Pids :
        /\ state[p] = "waiting" <=> awaits[p] # 0
        /\ awaits[p] # 0 => /\ parent[awaits[p]] = p
                            /\ state[awaits[p]] \in {"ready", "waiting"}

\* Processes never all wait for one another: once init exists, some process
\* is ready.
NoDeadlock == state[InitPid] # "unborn" => \E p \in Pids : state[p] = "ready"
=============================================================================
