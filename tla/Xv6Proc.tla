------------------------------ MODULE Xv6Proc ------------------------------
(***************************************************************************)
(* The process table of xv6/kernel/proc.c, in which one lock, wait_lock,   *)
(* protects every p->parent and is taken before any p->lock (xv7 has no    *)
(* such lock: compare Proc).                                               *)
(*                                                                         *)
(* No p->lock is held here across the acquire() of another lock, so a      *)
(* section under a p->lock is part of one step; wait_lock is held across   *)
(* steps.  A CPU is whatever runs a RUNNING process: there are Harts.      *)
(***************************************************************************)
EXTENDS Integers, FiniteSets

CONSTANTS
    NPROC,      \* size of the process table (param.h)
    Harts,      \* the number of CPUs
    MaxForks    \* BOUND: the highest pid given out

ASSUME Xv6ProcAssumption ==
    /\ NPROC \in Nat \ {0} /\ Harts \in Nat \ {0} /\ MaxForks \in Nat \ {0}

PSlot == 1..NPROC
NoProc == 0
init6 == 1          \* initproc
DevChan == NPROC + 1

VARIABLES
    pstate, ppid, pparent, pkilled, pchan,  \* the fields of struct proc
    wait_lock,      \* the process that holds it, or NoProc
    ppc,            \* where each process is in the kernel
    child,          \* np in fork()
    next_pid

xv6Vars == <<pstate, ppid, pparent, pkilled, pchan, wait_lock, ppc, child, next_pid>>

\* "user": in user space.  The others name what the process does next.
PPC == {"user", "forkparent", "forkrun", "exit", "exitwake", "exitzombie",
        "wait", "waitscan", "waitsleep", "waitwoken", "io", "iowoken"}

\* procinit() and userinit().
Xv6Init ==
    /\ pstate = [p \in PSlot |-> IF p = init6 THEN "RUNNABLE" ELSE "UNUSED"]
    /\ ppid = [p \in PSlot |-> IF p = init6 THEN 1 ELSE 0]
    /\ pparent = [p \in PSlot |-> NoProc]
    /\ pkilled = [p \in PSlot |-> FALSE]
    /\ pchan = [p \in PSlot |-> NoProc]
    /\ wait_lock = NoProc
    /\ ppc = [p \in PSlot |-> "user"]
    /\ child = [p \in PSlot |-> NoProc]
    /\ next_pid = 2

-----------------------------------------------------------------------------
Running(p, label) == pstate[p] = "RUNNING" /\ ppc[p] = label
GoTo(p, label) == ppc' = [ppc EXCEPT ![p] = label]

\* The states after wakeup(ch).
Awake6(states, ch) ==
    [q \in PSlot |-> IF states[q] = "SLEEPING" /\ pchan[q] = ch THEN "RUNNABLE" ELSE states[q]]

\* scheduler() runs p; a process that comes out of sleep() clears its channel.
Scheduler6(p) ==
    /\ pstate[p] = "RUNNABLE"
    /\ Cardinality({q \in PSlot : pstate[q] = "RUNNING"}) < Harts
    /\ pstate' = [pstate EXCEPT ![p] = "RUNNING"]
    /\ pchan' = [pchan EXCEPT ![p] = NoProc]
    /\ ppc' = [ppc EXCEPT ![p] = IF @ = "waitwoken" THEN "wait" ELSE IF @ = "iowoken" THEN "user" ELSE @]
    /\ UNCHANGED <<ppid, pparent, pkilled, wait_lock, child, next_pid>>

\* A timer interrupt where the process holds no spinlock.  acquire() turns
\* interrupts off before it spins, so none comes while it waits for wait_lock.
Yield6(p) ==
    /\ pstate[p] = "RUNNING"
    /\ \/ ppc[p] \in {"user", "forkrun"}
       \/ ppc[p] \in {"forkparent", "exit", "wait"} /\ wait_lock = NoProc
    /\ pstate' = [pstate EXCEPT ![p] = "RUNNABLE"]
    /\ UNCHANGED <<ppid, pparent, pkilled, pchan, wait_lock, ppc, child, next_pid>>

-----------------------------------------------------------------------------
\* allocproc() and fork() up to release(&np->lock): np is USED, without parent.
Fork6(p) ==
    LET unused == {q \in PSlot : pstate[q] = "UNUSED"} IN
    /\ Running(p, "user") /\ ~pkilled[p] /\ next_pid <= MaxForks
    /\ unused # {}
    /\ LET np == CHOOSE q \in unused : \A r \in unused : q <= r IN
       /\ pstate' = [pstate EXCEPT ![np] = "USED"]
       /\ ppid' = [ppid EXCEPT ![np] = next_pid]
       /\ child' = [child EXCEPT ![p] = np]
       /\ ppc' = [ppc EXCEPT ![p] = "forkparent", ![np] = "user"]
    /\ next_pid' = next_pid + 1
    /\ UNCHANGED <<pparent, pkilled, pchan, wait_lock>>

\* freeproc(np).
FreeProc6(np) ==
    /\ pstate' = [pstate EXCEPT ![np] = "UNUSED"]
    /\ ppid' = [ppid EXCEPT ![np] = 0]
    /\ pparent' = [pparent EXCEPT ![np] = NoProc]
    /\ pkilled' = [pkilled EXCEPT ![np] = FALSE]
    /\ pchan' = [pchan EXCEPT ![np] = NoProc]

\* allocproc() or uvmcopy() runs out of memory: the slot is freed again.
ForkFails6(p) ==
    LET unused == {q \in PSlot : pstate[q] = "UNUSED"} IN
    /\ Running(p, "user") /\ ~pkilled[p] /\ next_pid <= MaxForks
    /\ unused # {}
    /\ FreeProc6(CHOOSE q \in unused : \A r \in unused : q <= r)
    /\ next_pid' = next_pid + 1
    /\ UNCHANGED <<wait_lock, ppc, child>>

\* np->parent = p, under wait_lock.
ForkParent6(p) ==
    /\ Running(p, "forkparent") /\ wait_lock = NoProc
    /\ pparent' = [pparent EXCEPT ![child[p]] = p]
    /\ GoTo(p, "forkrun")
    /\ UNCHANGED <<pstate, ppid, pkilled, pchan, wait_lock, child, next_pid>>

ForkRun6(p) ==
    /\ Running(p, "forkrun")
    /\ pstate' = [pstate EXCEPT ![child[p]] = "RUNNABLE"]
    /\ child' = [child EXCEPT ![p] = NoProc]
    /\ GoTo(p, "user")
    /\ UNCHANGED <<ppid, pparent, pkilled, pchan, wait_lock, next_pid>>

-----------------------------------------------------------------------------
ExitCall6(p) ==
    /\ Running(p, "user") /\ p # init6
    /\ GoTo(p, "exit")
    /\ UNCHANGED <<pstate, ppid, pparent, pkilled, pchan, wait_lock, child, next_pid>>

\* acquire(&wait_lock); reparent(p), which wakes init for each child.
ExitReparent6(p) ==
    LET kids == {q \in PSlot : pparent[q] = p} IN
    /\ Running(p, "exit") /\ wait_lock = NoProc
    /\ wait_lock' = p
    /\ pparent' = [q \in PSlot |-> IF q \in kids THEN init6 ELSE pparent[q]]
    /\ pstate' = IF kids = {} THEN pstate ELSE Awake6(pstate, init6)
    /\ GoTo(p, "exitwake")
    /\ UNCHANGED <<ppid, pkilled, pchan, child, next_pid>>

\* wakeup(p->parent): the parent cannot look before wait_lock is released.
ExitWake6(p) ==
    /\ Running(p, "exitwake")
    /\ pstate' = Awake6(pstate, pparent[p])
    /\ GoTo(p, "exitzombie")
    /\ UNCHANGED <<ppid, pparent, pkilled, pchan, wait_lock, child, next_pid>>

\* p is a ZOMBIE before wait_lock is released.
ExitZombie6(p) ==
    /\ Running(p, "exitzombie")
    /\ pstate' = [pstate EXCEPT ![p] = "ZOMBIE"]
    /\ wait_lock' = NoProc
    /\ UNCHANGED <<ppid, pparent, pkilled, pchan, ppc, child, next_pid>>

-----------------------------------------------------------------------------
WaitCall6(p) ==
    /\ Running(p, "user") /\ ~pkilled[p]
    /\ GoTo(p, "wait")
    /\ UNCHANGED <<pstate, ppid, pparent, pkilled, pchan, wait_lock, child, next_pid>>

WaitLock6(p) ==
    /\ Running(p, "wait") /\ wait_lock = NoProc
    /\ wait_lock' = p
    /\ GoTo(p, "waitscan")
    /\ UNCHANGED <<pstate, ppid, pparent, pkilled, pchan, child, next_pid>>

Zombies(p) == {q \in PSlot : pparent[q] = p /\ pstate[q] = "ZOMBIE"}

\* The scan finds a ZOMBIE and frees it.
WaitReap6(p) ==
    /\ Running(p, "waitscan") /\ Zombies(p) # {}
    /\ FreeProc6(CHOOSE q \in Zombies(p) : \A r \in Zombies(p) : q <= r)
    /\ wait_lock' = NoProc
    /\ GoTo(p, "user")
    /\ UNCHANGED <<child, next_pid>>

\* It finds one, but copyout() of the exit status fails.
WaitCopyoutFails6(p) ==
    /\ Running(p, "waitscan") /\ Zombies(p) # {} /\ p # init6    \* init passes 0
    /\ wait_lock' = NoProc
    /\ GoTo(p, "user")
    /\ UNCHANGED <<pstate, ppid, pparent, pkilled, pchan, child, next_pid>>

\* No children, or killed: -1.
WaitNone6(p) ==
    /\ Running(p, "waitscan") /\ Zombies(p) = {}
    /\ pkilled[p] \/ \A q \in PSlot : pparent[q] # p
    /\ wait_lock' = NoProc
    /\ GoTo(p, "user")
    /\ UNCHANGED <<pstate, ppid, pparent, pkilled, pchan, child, next_pid>>

\* Mutant: wait() lets wait_lock go before it sleeps.
WaitNothingYetUnlocks(p) ==
    /\ Running(p, "waitscan") /\ Zombies(p) = {}
    /\ ~pkilled[p] /\ \E q \in PSlot : pparent[q] = p
    /\ wait_lock' = NoProc
    /\ GoTo(p, "waitsleep")
    /\ UNCHANGED <<pstate, ppid, pparent, pkilled, pchan, child, next_pid>>

\* Some child is alive: on to sleep(), still with wait_lock.
WaitNothingYet6(p) ==
    /\ Running(p, "waitscan") /\ Zombies(p) = {}
    /\ ~pkilled[p] /\ \E q \in PSlot : pparent[q] = p
    /\ GoTo(p, "waitsleep")
    /\ UNCHANGED <<pstate, ppid, pparent, pkilled, pchan, wait_lock, child, next_pid>>

\* sleep(p, &wait_lock): p->lock is taken before wait_lock is released.
WaitSleep6(p) ==
    /\ Running(p, "waitsleep")
    /\ pstate' = [pstate EXCEPT ![p] = "SLEEPING"]
    /\ pchan' = [pchan EXCEPT ![p] = p]
    /\ wait_lock' = IF wait_lock = p THEN NoProc ELSE wait_lock
    /\ GoTo(p, "waitwoken")
    /\ UNCHANGED <<ppid, pparent, pkilled, child, next_pid>>

\* Any other sleep(): a device or file-system channel.
IoSleep6(p) ==
    /\ Running(p, "user") /\ ~pkilled[p]
    /\ pstate' = [pstate EXCEPT ![p] = "SLEEPING"]
    /\ pchan' = [pchan EXCEPT ![p] = DevChan]
    /\ GoTo(p, "iowoken")
    /\ UNCHANGED <<ppid, pparent, pkilled, wait_lock, child, next_pid>>

Wakeup6 ==
    /\ \E q \in PSlot : pstate[q] = "SLEEPING" /\ pchan[q] = DevChan
    /\ pstate' = Awake6(pstate, DevChan)
    /\ UNCHANGED <<ppid, pparent, pkilled, pchan, wait_lock, ppc, child, next_pid>>

\* kill(pid), with the pid of a process of the table.
Kill6(p, q) ==
    /\ Running(p, "user") /\ ~pkilled[p]
    /\ ppid[q] # 0 /\ q # init6
    /\ pkilled' = [pkilled EXCEPT ![q] = TRUE]
    /\ pstate' = IF pstate[q] = "SLEEPING" THEN [pstate EXCEPT ![q] = "RUNNABLE"] ELSE pstate
    /\ UNCHANGED <<ppid, pparent, pchan, wait_lock, ppc, child, next_pid>>

\* What the kernel does for p once a call is under way.
Kernel6(p) ==
    \/ ForkParent6(p) \/ ForkRun6(p)
    \/ ExitReparent6(p) \/ ExitWake6(p) \/ ExitZombie6(p)
    \/ WaitLock6(p) \/ WaitReap6(p) \/ WaitCopyoutFails6(p) \/ WaitNone6(p)
    \/ WaitNothingYet6(p) \/ WaitSleep6(p)

Xv6Next ==
    \/ \E p \in PSlot :
        \/ Scheduler6(p) \/ Yield6(p) \/ Kernel6(p)
        \/ Fork6(p) \/ ForkFails6(p) \/ ExitCall6(p) \/ WaitCall6(p) \/ IoSleep6(p)
        \/ \E q \in PSlot : Kill6(p, q)
    \/ Wakeup6

Xv6Spec == Xv6Init /\ [][Xv6Next]_xv6Vars

-----------------------------------------------------------------------------
\* The values of the fields of struct proc; and the process that holds wait_lock
\* runs, since sched() panics on a process that holds another lock than its own.
Xv6TypeOK ==
    /\ pstate \in [PSlot -> {"UNUSED", "USED", "SLEEPING", "RUNNABLE", "RUNNING", "ZOMBIE"}]
    /\ ppid \in [PSlot -> 0..MaxForks] /\ next_pid \in 1..MaxForks + 1
    /\ pparent \in [PSlot -> PSlot \cup {NoProc}] /\ child \in [PSlot -> PSlot \cup {NoProc}]
    /\ pkilled \in [PSlot -> BOOLEAN]
    /\ pchan \in [PSlot -> PSlot \cup {NoProc, DevChan}]
    /\ wait_lock \in PSlot \cup {NoProc} /\ ppc \in [PSlot -> PPC]
    /\ wait_lock # NoProc => pstate[wait_lock] = "RUNNING"

\* A process that runs or has run always has a parent that can still call
\* wait(), although fork() makes np visible before it sets np->parent.
ParentCanWait ==
    \A q \in PSlot \ {init6} : pstate[q] \notin {"UNUSED", "USED"} =>
        /\ pparent[q] \in PSlot
        /\ pstate[pparent[q]] \notin {"UNUSED", "USED", "ZOMBIE"}

\* wait_lock "helps ensure that wakeups of wait()ing parents are not lost": no
\* process, init included, sleeps in wait() while one of its children is a
\* ZOMBIE.
NoLostExit6 ==
    \A p \in PSlot : pstate[p] = "SLEEPING" /\ pchan[p] = p => Zombies(p) = {}

\* What wait_lock is for: every process has a parent that can wait for it, and
\* no parent sleeps through the exit of a child (fork, exit, wait).
WaitLockSound == ParentCanWait /\ NoLostExit6
=============================================================================
