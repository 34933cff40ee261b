-------------------------------- MODULE Proc --------------------------------
(***************************************************************************)
(* The process table of xv7/kernel/proc.c: fork, exit, wait, kill, sleep   *)
(* and the per-CPU scheduler, at the granularity of p->lock.               *)
(*                                                                         *)
(* A process slot is a number in 1..NProc (proc[0] of the code is slot 1,  *)
(* the slot userinit() gives to init); 0 is the null pointer.  A step of   *)
(* the model is the code from one acquire() of a p->lock to the next point *)
(* where the process can be observed: sections that hold one p->lock from  *)
(* acquire() to release() and touch only that slot are a single step,      *)
(* exit() and wait(), which hold several, are broken at each acquire().    *)
(* The locks that are always taken last (pid_lock, the allocator's, the    *)
(* file table's) protect nothing modelled here.                            *)
(***************************************************************************)
EXTENDS Integers, FiniteSets

CONSTANTS
    NProc,          \* size of the process table (param.h NPROC)
    CPU,            \* the harts
    NoCpu,          \* "no hart": the value of a free lock
    MaxPid,         \* BOUND: pids handed out before fork() is no longer tried
    KillPids,       \* the arguments user programs pass to kill()
    MemoryMayFail,  \* whether kalloc() and uvmcopy() may fail
    Timer           \* whether the timer interrupts processes

ASSUME ProcAssumption ==
    /\ NProc \in Nat \ {0}
    /\ NoCpu \notin CPU
    /\ MaxPid \in Nat \ {0}
    /\ KillPids \subseteq Nat
    /\ MemoryMayFail \in BOOLEAN
    /\ Timer \in BOOLEAN

Slot == 1..NProc
NULL == 0
initproc == 1

\* What sleep() is called on: wait() sleeps on the process's own address, every
\* other sleeper of the kernel on some device or file-system channel.
IoChan == NProc + 1

ProcState == {"UNUSED", "SLEEPING", "RUNNABLE", "RUNNING", "ZOMBIE"}

\* Where a kernel thread is.  "user" is user space, or kernel code that is not
\* modelled; the others name the acquire() the thread is about to perform.
PCs == {"user", "alloc", "kill", "io", "iosleep",
        "exitinit", "exitself", "exitparent", "exitlock", "reparent", "zombie",
        "wait", "waitscan", "waitsleep"}

\* Points at which the thread holds no spinlock, so that a timer interrupt can
\* make it yield() (usertrap() in user space, kerneltrap() in the kernel).
Preemptible == {"user", "alloc", "kill", "exitinit", "exitself", "exitparent", "wait"}

VARIABLES
    state, pid, parent, killed, chan,   \* the fields of struct proc
    lock,           \* p->lock: the CPU that holds it, or NoCpu
    running,        \* c->proc of struct cpu
    pc, idx, arg,   \* each kernel thread's program counter, loop index and local
    nextpid,
    killReq         \* history: the pids kill() has been called with

procVars   == <<state, pid, parent, killed, chan>>
schedVars  == <<lock, running>>
threadVars == <<pc, idx, arg>>
vars == <<procVars, schedVars, threadVars, nextpid, killReq>>

\* Names for the one local variable a thread needs besides its loop index.
original_parent(p) == arg[p]     \* in exit()
havekids(p)        == arg[p]     \* in wait()
target(p)          == arg[p]     \* in kill()

Free(q) == lock[q] = NoCpu

\* CPU c runs the thread of slot p, which is at the given label.
At(c, p, label) == running[c] = p /\ pc[p] = label

\* Control transfer of thread p.
Goto(p, label, i, a) ==
    /\ pc'  = [pc EXCEPT ![p] = label]
    /\ idx' = [idx EXCEPT ![p] = i]
    /\ arg' = [arg EXCEPT ![p] = a]

Return(p) == Goto(p, "user", 0, 0)

\* The loop over the process table: on to the next slot, or to label "done".
NextSlot(p, done) ==
    IF idx[p] < NProc THEN Goto(p, pc[p], idx[p] + 1, arg[p])
                      ELSE Goto(p, done, 0, 0)

\* userinit(), with every other slot as procinit() leaves it.
Init ==
    /\ state   = [p \in Slot |-> IF p = initproc THEN "RUNNABLE" ELSE "UNUSED"]
    /\ pid     = [p \in Slot |-> IF p = initproc THEN 1 ELSE 0]
    /\ parent  = [p \in Slot |-> NULL]
    /\ killed  = [p \in Slot |-> FALSE]
    /\ chan    = [p \in Slot |-> NULL]
    /\ lock    = [p \in Slot |-> NoCpu]
    /\ running = [c \in CPU |-> NULL]
    /\ pc      = [p \in Slot |-> "user"]
    /\ idx     = [p \in Slot |-> 0]
    /\ arg     = [p \in Slot |-> 0]
    /\ nextpid = 2
    /\ killReq = {}

-----------------------------------------------------------------------------
(***************************************************************************)
(* scheduler(), sched() and yield().                                       *)
(***************************************************************************)

\* One iteration of scheduler()'s loop that finds a RUNNABLE process, and the
\* process's code from its return out of swtch() to its next lock operation:
\* forkret() and yield() release p->lock, sleep() clears chan, and only wait()
\* goes on with p->lock held.
Scheduler(c, p) ==
    /\ running[c] = NULL
    /\ Free(p)
    /\ state[p] = "RUNNABLE"
    /\ state' = [state EXCEPT ![p] = "RUNNING"]
    /\ running' = [running EXCEPT ![c] = p]
    /\ CASE pc[p] = "waitsleep" ->
              /\ chan' = [chan EXCEPT ![p] = NULL]
              /\ lock' = [lock EXCEPT ![p] = c]
              /\ Goto(p, "waitscan", 1, 0)
         [] pc[p] = "iosleep" ->
              /\ chan' = [chan EXCEPT ![p] = NULL]
              /\ Return(p)
              /\ lock' = lock
         [] OTHER -> UNCHANGED <<chan, lock, threadVars>>
    /\ UNCHANGED <<pid, parent, killed, nextpid, killReq>>

\* sched() and the scheduler's release(&p->lock) after swtch(): the process has
\* set its state to s and gives up CPU c and its own lock.
Sched(c, p, s) ==
    /\ state' = [state EXCEPT ![p] = s]
    /\ running' = [running EXCEPT ![c] = NULL]

\* A timer interrupt: yield().  In user space a killed process exits instead.
Yield(c, p) ==
    /\ Timer
    /\ running[c] = p
    /\ pc[p] \in Preemptible
    /\ pc[p] = "user" => ~killed[p]
    /\ Free(p)
    /\ Sched(c, p, "RUNNABLE")
    /\ UNCHANGED <<pid, parent, killed, chan, lock, threadVars, nextpid, killReq>>

-----------------------------------------------------------------------------
(***************************************************************************)
(* fork() and allocproc().                                                 *)
(***************************************************************************)

\* A system call is entered only by a process that is not killed (usertrap()).
Syscall(c, p) == At(c, p, "user") /\ ~killed[p]

ForkCall(c, p) ==
    /\ Syscall(c, p)
    /\ nextpid + Cardinality({q \in Slot : pc[q] = "alloc"}) <= MaxPid
    /\ Goto(p, "alloc", 1, 0)
    /\ UNCHANGED <<procVars, schedVars, nextpid, killReq>>

\* allocproc() looks at slot idx: not UNUSED, go on to the next one.
AllocSkip(c, p) ==
    /\ At(c, p, "alloc")
    /\ Free(idx[p])
    /\ state[idx[p]] # "UNUSED"
    /\ NextSlot(p, "user")
    /\ UNCHANGED <<procVars, schedVars, nextpid, killReq>>

\* allocproc() finds slot idx UNUSED and fork() fills it in.  Like the code,
\* neither touches killed or chan of the slot.
ForkOk(c, p) ==
    LET np == idx[p] IN
    /\ At(c, p, "alloc")
    /\ Free(np)
    /\ state[np] = "UNUSED"
    /\ pid' = [pid EXCEPT ![np] = nextpid]
    /\ nextpid' = nextpid + 1
    /\ parent' = [parent EXCEPT ![np] = p]
    /\ state' = [state EXCEPT ![np] = "RUNNABLE"]
    /\ pc' = [pc EXCEPT ![p] = "user", ![np] = "user"]   \* context.ra = forkret
    /\ idx' = [idx EXCEPT ![p] = 0]
    /\ arg' = [arg EXCEPT ![p] = 0]
    /\ UNCHANGED <<killed, chan, schedVars, killReq>>

\* allocproc() fails to get a trapframe page: the slot stays UNUSED but keeps
\* the pid it was just given.
AllocNoTrapframe(c, p) ==
    LET np == idx[p] IN
    /\ MemoryMayFail
    /\ At(c, p, "alloc")
    /\ Free(np)
    /\ state[np] = "UNUSED"
    /\ pid' = [pid EXCEPT ![np] = nextpid]
    /\ nextpid' = nextpid + 1
    /\ Return(p)
    /\ UNCHANGED <<state, parent, killed, chan, schedVars, killReq>>

\* Mutant: freeproc() marks the slot with an invalid pid.
FreeProcBadPid(np) ==
    /\ pid' = [pid EXCEPT ![np] = -1]
    /\ parent' = [parent EXCEPT ![np] = NULL]
    /\ chan' = [chan EXCEPT ![np] = NULL]
    /\ killed' = [killed EXCEPT ![np] = FALSE]
    /\ state' = [state EXCEPT ![np] = "UNUSED"]

\* freeproc(np), with np->lock held.
FreeProc(np) ==
    /\ pid' = [pid EXCEPT ![np] = 0]
    /\ parent' = [parent EXCEPT ![np] = NULL]
    /\ chan' = [chan EXCEPT ![np] = NULL]
    /\ killed' = [killed EXCEPT ![np] = FALSE]
    /\ state' = [state EXCEPT ![np] = "UNUSED"]

\* uvmcopy() fails: fork() gives the slot back with freeproc().
ForkNoMemory(c, p) ==
    LET np == idx[p] IN
    /\ MemoryMayFail
    /\ At(c, p, "alloc")
    /\ Free(np)
    /\ state[np] = "UNUSED"
    /\ nextpid' = nextpid + 1
    /\ FreeProc(np)
    /\ Return(p)
    /\ UNCHANGED <<schedVars, killReq>>

-----------------------------------------------------------------------------
(***************************************************************************)
(* exit() and reparent().                                                  *)
(***************************************************************************)

\* wakeup1(q), with q->lock held: q runs again if it sleeps in wait().
Woken1(q) == state[q] = "SLEEPING" /\ chan[q] = q

\* exit(), called by the program or by usertrap() for a killed process.  Closing
\* the files and dropping cwd happen before any p->lock is taken.  init never
\* exits: the kernel panics.
ExitCall(c, p) ==
    /\ At(c, p, "user")
    /\ p # initproc
    /\ Goto(p, "exitinit", 0, 0)
    /\ UNCHANGED <<procVars, schedVars, nextpid, killReq>>

\* acquire(&initproc->lock); wakeup1(initproc); release(&initproc->lock)
ExitWakeInit(c, p) ==
    /\ At(c, p, "exitinit")
    /\ Free(initproc)
    /\ state' = IF Woken1(initproc) THEN [state EXCEPT ![initproc] = "RUNNABLE"] ELSE state
    /\ Goto(p, "exitself", 0, 0)
    /\ UNCHANGED <<pid, parent, killed, chan, schedVars, nextpid, killReq>>

\* Read p->parent under p->lock, then let the lock go.
ExitReadParent(c, p) ==
    /\ At(c, p, "exitself")
    /\ Free(p)
    /\ Goto(p, "exitparent", 0, parent[p])
    /\ UNCHANGED <<procVars, schedVars, nextpid, killReq>>

\* Mutant: exit() wakes and becomes ZOMBIE without the parent's lock.
ExitLockParentNot(c, p) ==
    /\ At(c, p, "exitparent")
    /\ Goto(p, "exitlock", 0, original_parent(p))
    /\ UNCHANGED <<procVars, schedVars, nextpid, killReq>>

ExitLockParent(c, p) ==
    /\ At(c, p, "exitparent")
    /\ Free(original_parent(p))
    /\ lock' = [lock EXCEPT ![original_parent(p)] = c]
    /\ Goto(p, "exitlock", 0, original_parent(p))
    /\ UNCHANGED <<procVars, running, nextpid, killReq>>

ExitLockSelf(c, p) ==
    /\ At(c, p, "exitlock")
    /\ Free(p)
    /\ lock' = [lock EXCEPT ![p] = c]
    /\ Goto(p, "reparent", 1, original_parent(p))
    /\ UNCHANGED <<procVars, running, nextpid, killReq>>

\* Mutant: reparent()'s loop misses the last slot.
ReparentNextShort(p) ==
    IF idx[p] < NProc - 1 THEN Goto(p, "reparent", idx[p] + 1, original_parent(p))
                          ELSE Goto(p, "zombie", 0, original_parent(p))

\* After the last slot, reparent() returns to exit() with both locks held.
ReparentNext(p) ==
    IF idx[p] < NProc THEN Goto(p, "reparent", idx[p] + 1, original_parent(p))
                      ELSE Goto(p, "zombie", 0, original_parent(p))

\* reparent() at slot idx: parent is read without the slot's lock.
ReparentSkip(c, p) ==
    /\ At(c, p, "reparent")
    /\ parent[idx[p]] # p
    /\ ReparentNext(p)
    /\ UNCHANGED <<procVars, schedVars, nextpid, killReq>>

ReparentChild(c, p) ==
    /\ At(c, p, "reparent")
    /\ parent[idx[p]] = p
    /\ Free(idx[p])
    /\ parent' = [parent EXCEPT ![idx[p]] = initproc]
    /\ ReparentNext(p)
    /\ UNCHANGED <<state, pid, killed, chan, schedVars, nextpid, killReq>>

\* Mutant: exit() forgets release(&original_parent->lock).
ExitZombieKeepsLock(c, p) ==
    LET op == original_parent(p) IN
    /\ At(c, p, "zombie")
    /\ state' = IF Woken1(op) THEN [state EXCEPT ![op] = "RUNNABLE", ![p] = "ZOMBIE"]
                              ELSE [state EXCEPT ![p] = "ZOMBIE"]
    /\ lock' = [lock EXCEPT ![p] = NoCpu]
    /\ running' = [running EXCEPT ![c] = NULL]
    /\ Goto(p, "zombie", 0, 0)
    /\ UNCHANGED <<pid, parent, killed, chan, nextpid, killReq>>

\* wakeup1(original_parent); ZOMBIE; release the parent's lock; sched(), after
\* which the scheduler releases p->lock.
ExitZombie(c, p) ==
    LET op == original_parent(p) IN
    /\ At(c, p, "zombie")
    /\ state' = IF Woken1(op) THEN [state EXCEPT ![op] = "RUNNABLE", ![p] = "ZOMBIE"]
                              ELSE [state EXCEPT ![p] = "ZOMBIE"]
    /\ lock' = [lock EXCEPT ![op] = NoCpu, ![p] = NoCpu]
    /\ running' = [running EXCEPT ![c] = NULL]
    /\ Goto(p, "zombie", 0, 0)
    /\ UNCHANGED <<pid, parent, killed, chan, nextpid, killReq>>

-----------------------------------------------------------------------------
(***************************************************************************)
(* wait().                                                                 *)
(***************************************************************************)

\* wait() takes its own lock and keeps it for the whole scan.
WaitCall(c, p) ==
    /\ Syscall(c, p)
    /\ Goto(p, "wait", 0, 0)
    /\ UNCHANGED <<procVars, schedVars, nextpid, killReq>>

WaitLock(c, p) ==
    /\ At(c, p, "wait")
    /\ Free(p)
    /\ lock' = [lock EXCEPT ![p] = c]
    /\ Goto(p, "waitscan", 1, 0)
    /\ UNCHANGED <<procVars, running, nextpid, killReq>>

WaitSkip(c, p) ==
    /\ At(c, p, "waitscan")
    /\ idx[p] \in Slot
    /\ parent[idx[p]] # p
    /\ Goto(p, "waitscan", idx[p] + 1, havekids(p))
    /\ UNCHANGED <<procVars, schedVars, nextpid, killReq>>

\* A child that has not exited.
WaitChild(c, p) ==
    /\ At(c, p, "waitscan")
    /\ idx[p] \in Slot
    /\ parent[idx[p]] = p
    /\ Free(idx[p])
    /\ state[idx[p]] # "ZOMBIE"
    /\ Goto(p, "waitscan", idx[p] + 1, 1)
    /\ UNCHANGED <<procVars, schedVars, nextpid, killReq>>

\* Mutant: wait() reaps any zombie it meets, not only its own children.
WaitReapAny(c, p) ==
    /\ At(c, p, "waitscan")
    /\ idx[p] \in Slot
    /\ Free(idx[p])
    /\ state[idx[p]] = "ZOMBIE"
    /\ FreeProc(idx[p])
    /\ lock' = [lock EXCEPT ![p] = NoCpu]
    /\ Return(p)
    /\ UNCHANGED <<running, nextpid, killReq>>

\* A zombie child: reap it and return its pid.
WaitReap(c, p) ==
    /\ At(c, p, "waitscan")
    /\ idx[p] \in Slot
    /\ parent[idx[p]] = p
    /\ Free(idx[p])
    /\ state[idx[p]] = "ZOMBIE"
    /\ FreeProc(idx[p])
    /\ lock' = [lock EXCEPT ![p] = NoCpu]
    /\ Return(p)
    /\ UNCHANGED <<running, nextpid, killReq>>

\* A zombie child, but copyout() of its status fails: -1, and nothing is reaped.
WaitCopyoutFails(c, p) ==
    /\ At(c, p, "waitscan")
    /\ idx[p] \in Slot
    /\ parent[idx[p]] = p
    /\ Free(idx[p])
    /\ state[idx[p]] = "ZOMBIE"
    /\ p # initproc                            \* init calls wait(0): no copyout
    /\ lock' = [lock EXCEPT ![p] = NoCpu]
    /\ Return(p)
    /\ UNCHANGED <<procVars, running, nextpid, killReq>>

\* No children, or killed: return -1.
WaitNone(c, p) ==
    /\ At(c, p, "waitscan")
    /\ idx[p] = NProc + 1
    /\ havekids(p) = 0 \/ killed[p]
    /\ lock' = [lock EXCEPT ![p] = NoCpu]
    /\ Return(p)
    /\ UNCHANGED <<procVars, running, nextpid, killReq>>

\* sleep(p, &p->lock): the lock is kept until the scheduler releases it.
WaitSleep(c, p) ==
    /\ At(c, p, "waitscan")
    /\ idx[p] = NProc + 1
    /\ havekids(p) = 1 /\ ~killed[p]
    /\ chan' = [chan EXCEPT ![p] = p]
    /\ Sched(c, p, "SLEEPING")
    /\ lock' = [lock EXCEPT ![p] = NoCpu]
    /\ Goto(p, "waitsleep", 0, 0)
    /\ UNCHANGED <<pid, parent, killed, nextpid, killReq>>

-----------------------------------------------------------------------------
(***************************************************************************)
(* sleep() on another channel, wakeup() and kill().                        *)
(***************************************************************************)

\* A kernel loop "while(no data){ if(killed) return -1; sleep(chan, lk); }" has
\* found nothing to do and read killed, without p->lock but holding lk.
IoCheck(c, p) ==
    /\ Syscall(c, p)
    /\ Goto(p, "io", 0, 0)
    /\ UNCHANGED <<procVars, schedVars, nextpid, killReq>>

IoSleep(c, p) ==
    /\ At(c, p, "io")
    /\ Free(p)
    /\ chan' = [chan EXCEPT ![p] = IoChan]
    /\ Sched(c, p, "SLEEPING")
    /\ Goto(p, "iosleep", 0, 0)
    /\ UNCHANGED <<pid, parent, killed, lock, nextpid, killReq>>

\* wakeup(IoChan) from a device interrupt or another process, at slot p.
Wakeup(p) ==
    /\ Free(p)
    /\ state[p] = "SLEEPING" /\ chan[p] = IoChan
    /\ state' = [state EXCEPT ![p] = "RUNNABLE"]
    /\ UNCHANGED <<pid, parent, killed, chan, schedVars, threadVars, nextpid, killReq>>

KillCall(c, p) ==
    /\ Syscall(c, p)
    /\ \E n \in KillPids :
         /\ Goto(p, "kill", 1, n)
         /\ killReq' = killReq \cup {n}
    /\ UNCHANGED <<procVars, schedVars, nextpid>>

KillSkip(c, p) ==
    /\ At(c, p, "kill")
    /\ Free(idx[p])
    /\ pid[idx[p]] # target(p)
    /\ NextSlot(p, "user")
    /\ UNCHANGED <<procVars, schedVars, nextpid, killReq>>

\* Mutant: kill() does not wake a sleeping victim.
KillMatchNoWake(c, p) ==
    LET q == idx[p] IN
    /\ At(c, p, "kill")
    /\ Free(q)
    /\ pid[q] = target(p)
    /\ killed' = [killed EXCEPT ![q] = TRUE]
    /\ Return(p)
    /\ UNCHANGED <<state, pid, parent, chan, schedVars, nextpid, killReq>>

\* kill() finds the pid; the slot's state is not looked at except to wake it.
KillMatch(c, p) ==
    LET q == idx[p] IN
    /\ At(c, p, "kill")
    /\ Free(q)
    /\ pid[q] = target(p)
    /\ killed' = [killed EXCEPT ![q] = TRUE]
    /\ state' = IF state[q] = "SLEEPING" THEN [state EXCEPT ![q] = "RUNNABLE"] ELSE state
    /\ Return(p)
    /\ UNCHANGED <<pid, parent, chan, schedVars, nextpid, killReq>>

-----------------------------------------------------------------------------

\* What the process p that runs on CPU c does next in the kernel.
Kernel(c, p) ==
    \/ AllocSkip(c, p) \/ ForkOk(c, p) \/ AllocNoTrapframe(c, p) \/ ForkNoMemory(c, p)
    \/ ExitWakeInit(c, p) \/ ExitReadParent(c, p) \/ ExitLockParent(c, p)
    \/ ExitLockSelf(c, p) \/ ReparentSkip(c, p) \/ ReparentChild(c, p) \/ ExitZombie(c, p)
    \/ WaitLock(c, p) \/ WaitSkip(c, p) \/ WaitChild(c, p) \/ WaitReap(c, p)
    \/ WaitCopyoutFails(c, p) \/ WaitNone(c, p) \/ WaitSleep(c, p)
    \/ IoSleep(c, p) \/ KillSkip(c, p) \/ KillMatch(c, p)

\* What its program may ask for.
User(c, p) ==
    \/ ForkCall(c, p) \/ ExitCall(c, p) \/ WaitCall(c, p) \/ IoCheck(c, p) \/ KillCall(c, p)

Next ==
    \/ \E c \in CPU, p \in Slot : Scheduler(c, p) \/ Kernel(c, p) \/ User(c, p) \/ Yield(c, p)
    \/ \E p \in Slot : Wakeup(p)

Spec == Init /\ [][Next]_vars

\* Fairness, for instances with a CPU for every slot but init's, which sleeps in
\* wait() while it has nothing to reap: a RUNNABLE
\* process is dispatched, since scheduler() visits every slot in turn; a system
\* call goes on, its acquire() spinning until it gets a lock that is released
\* again and again (strong fairness: others may take it in between); a killed
\* process traps and exits; a device that is waited for answers; and init
\* loops on wait() (user/init.c).  No other program need ever exit, wait or do
\* anything at all.
Fairness ==
    /\ \A p \in Slot :
         /\ WF_vars(\E c \in CPU : Scheduler(c, p))
         /\ SF_vars(\E c \in CPU : Kernel(c, p))
         /\ WF_vars(\E c \in CPU : killed[p] /\ ExitCall(c, p))
         /\ WF_vars(Wakeup(p))
    /\ SF_vars(\E c \in CPU : WaitCall(c, initproc))

FairSpec == Spec /\ Fairness
-----------------------------------------------------------------------------
(***************************************************************************)
(* Properties.                                                             *)
(***************************************************************************)

\* The values of the fields of struct proc and struct cpu.
TypeOK ==
    /\ state \in [Slot -> ProcState]
    /\ pid \in [Slot -> Nat]
    /\ parent \in [Slot -> Slot \cup {NULL}]
    /\ killed \in [Slot -> BOOLEAN]
    /\ chan \in [Slot -> Slot \cup {NULL, IoChan}]
    /\ lock \in [Slot -> CPU \cup {NoCpu}]
    /\ running \in [CPU -> Slot \cup {NULL}]
    /\ pc \in [Slot -> PCs]
    /\ idx \in [Slot -> 0..NProc + 1]
    /\ arg \in [Slot -> Nat]
    /\ nextpid \in Nat
    /\ killReq \subseteq Nat

\* The locks the thread in slot p holds at a program counter and local value.
HeldAt(p, label, a) ==
    CASE label = "exitlock" -> {a}
      [] label \in {"reparent", "zombie"} -> {a, p}
      [] label = "waitscan" -> {p}
      [] OTHER -> {}

Held(p) == HeldAt(p, pc[p], arg[p])

\* The lock the thread in slot p spins on before it can go on, if any.
Wanted(p) ==
    CASE pc[p] = "exitinit" -> {initproc}
      [] pc[p] \in {"exitself", "exitlock", "wait", "io"} -> {p}
      [] pc[p] = "exitparent" -> {original_parent(p)}
      [] pc[p] \in {"alloc", "kill"} -> {idx[p]}
      [] pc[p] \in {"reparent", "waitscan"} ->
            {q \in Slot : q = idx[p] /\ parent[q] = p}
      [] OTHER -> {}

\* A process is RUNNING exactly while one CPU, and only one, has it as c->proc,
\* and a p->lock is held exactly by the CPU whose process is at a point of
\* exit() or wait() where the code holds it: no lock is left behind by sched(),
\* which panics ("sched locks") when a process gives up its CPU with one.
RunningUnique ==
    \A c, d \in CPU : running[c] = running[d] /\ running[c] # NULL => c = d

RunningOnCpu ==
    \A p \in Slot : state[p] = "RUNNING" <=> \E c \in CPU : running[c] = p

LockHeld ==
    \A q \in Slot, c \in CPU :
        lock[q] = c <=> \E p \in Slot : running[c] = p /\ q \in Held(p)

SchedDiscipline == RunningUnique /\ RunningOnCpu /\ LockHeld

\* Every process but init has a parent that can still call wait(): exit() hands
\* its children to init before it becomes a ZOMBIE, even though reparent()
\* reads pp->parent without pp->lock while other processes fork and exit.
NoOrphan ==
    \A q \in Slot : state[q] # "UNUSED" /\ q # initproc =>
        /\ parent[q] \in Slot
        /\ state[parent[q]] \notin {"UNUSED", "ZOMBIE"}

\* wait() does not miss the exit() of a child: no process other than init sleeps
\* in wait() while one of its children is a ZOMBIE.
NoLostExit ==
    \A p \in Slot \ {initproc}, q \in Slot :
        state[p] = "SLEEPING" /\ chan[p] = p /\ parent[q] = p => state[q] # "ZOMBIE"

\* The same for init, which the comments of exit() and reparent() claim to take
\* care of by waking init at the start of every exit(): an orphan that is a
\* ZOMBIE is eventually reaped, since init calls wait() again and again.
OrphansReaped ==
    \A q \in Slot : state[q] = "ZOMBIE" /\ parent[q] = initproc ~> state[q] = "UNUSED"

\* A killed process dies, wherever kill() finds it: in user space, spinning,
\* asleep in wait() or on a device, or between two of these (kill() takes p->lock
\* and wait() reads killed under it, other sleepers read it before they lock).
KilledDies ==
    \A p \in Slot \ {initproc} :
        killed[p] /\ state[p] # "UNUSED" ~> state[p] \in {"ZOMBIE", "UNUSED"}

\* A process is killed only if kill() was called with its pid (kill()'s comment:
\* "Kill the process with the given pid").
KilledOnPurpose ==
    \A p \in Slot : state[p] # "UNUSED" /\ killed[p] => pid[p] \in killReq

\* No set of CPUs spins on locks held by each other.
NoLockCycle ==
    \A S \in SUBSET CPU : S # {} =>
        \E c \in S :
            \/ running[c] = NULL
            \/ \A q \in Wanted(running[c]) : lock[q] \notin S

\* The comment of wait() and reparent() that justifies reading np->parent
\* without np->lock, "only the parent changes it": parent[q] changes only from
\* a p that is itself in wait() or reparent(), or to the process in fork().
ParentChange(q) ==
    parent'[q] # parent[q] =>
        IF parent[q] \in Slot
        THEN pc[parent[q]] \in {"reparent", "waitscan"} /\ state[parent[q]] = "RUNNING"
        ELSE pc[parent'[q]] = "alloc" /\ state[parent'[q]] = "RUNNING"

ParentStable == [][\A q \in Slot : ParentChange(q)]_vars
=============================================================================
