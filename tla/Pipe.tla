-------------------------------- MODULE Pipe --------------------------------
(***************************************************************************)
(* A pipe of xv7/kernel/pipe.c shared by the processes that hold its ends, *)
(* with the parts of file.c (fileclose), proc.c (sleep, wakeup, kill) and  *)
(* fork's filedup() that act on it.                                        *)
(*                                                                         *)
(* pi->lock is explicit.  nread and nwrite are uints: they count modulo    *)
(* UMax, the number of values of the type, which PIPESIZE divides.         *)
(***************************************************************************)
EXTENDS Integers, FiniteSets, Sequences

CONSTANTS
    Process,    \* the processes that may hold an end of the pipe
    Creator,    \* the one that called pipe()
    NoProcess,  \* the value of a free pi->lock
    Byte,       \* the byte values programs write
    PIPESIZE,
    UMax,       \* number of values of a uint (2^32 in the code)
    MaxN,       \* BOUND: the largest n a program passes to read() or write()
    Killable    \* BOUND: the processes somebody may kill

ASSUME PipeAssumption ==
    /\ Creator \in Process
    /\ NoProcess \notin Process
    /\ Byte # {}
    /\ PIPESIZE \in Nat \ {0}
    /\ UMax \in Nat
    /\ UMax > PIPESIZE
    /\ UMax % PIPESIZE = 0
    /\ MaxN \in Nat
    /\ Killable \subseteq Process

VARIABLES
    data, nread, nwrite, readopen, writeopen,   \* struct pipe
    lock,           \* pi->lock: the process that holds it, or NoProcess
    freed,          \* the pipe's page has been given back with kfree()
    rfd, wfd,       \* the processes that hold a reference to each struct file
    pc, todo,       \* of each process: where it is, and the n - i of its call
    chan,           \* what it sleeps on
    killed

pipeVars == <<data, nread, nwrite, readopen, writeopen>>
fdVars   == <<rfd, wfd>>
procVars == <<pc, todo, chan, killed>>
pipeSysVars == <<pipeVars, lock, freed, fdVars, procVars>>

\* Where a process is: outside the pipe's code, spinning for pi->lock on behalf
\* of a call, or inside the call with the lock held.
PCs == {"idle", "wlock", "wloop", "wsleep", "rlock", "rwait", "rsleep", "rloop",
        "closeR", "closeW"}

Channel == {"none", "nread", "nwrite"}

\* Mutant: the counter is not a uint but grows without bound.
IncWide(x) == x + 1

Inc(x) == (x + 1) % UMax

\* Mutant: the sum is computed in a wider type than the counters'.
FullWide == nwrite = nread + PIPESIZE

Full == nwrite = (nread + PIPESIZE) % UMax

Empty == nread = nwrite

\* Runnable, i.e. not asleep.
Awake(p) == chan[p] = "none"

\* wakeup(c): everyone asleep on c becomes RUNNABLE.
Wakeup(c) == chan' = [p \in Process |-> IF chan[p] = c THEN "none" ELSE chan[p]]

Unlock == lock' = NoProcess

Goto(p, label) == pc' = [pc EXCEPT ![p] = label]

\* pipealloc(), called by Creator.
PipeInit ==
    /\ data = [k \in 0..PIPESIZE - 1 |-> CHOOSE b \in Byte : TRUE]
    /\ nread = 0 /\ nwrite = 0
    /\ readopen = TRUE /\ writeopen = TRUE
    /\ lock = NoProcess
    /\ freed = FALSE
    /\ rfd = {Creator} /\ wfd = {Creator}
    /\ pc = [p \in Process |-> "idle"]
    /\ todo = [p \in Process |-> 0]
    /\ chan = [p \in Process |-> "none"]
    /\ killed = [p \in Process |-> FALSE]

-----------------------------------------------------------------------------
(***************************************************************************)
(* Entering and leaving the pipe's code.                                   *)
(***************************************************************************)

\* fork(): filedup() of both ends for a process that holds neither.
Fork(p, q) ==
    /\ pc[p] = "idle" /\ ~killed[p]
    /\ p \in rfd \cup wfd
    /\ pc[q] = "idle" /\ ~killed[q] /\ q \notin rfd \cup wfd
    /\ rfd' = IF p \in rfd THEN rfd \cup {q} ELSE rfd
    /\ wfd' = IF p \in wfd THEN wfd \cup {q} ELSE wfd
    /\ UNCHANGED <<pipeVars, lock, freed, procVars>>

WriteCall(p, m) ==
    /\ pc[p] = "idle" /\ ~killed[p] /\ p \in wfd
    /\ Goto(p, "wlock")
    /\ todo' = [todo EXCEPT ![p] = m]
    /\ UNCHANGED <<pipeVars, lock, freed, fdVars, chan, killed>>

ReadCall(p, m) ==
    /\ pc[p] = "idle" /\ ~killed[p] /\ p \in rfd
    /\ Goto(p, "rlock")
    /\ todo' = [todo EXCEPT ![p] = m]
    /\ UNCHANGED <<pipeVars, lock, freed, fdVars, chan, killed>>

\* acquire(&pi->lock), at the start of a call or at the end of sleep().
Acquire(p) ==
    /\ pc[p] \in {"wlock", "rlock"}
    /\ Awake(p)
    /\ lock = NoProcess
    /\ lock' = p
    /\ Goto(p, IF pc[p] = "wlock" THEN "wloop" ELSE "rwait")
    /\ UNCHANGED <<pipeVars, freed, fdVars, todo, chan, killed>>

\* release(&pi->lock); return.
Leave(p) == Unlock /\ Goto(p, "idle") /\ todo' = [todo EXCEPT ![p] = 0]

\* sleep(c, &pi->lock): the process is asleep when the lock is released, and
\* starts over by acquiring it.  kill() may strike before it, not in between.
SleepOn(p, c, label) ==
    /\ chan' = [chan EXCEPT ![p] = c]
    /\ Unlock
    /\ Goto(p, label)
    /\ UNCHANGED <<pipeVars, freed, fdVars, todo, killed>>

-----------------------------------------------------------------------------
(***************************************************************************)
(* pipewrite().                                                            *)
(***************************************************************************)

\* The pipe is full and nobody will read, or the writer is killed: -1.
WriteFails(p) ==
    /\ pc[p] = "wloop" /\ todo[p] > 0
    /\ Full
    /\ ~readopen \/ killed[p]
    /\ Leave(p)
    /\ UNCHANGED <<pipeVars, freed, fdVars, chan, killed>>

\* The pipe is full: wake the readers and go to sleep.
WriteBlocks(p) ==
    /\ pc[p] = "wloop" /\ todo[p] > 0
    /\ Full
    /\ readopen /\ ~killed[p]
    /\ Wakeup("nread")
    /\ Goto(p, "wsleep")
    /\ UNCHANGED <<pipeVars, lock, freed, fdVars, todo, killed>>

WriteSleep(p) ==
    /\ pc[p] = "wsleep"
    /\ SleepOn(p, "nwrite", "wlock")

WriteByte(p, b) ==
    /\ pc[p] = "wloop" /\ todo[p] > 0
    /\ ~Full
    /\ data' = [data EXCEPT ![nwrite % PIPESIZE] = b]
    /\ nwrite' = Inc(nwrite)
    /\ todo' = [todo EXCEPT ![p] = @ - 1]
    /\ UNCHANGED <<nread, readopen, writeopen, lock, freed, fdVars, pc, chan, killed>>

\* The loop is over, or copyin() of the next byte fails: wake the readers.
WriteEnd(p) ==
    /\ pc[p] = "wloop"
    /\ todo[p] = 0 \/ ~Full
    /\ Wakeup("nread")
    /\ Leave(p)
    /\ UNCHANGED <<pipeVars, freed, fdVars, killed>>

-----------------------------------------------------------------------------
(***************************************************************************)
(* piperead().                                                             *)
(***************************************************************************)

ReadFails(p) ==
    /\ pc[p] = "rwait"
    /\ Empty /\ writeopen
    /\ killed[p]
    /\ Leave(p)
    /\ UNCHANGED <<pipeVars, freed, fdVars, chan, killed>>

ReadBlocks(p) ==
    /\ pc[p] = "rwait"
    /\ Empty /\ writeopen
    /\ ~killed[p]
    /\ Goto(p, "rsleep")
    /\ UNCHANGED <<pipeVars, lock, freed, fdVars, todo, chan, killed>>

ReadSleep(p) ==
    /\ pc[p] = "rsleep"
    /\ SleepOn(p, "nread", "rlock")

\* There is something to read, or nobody will ever write.
ReadStarts(p) ==
    /\ pc[p] = "rwait"
    /\ ~(Empty /\ writeopen)
    /\ Goto(p, "rloop")
    /\ UNCHANGED <<pipeVars, lock, freed, fdVars, todo, chan, killed>>

ReadByte(p) ==
    /\ pc[p] = "rloop" /\ todo[p] > 0
    /\ ~Empty
    /\ nread' = Inc(nread)
    /\ todo' = [todo EXCEPT ![p] = @ - 1]
    /\ UNCHANGED <<data, nwrite, readopen, writeopen, lock, freed, fdVars, pc, chan, killed>>

\* copyout() fails: the byte has already been taken out of the pipe.
ReadFaults(p) ==
    /\ pc[p] = "rloop" /\ todo[p] > 0
    /\ ~Empty
    /\ nread' = Inc(nread)
    /\ Wakeup("nwrite")
    /\ Leave(p)
    /\ UNCHANGED <<data, nwrite, readopen, writeopen, freed, fdVars, killed>>

\* Mutant: no wakeup(&pi->nwrite) at the end of piperead().
ReadEndSilent(p) ==
    /\ pc[p] = "rloop"
    /\ todo[p] = 0 \/ Empty
    /\ Leave(p)
    /\ UNCHANGED <<pipeVars, freed, fdVars, chan, killed>>

ReadEnd(p) ==
    /\ pc[p] = "rloop"
    /\ todo[p] = 0 \/ Empty
    /\ Wakeup("nwrite")
    /\ Leave(p)
    /\ UNCHANGED <<pipeVars, freed, fdVars, killed>>

-----------------------------------------------------------------------------
(***************************************************************************)
(* fileclose(), pipeclose() and kill().                                    *)
(***************************************************************************)

\* Mutant: fileclose() does not look at the reference count.
CloseReadFileAlways(p) ==
    /\ pc[p] = "idle" /\ p \in rfd
    /\ rfd' = rfd \ {p}
    /\ Goto(p, "closeR")
    /\ UNCHANGED <<pipeVars, lock, freed, wfd, todo, chan, killed>>

\* fileclose(): the reference goes; the last one leads to pipeclose(), which
\* has yet to acquire pi->lock.  exit() closes both ends this way.
CloseReadFile(p) ==
    /\ pc[p] = "idle" /\ p \in rfd
    /\ rfd' = rfd \ {p}
    /\ IF rfd = {p} THEN Goto(p, "closeR") ELSE UNCHANGED pc
    /\ UNCHANGED <<pipeVars, lock, freed, wfd, todo, chan, killed>>

CloseWriteFile(p) ==
    /\ pc[p] = "idle" /\ p \in wfd
    /\ wfd' = wfd \ {p}
    /\ IF wfd = {p} THEN Goto(p, "closeW") ELSE UNCHANGED pc
    /\ UNCHANGED <<pipeVars, lock, freed, rfd, todo, chan, killed>>

\* Mutant: pipeclose() wakes the wrong end of the pipe.
CloseWriteEndWrong(p) ==
    /\ pc[p] = "closeW"
    /\ lock = NoProcess
    /\ writeopen' = FALSE
    /\ Wakeup("nwrite")
    /\ freed' = (freed \/ ~readopen)
    /\ Goto(p, "idle")
    /\ UNCHANGED <<data, nread, nwrite, readopen, lock, fdVars, todo, killed>>

\* pipeclose(pi, 0)
CloseReadEnd(p) ==
    /\ pc[p] = "closeR"
    /\ lock = NoProcess
    /\ readopen' = FALSE
    /\ Wakeup("nwrite")
    /\ freed' = (freed \/ ~writeopen)
    /\ Goto(p, "idle")
    /\ UNCHANGED <<data, nread, nwrite, writeopen, lock, fdVars, todo, killed>>

\* pipeclose(pi, 1)
CloseWriteEnd(p) ==
    /\ pc[p] = "closeW"
    /\ lock = NoProcess
    /\ writeopen' = FALSE
    /\ Wakeup("nread")
    /\ freed' = (freed \/ ~readopen)
    /\ Goto(p, "idle")
    /\ UNCHANGED <<data, nread, nwrite, readopen, lock, fdVars, todo, killed>>

\* kill() takes only p->lock: it can come at any time.
Kill(p) ==
    /\ p \in Killable /\ ~killed[p]
    /\ killed' = [killed EXCEPT ![p] = TRUE]
    /\ chan' = [chan EXCEPT ![p] = "none"]
    /\ UNCHANGED <<pipeVars, lock, freed, fdVars, pc, todo>>

-----------------------------------------------------------------------------

\* A step of a call that process p has made.
Step(p) ==
    \/ Acquire(p)
    \/ WriteFails(p) \/ WriteBlocks(p) \/ WriteSleep(p) \/ (\E b \in Byte : WriteByte(p, b))
    \/ WriteEnd(p)
    \/ ReadFails(p) \/ ReadBlocks(p) \/ ReadSleep(p) \/ ReadStarts(p) \/ ReadByte(p)
    \/ ReadFaults(p) \/ ReadEnd(p)
    \/ CloseReadEnd(p) \/ CloseWriteEnd(p)

\* What a program may do next.
Program(p) ==
    \/ \E q \in Process : Fork(p, q)
    \/ \E m \in 0..MaxN : WriteCall(p, m) \/ ReadCall(p, m)
    \/ CloseReadFile(p) \/ CloseWriteFile(p)

PipeNext == \E p \in Process : Step(p) \/ Program(p) \/ Kill(p)

\* The scheduler runs every process that is awake and the spinlock is obtained
\* eventually; no program need ever read, write or close.
PipeFairness == \A p \in Process : SF_pipeSysVars(Step(p))

PipeSpec == PipeInit /\ [][PipeNext]_pipeSysVars /\ PipeFairness

-----------------------------------------------------------------------------
(***************************************************************************)
(* Properties.                                                             *)
(***************************************************************************)

\* The values of struct pipe and of the processes' locals.
PipeTypeOK ==
    /\ data \in [0..PIPESIZE - 1 -> Byte]
    /\ nread \in 0..UMax - 1 /\ nwrite \in 0..UMax - 1
    /\ readopen \in BOOLEAN /\ writeopen \in BOOLEAN
    /\ lock \in Process \cup {NoProcess}
    /\ freed \in BOOLEAN
    /\ rfd \subseteq Process /\ wfd \subseteq Process
    /\ pc \in [Process -> PCs]
    /\ todo \in [Process -> 0..MaxN]
    /\ chan \in [Process -> Channel]
    /\ killed \in [Process -> BOOLEAN]

\* The bytes in the pipe, oldest first, as the ring buffer and the two wrapping
\* counters encode them.
Used == (nwrite - nread) % UMax
Contents == [k \in 1..Used |-> data[((nread + k - 1) % UMax) % PIPESIZE]]

\* The pipe is a bounded FIFO queue: wrap-around of the counters, of the ring
\* buffer, or both, never loses, repeats or reorders a byte (pipewrite() and
\* piperead()), and no process writes after the last close of the write end.
Fifo == INSTANCE BoundedFifo WITH q <- Contents, Capacity <- PIPESIZE
ImplementsFifo == Fifo!Spec

\* pipeclose() frees the page only when nobody can still be in the pipe's code:
\* not a sleeper, not one that spins for pi->lock, not another closer.
NoUseAfterFree == freed => \A p \in Process : pc[p] = "idle"

\* Nobody sleeps without a reason once pi->lock is free: a writer only when the
\* pipe is full and can be read, a reader only when it is empty and can be
\* written.  The one exception is the early return of pipewrite(): a killed
\* writer that filled the pipe leaves without waking the readers.
NoLostWakeup ==
    lock = NoProcess =>
        \A p \in Process :
            /\ chan[p] = "nwrite" => Full /\ readopen
            /\ chan[p] = "nread" =>
                  \/ Empty /\ writeopen
                  \/ \E w \in Process : killed[w]

\* The last close of the write end ends every read() in progress, and the last
\* close of the read end every write().
ReadersReturn ==
    \A p \in Process :
        ~writeopen /\ pc[p] \in {"rlock", "rwait", "rsleep", "rloop"} ~> pc[p] = "idle"

WritersReturn ==
    \A p \in Process :
        ~readopen /\ pc[p] \in {"wlock", "wloop", "wsleep"} ~> pc[p] = "idle"

\* No call on a pipe outlives the other end (pipeclose's wakeups).
PipeCallsReturn == ReadersReturn /\ WritersReturn
=============================================================================
