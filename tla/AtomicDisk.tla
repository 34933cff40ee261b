----------------------------- MODULE AtomicDisk -----------------------------
(***************************************************************************)
(* What the logging layer promises to the file system: system calls write  *)
(* blocks in memory, one process at a time to a block; now and then, when  *)
(* no call is in progress, everything written so far becomes durable at    *)
(* once; nothing but a write and a crash changes memory, and a crash takes *)
(* it back to what is durable.                                             *)
(***************************************************************************)
EXTENDS Naturals

CONSTANTS Process, Block, NoBlock, Val

VARIABLES
    mem,        \* what the file system reads and writes
    durable,    \* what a crash leaves behind
    active,     \* the processes inside a file-system call
    writing,    \* the block each process is writing, or NoBlock
    epoch       \* the number of crashes so far

vars == <<mem, durable, active, writing, epoch>>

Init ==
    /\ mem \in [Block -> Val] /\ durable = mem
    /\ active = {} /\ writing = [p \in Process |-> NoBlock]
    /\ epoch = 0

Begin(p) ==
    /\ p \notin active
    /\ active' = active \cup {p}
    /\ UNCHANGED <<mem, durable, writing, epoch>>

Write(p, b, v) ==
    /\ p \in active
    /\ writing[p] = NoBlock /\ \A q \in Process : writing[q] # b
    /\ writing' = [writing EXCEPT ![p] = b]
    /\ mem' = [mem EXCEPT ![b] = v]
    /\ UNCHANGED <<durable, active, epoch>>

Written(p) ==
    /\ writing[p] # NoBlock
    /\ writing' = [writing EXCEPT ![p] = NoBlock]
    /\ UNCHANGED <<mem, durable, active, epoch>>

End(p) ==
    /\ p \in active /\ writing[p] = NoBlock
    /\ active' = active \ {p}
    /\ UNCHANGED <<mem, durable, writing, epoch>>

Commit == active = {} /\ durable' = mem /\ UNCHANGED <<mem, active, writing, epoch>>

Crash ==
    /\ mem' = durable
    /\ active' = {} /\ writing' = [p \in Process |-> NoBlock]
    /\ epoch' = epoch + 1
    /\ UNCHANGED durable

Next ==
    \/ \E p \in Process :
          Begin(p) \/ Written(p) \/ End(p) \/ (\E b \in Block, v \in Val : Write(p, b, v))
    \/ Commit
    \/ Crash

Spec == Init /\ [][Next]_vars
=============================================================================
