-------------------------------- MODULE Log ---------------------------------
(***************************************************************************)
(* The redo log of xv7/kernel/log.c on one disk, with the file-system      *)
(* calls that write blocks through it, the part of the buffer cache (bio.c) *)
(* that it relies on, crashes, and recovery at boot.                       *)
(*                                                                         *)
(* A critical section of log.lock is one step.  The disk writes one block  *)
(* at a time, synchronously and atomically.  The contents of a block are   *)
(* one value.  Of the buffer cache the model keeps what memory holds of    *)
(* each block and how often the block is pinned: a block that no refcnt    *)
(* keeps in the cache may be evicted, and is read from disk the next time. *)
(***************************************************************************)
EXTENDS Integers, FiniteSets, Sequences

CONSTANTS
    Process,
    InitProc,       \* the first process: forkret() recovers in its context
    Block, NoBlock,
    Val,
    MAXOPBLOCKS,    \* the most blocks one file-system call writes
    LOGSIZE,
    nlog,           \* blocks of the on-disk log, header included (superblock)
    Evictions,      \* whether the cache is short of buffers
    MaxCrash        \* BOUND: number of crashes

ASSUME LogAssumption ==
    /\ InitProc \in Process /\ IsFiniteSet(Process)
    /\ NoBlock \notin Block /\ Val # {}
    /\ {MAXOPBLOCKS, LOGSIZE, nlog, MaxCrash} \subseteq Nat
    /\ MAXOPBLOCKS <= LOGSIZE
    /\ Evictions \in BOOLEAN

VARIABLES
    home,           \* on disk: the blocks where they belong,
    hdr,            \*   the header block of the log (block numbers),
    logblk,         \*   and the blocks from start + 1 on
    cache, pins,    \* in memory: contents and pin count of each block
    lh, outstanding, committing,    \* struct log
    lpc, tail,       \* of each process: where it is, the loop counter of commit(),
    buf, wrote,     \*   the buffer it has locked, the blocks its call has written
    asleep,         \* the processes asleep on &log
    mode,           \* "boot" until recovery is over, "up", or "panic"
    crashes

diskVars  == <<home, hdr, logblk>>
cacheVars == <<cache, pins>>
logVars   == <<lh, outstanding, committing>>
opVars  == <<lpc, tail, buf, wrote, asleep>>
sysVars   == <<mode, crashes>>
redoVars == <<diskVars, cacheVars, logVars, opVars, sysVars>>

LogPCs == {"idle", "begin", "op", "check", "append", "log", "install", "done", "recover"}

\* A process inside a transaction, between begin_op() and end_op().
InOp == {"op", "check", "append"}

LogGoto(p, label) == lpc' = [lpc EXCEPT ![p] = label]

\* What InitProc does first; the others do not exist yet.
BootPC == [p \in Process |-> IF p = InitProc THEN "recover" ELSE "idle"]

\* A disk as mkfs leaves it.
LogInit ==
    /\ LET v == CHOOSE x \in Val : TRUE IN
          /\ home = [b \in Block |-> v]
          /\ logblk = [k \in 1..LOGSIZE |-> v]
    /\ hdr = <<>>
    /\ cache = home /\ pins = [b \in Block |-> 0]
    /\ lh = <<>> /\ outstanding = 0 /\ committing = FALSE
    /\ lpc = BootPC /\ tail = [p \in Process |-> 0]
    /\ buf = [p \in Process |-> NoBlock] /\ wrote = [p \in Process |-> {}]
    /\ asleep = {}
    /\ mode = "boot" /\ crashes = 0

-----------------------------------------------------------------------------
(***************************************************************************)
(* begin_op(), log_write() and end_op().                                   *)
(***************************************************************************)

BeginCall(p) ==
    /\ mode = "up"
    /\ lpc[p] = "idle"
    /\ LogGoto(p, "begin")
    /\ UNCHANGED <<diskVars, cacheVars, logVars, tail, buf, wrote, asleep, sysVars>>

\* Mutant: begin_op() counts the calls in progress but not the one that begins.
MustWaitShort == committing \/ Len(lh) + outstanding * MAXOPBLOCKS > LOGSIZE

\* The two conditions on which begin_op() sleeps.
MustWait == committing \/ Len(lh) + (outstanding + 1) * MAXOPBLOCKS > LOGSIZE

BeginWait(p) ==
    /\ mode = "up"
    /\ lpc[p] = "begin" /\ p \notin asleep
    /\ MustWait
    /\ asleep' = asleep \cup {p}
    /\ UNCHANGED <<diskVars, cacheVars, logVars, lpc, tail, buf, wrote, sysVars>>

BeginOp(p) ==
    /\ mode = "up"
    /\ lpc[p] = "begin" /\ p \notin asleep
    /\ ~MustWait
    /\ outstanding' = outstanding + 1
    /\ LogGoto(p, "op")
    /\ UNCHANGED <<diskVars, cacheVars, lh, committing, tail, buf, wrote, asleep, sysVars>>

\* bp = bread(b); modify bp->data, in a call that keeps to MAXOPBLOCKS.
Modify(p, b, v) ==
    /\ mode = "up"
    /\ lpc[p] = "op"
    /\ \A q \in Process : buf[q] # b
    /\ Cardinality(wrote[p] \cup {b}) <= MAXOPBLOCKS
    /\ wrote' = [wrote EXCEPT ![p] = @ \cup {b}]
    /\ buf' = [buf EXCEPT ![p] = b]
    /\ cache' = [cache EXCEPT ![b] = v]
    /\ LogGoto(p, "check")
    /\ UNCHANGED <<diskVars, pins, logVars, tail, asleep, sysVars>>

\* log_write(), the tests made before log.lock is taken.
LogCheck(p) ==
    /\ mode = "up"
    /\ lpc[p] = "check"
    /\ IF Len(lh) >= LOGSIZE \/ Len(lh) >= nlog - 1 \/ outstanding < 1
         THEN mode' = "panic" /\ UNCHANGED lpc
         ELSE LogGoto(p, "append") /\ UNCHANGED mode
    /\ UNCHANGED <<diskVars, cacheVars, logVars, tail, buf, wrote, asleep, crashes>>

\* Mutant: log_write() does not pin the buffer.
LogAppendNoPin(p) ==
    /\ mode = "up"
    /\ lpc[p] = "append"
    /\ IF \E k \in DOMAIN lh : lh[k] = buf[p]
         THEN UNCHANGED lh
         ELSE lh' = Append(lh, buf[p])
    /\ buf' = [buf EXCEPT ![p] = NoBlock]
    /\ LogGoto(p, "op")
    /\ UNCHANGED <<diskVars, cache, pins, outstanding, committing, tail, wrote, asleep, sysVars>>

\* log_write(), the rest of it, and brelse(bp).
LogAppend(p) ==
    /\ mode = "up"
    /\ lpc[p] = "append"
    /\ IF \E k \in DOMAIN lh : lh[k] = buf[p]
         THEN UNCHANGED <<lh, pins>>
         ELSE /\ lh' = Append(lh, buf[p])
              /\ pins' = [pins EXCEPT ![buf[p]] = @ + 1]
    /\ buf' = [buf EXCEPT ![p] = NoBlock]
    /\ LogGoto(p, "op")
    /\ UNCHANGED <<diskVars, cache, outstanding, committing, tail, wrote, asleep, sysVars>>

\* end_op() up to the call of commit(), which does nothing when nothing is logged.
EndOp(p) ==
    /\ mode = "up"
    /\ lpc[p] = "op"
    /\ outstanding' = outstanding - 1
    /\ wrote' = [wrote EXCEPT ![p] = {}]
    /\ tail' = [tail EXCEPT ![p] = 0]
    /\ mode' = IF committing THEN "panic" ELSE mode
    /\ IF outstanding = 1
         THEN /\ committing' = TRUE
              /\ LogGoto(p, IF lh = <<>> THEN "done" ELSE "log")
              /\ UNCHANGED asleep
         ELSE /\ asleep' = {}
              /\ LogGoto(p, "idle")
              /\ UNCHANGED committing
    /\ UNCHANGED <<diskVars, cacheVars, lh, buf, crashes>>

\* Mutant: end_op() wakes nobody after commit().
EndCommitSilent(p) ==
    /\ mode = "up"
    /\ lpc[p] = "done"
    /\ committing' = FALSE
    /\ LogGoto(p, "idle")
    /\ UNCHANGED <<diskVars, cacheVars, lh, outstanding, tail, buf, wrote, asleep, sysVars>>

\* end_op() after commit().
EndCommit(p) ==
    /\ mode = "up"
    /\ lpc[p] = "done"
    /\ committing' = FALSE
    /\ asleep' = {}
    /\ LogGoto(p, "idle")
    /\ UNCHANGED <<diskVars, cacheVars, lh, outstanding, tail, buf, wrote, sysVars>>

-----------------------------------------------------------------------------
(***************************************************************************)
(* commit() and recovery.  The loop of write_log() or install_trans() is   *)
(* over when tail reaches lh.n.                                            *)
(***************************************************************************)

\* write_log(): one block from the cache to the log.
WriteLog(p) ==
    /\ mode # "panic"
    /\ lpc[p] = "log" /\ tail[p] < Len(lh)
    /\ \A q \in Process : buf[q] # lh[tail[p] + 1]
    /\ logblk' = [logblk EXCEPT ![tail[p] + 1] = cache[lh[tail[p] + 1]]]
    /\ tail' = [tail EXCEPT ![p] = @ + 1]
    /\ UNCHANGED <<home, hdr, cacheVars, logVars, lpc, buf, wrote, asleep, sysVars>>

\* write_head(), the commit point.
WriteHead(p) ==
    /\ mode # "panic"
    /\ lpc[p] = "log" /\ tail[p] = Len(lh)
    /\ hdr' = lh
    /\ tail' = [tail EXCEPT ![p] = 0]
    /\ LogGoto(p, "install")
    /\ UNCHANGED <<home, logblk, cacheVars, logVars, buf, wrote, asleep, sysVars>>

\* install_trans(): one block from the log to its place, and bunpin() it.
InstallTrans(p) ==
    /\ mode # "panic"
    /\ lpc[p] = "install" /\ tail[p] < Len(lh)
    /\ LET k == tail[p] + 1 IN
          /\ \A q \in Process : buf[q] # lh[k]
          /\ home' = [home EXCEPT ![lh[k]] = logblk[k]]
          /\ cache' = [cache EXCEPT ![lh[k]] = logblk[k]]
          /\ pins' = [pins EXCEPT ![lh[k]] = @ - 1]
    /\ tail' = [tail EXCEPT ![p] = @ + 1]
    /\ UNCHANGED <<hdr, logblk, logVars, lpc, buf, wrote, asleep, sysVars>>

\* Mutant: the log is emptied in memory but not on disk.
EraseLogMemory(p) ==
    /\ mode # "panic"
    /\ lpc[p] = "install" /\ tail[p] = Len(lh)
    /\ lh' = <<>>
    /\ LogGoto(p, IF mode = "boot" THEN "idle" ELSE "done")
    /\ mode' = "up"
    /\ UNCHANGED <<diskVars, cacheVars, outstanding, committing, tail, buf, wrote, asleep, crashes>>

\* lh.n = 0; write_head(): at the end of commit() and of recover_from_log(),
\* after which the machine is up.
EraseLog(p) ==
    /\ mode # "panic"
    /\ lpc[p] = "install" /\ tail[p] = Len(lh)
    /\ lh' = <<>>
    /\ hdr' = <<>>
    /\ LogGoto(p, IF mode = "boot" THEN "idle" ELSE "done")
    /\ mode' = "up"
    /\ UNCHANGED <<home, logblk, cacheVars, outstanding, committing, tail, buf, wrote, asleep, crashes>>

\* Mutant: recovery erases the header before it installs the blocks.
RecoverEarlyErase(p) ==
    /\ mode = "boot"
    /\ lpc[p] = "recover"
    /\ lh' = hdr
    /\ hdr' = <<>>
    /\ LogGoto(p, "install")
    /\ UNCHANGED <<home, logblk, cacheVars, outstanding, committing, tail, buf, wrote, asleep, sysVars>>

\* recover_from_log(): read_head().
Recover(p) ==
    /\ mode = "boot"
    /\ lpc[p] = "recover"
    /\ lh' = hdr
    /\ LogGoto(p, "install")
    /\ UNCHANGED <<diskVars, cacheVars, outstanding, committing, tail, buf, wrote, asleep, sysVars>>

-----------------------------------------------------------------------------

\* bget() recycles the buffer of a block whose refcnt is zero.  (A buffer that
\* somebody has locked is left alone here: its refcnt counts the locker too.)
Evict(b) ==
    /\ Evictions /\ mode # "panic"
    /\ pins[b] = 0
    /\ \A p \in Process : buf[p] # b
    /\ cache' = [cache EXCEPT ![b] = home[b]]
    /\ UNCHANGED <<diskVars, pins, logVars, opVars, sysVars>>

\* Power is lost, or the machine is reset after a panic: memory is empty, the
\* disk as it was.
Crash ==
    /\ crashes < MaxCrash
    /\ crashes' = crashes + 1
    /\ cache' = home /\ pins' = [b \in Block |-> 0]
    /\ lh' = <<>> /\ outstanding' = 0 /\ committing' = FALSE
    /\ lpc' = BootPC /\ tail' = [p \in Process |-> 0]
    /\ buf' = [p \in Process |-> NoBlock] /\ wrote' = [p \in Process |-> {}]
    /\ asleep' = {}
    /\ mode' = "boot"
    /\ UNCHANGED diskVars

\* A step of p in the logging layer.
Step(p) ==
    \/ BeginWait(p) \/ BeginOp(p)
    \/ LogCheck(p) \/ LogAppend(p)
    \/ EndOp(p) \/ EndCommit(p)
    \/ WriteLog(p) \/ WriteHead(p) \/ InstallTrans(p) \/ EraseLog(p) \/ Recover(p)

LogNext ==
    \/ \E p \in Process :
          Step(p) \/ BeginCall(p) \/ (\E b \in Block, v \in Val : Modify(p, b, v))
    \/ \E b \in Block : Evict(b)
    \/ Crash

LogSpec == LogInit /\ [][LogNext]_redoVars

-----------------------------------------------------------------------------
(***************************************************************************)
(* Properties.                                                             *)
(***************************************************************************)

\* The log in memory holds block numbers and the counters are those of struct log.
LogTypeOK ==
    /\ home \in [Block -> Val]
    /\ hdr \in Seq(Block) /\ lh \in Seq(Block)
    /\ logblk \in [1..LOGSIZE -> Val]
    /\ cache \in [Block -> Val] /\ pins \in [Block -> Int]
    /\ outstanding \in 0..Cardinality(Process) /\ committing \in BOOLEAN
    /\ lpc \in [Process -> LogPCs] /\ tail \in [Process -> 0..LOGSIZE]
    /\ buf \in [Process -> Block \cup {NoBlock}]
    /\ wrote \in [Process -> SUBSET Block]
    /\ asleep \subseteq Process
    /\ mode \in {"boot", "up", "panic"} /\ crashes \in 0..MaxCrash

\* What recovery would leave in the home blocks if the machine crashed now.
AfterRecovery ==
    [b \in Block |-> IF \E k \in DOMAIN hdr : hdr[k] = b
                       THEN logblk[CHOOSE k \in DOMAIN hdr : hdr[k] = b]
                       ELSE home[b]]

Memory == IF mode = "boot" THEN AfterRecovery ELSE cache

\* begin_op(), log_write(), end_op(), commit() and recovery make the calls of
\* each transaction durable all together or not at all, whatever the moment of
\* the crash, a crash during recovery included, and nothing that a call has
\* written is lost as long as the machine is up.
Atomic == INSTANCE AtomicDisk WITH
    mem <- Memory, durable <- AfterRecovery, active <- {p \in Process : lpc[p] \in InOp},
    writing <- buf, epoch <- crashes
ImplementsAtomicDisk == Atomic!Spec

\* When the last call in progress has returned from end_op(), the log is empty
\* and what memory holds is what the disk holds: nothing is left to be lost.
DurableOnReturn ==
    mode = "up" /\ outstanding = 0 /\ ~committing =>
        cache = home /\ hdr = <<>> /\ lh = <<>>

\* The log never holds more blocks than lh.block[] and the on-disk log have room
\* for, and holds none twice.
LogFits ==
    /\ Len(lh) <= LOGSIZE /\ Len(lh) <= nlog - 1
    /\ \A j, k \in DOMAIN lh : j # k => lh[j] # lh[k]

\* Whoever sleeps in begin_op() has somebody left to wake it: a commit that is
\* under way, or a call that has yet to reach end_op().
SleeperHasWaker == asleep # {} /\ mode = "up" => committing \/ outstanding > 0
=============================================================================
