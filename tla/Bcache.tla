------------------------------- MODULE Bcache -------------------------------
(***************************************************************************)
(* The buffer cache of xv7/kernel/bio.c, the sleeplock of each buffer      *)
(* (sleeplock.c), and the three ways in which the kernel uses a buffer: to *)
(* read it, to modify it and log_write() it, and to install it (log.c).    *)
(*                                                                         *)
(* A critical section of bcache.lock or of a sleeplock's spinlock is one   *)
(* step; everything between two of them is open to other processes.        *)
(***************************************************************************)
EXTENDS Integers, FiniteSets, Sequences

CONSTANTS
    BufProc,
    BufInitProc,       \* the process that recovers from the log at boot
    NoBufProc,
    BufBlock, NoBufBlock,
    BufVal,
    NBUF,
    UMax,           \* number of values of a uint (2^32 in the code)
    Recovered       \* the blocks that the log on disk holds at boot

ASSUME BcacheAssumption ==
    /\ BufInitProc \in BufProc /\ NoBufProc \notin BufProc /\ IsFiniteSet(BufProc)
    /\ NoBufBlock \notin BufBlock /\ BufVal # {}
    /\ NBUF \in Nat \ {0} /\ UMax \in Nat \ {0, 1}
    /\ Recovered \subseteq BufBlock

VARIABLES
    blockno, valid, refcnt, data,   \* struct buf, of each buffer
    owner,          \* b->lock: the process that holds it, or NoProcess
    order,          \* the list of buffers, most recently used first
    disk,
    pinned,         \* the blocks that log_write() has pinned
    recover,        \* the blocks that recovery has yet to install
    bpc, want, b,    \* of each process: where it is, the block it asked for, its buffer
    panic

bufVars  == <<blockno, valid, refcnt, data>>
pinVars  == <<pinned, recover>>
bufProcVars == <<bpc, want, b>>
bcacheVars == <<bufVars, owner, order, disk, pinVars, bufProcVars, panic>>

Buffer == 1..NBUF

BufPCs == {"idle", "lock", "read", "use", "dirty", "unpin", "release", "drop"}

BufGoto(p, label) == bpc' = [bpc EXCEPT ![p] = label]

\* b->refcnt++ and b->refcnt--, on a uint.
Ref(i)   == refcnt' = [refcnt EXCEPT ![i] = (@ + 1) % UMax]
Unref(i) == refcnt' = [refcnt EXCEPT ![i] = (@ - 1) % UMax]

\* binit(): each buffer goes to the front of the list.
BcacheInit ==
    /\ blockno = [i \in Buffer |-> NoBufBlock]
    /\ valid = [i \in Buffer |-> FALSE]
    /\ refcnt = [i \in Buffer |-> 0]
    /\ LET v == CHOOSE x \in BufVal : TRUE IN
          /\ data = [i \in Buffer |-> v]
          /\ disk = [k \in BufBlock |-> v]
    /\ owner = [i \in Buffer |-> NoBufProc]
    /\ order = [k \in Buffer |-> NBUF + 1 - k]
    /\ pinned = {} /\ recover = Recovered
    /\ bpc = [p \in BufProc |-> "idle"]
    /\ want = [p \in BufProc |-> NoBufBlock]
    /\ b = [p \in BufProc |-> 1]
    /\ panic = FALSE

\* Until recovery is over the first process is alone, and installs.
MayRun(p) == ~panic /\ (recover # {} => p = BufInitProc)
MayBread(p, k) == MayRun(p) /\ bpc[p] = "idle" /\ (recover # {} => k \in recover)

-----------------------------------------------------------------------------
(***************************************************************************)
(* bread() = bget(), acquiresleep(), and a read of the disk if need be.    *)
(***************************************************************************)

BuffersOf(k) == {i \in Buffer : blockno[i] = k}

\* Mutant: bget() recycles any buffer that nobody has locked.
UnusedUnlocked == {i \in Buffer : owner[i] = NoBufProc}

Unused == {i \in Buffer : refcnt[i] = 0}

\* The unused buffer nearest to the end of the list.
Victim ==
    LET last == CHOOSE k \in Buffer :
                    order[k] \in Unused /\ \A l \in Buffer : l > k => order[l] \notin Unused
    IN order[last]

\* bget(): the block is cached.
BgetHit(p, k) ==
    /\ MayBread(p, k)
    /\ \E i \in BuffersOf(k) :
          /\ Ref(i)
          /\ b' = [b EXCEPT ![p] = i]
    /\ want' = [want EXCEPT ![p] = k]
    /\ BufGoto(p, "lock")
    /\ UNCHANGED <<blockno, valid, data, owner, order, disk, pinVars, panic>>

\* bget(): it is not; recycle.
BgetMiss(p, k) ==
    /\ MayBread(p, k)
    /\ BuffersOf(k) = {} /\ Unused # {}
    /\ blockno' = [blockno EXCEPT ![Victim] = k]
    /\ valid' = [valid EXCEPT ![Victim] = FALSE]
    /\ refcnt' = [refcnt EXCEPT ![Victim] = 1]
    /\ b' = [b EXCEPT ![p] = Victim]
    /\ want' = [want EXCEPT ![p] = k]
    /\ BufGoto(p, "lock")
    /\ UNCHANGED <<data, owner, order, disk, pinVars, panic>>

BgetPanic(p, k) ==
    /\ MayBread(p, k)
    /\ BuffersOf(k) = {} /\ Unused = {}
    /\ panic' = TRUE
    /\ UNCHANGED <<bufVars, owner, order, disk, pinVars, bufProcVars>>

\* acquiresleep(): the loop ends when the lock is free.
AcquireSleep(p) ==
    /\ MayRun(p) /\ bpc[p] = "lock"
    /\ owner[b[p]] = NoBufProc
    /\ owner' = [owner EXCEPT ![b[p]] = p]
    /\ BufGoto(p, "read")
    /\ UNCHANGED <<bufVars, order, disk, pinVars, want, b, panic>>

\* bread(): virtio_disk_rw(b, 0) unless the buffer is valid.
Read(p) ==
    /\ MayRun(p) /\ bpc[p] = "read"
    /\ data' = [data EXCEPT ![b[p]] = IF valid[b[p]] THEN @ ELSE disk[blockno[b[p]]]]
    /\ valid' = [valid EXCEPT ![b[p]] = TRUE]
    /\ BufGoto(p, "use")
    /\ UNCHANGED <<blockno, refcnt, owner, order, disk, pinVars, want, b, panic>>

-----------------------------------------------------------------------------
(***************************************************************************)
(* What the holder of a buffer does with it.                               *)
(***************************************************************************)

BufModify(p, v) ==
    /\ MayRun(p) /\ bpc[p] = "use" /\ recover = {}
    /\ data' = [data EXCEPT ![b[p]] = v]
    /\ BufGoto(p, "dirty")
    /\ UNCHANGED <<blockno, valid, refcnt, owner, order, disk, pinVars, want, b, panic>>

\* log_write(): bpin() the buffer, unless its block is in the log already.
LogWrite(p) ==
    /\ MayRun(p) /\ bpc[p] = "dirty"
    /\ IF blockno[b[p]] \in pinned THEN UNCHANGED refcnt ELSE Ref(b[p])
    /\ pinned' = pinned \cup {blockno[b[p]]}
    /\ BufGoto(p, "use")
    /\ UNCHANGED <<blockno, valid, data, owner, order, disk, recover, want, b, panic>>

\* install_trans(), by commit() or by recovery: bwrite(), which panics unless
\* the caller holds the sleeplock.
Bwrite(p) ==
    /\ MayRun(p) /\ bpc[p] = "use"
    /\ blockno[b[p]] \in pinned \cup recover
    /\ IF owner[b[p]] = p
         THEN /\ disk' = [disk EXCEPT ![blockno[b[p]]] = data[b[p]]]
              /\ BufGoto(p, "unpin")
              /\ UNCHANGED panic
         ELSE panic' = TRUE /\ UNCHANGED <<disk, bpc>>
    /\ UNCHANGED <<bufVars, owner, order, pinVars, want, b>>

\* ... then bunpin().
Bunpin(p) ==
    /\ MayRun(p) /\ bpc[p] = "unpin"
    /\ Unref(b[p])
    /\ pinned' = pinned \ {blockno[b[p]]}
    /\ BufGoto(p, "release")
    /\ UNCHANGED <<blockno, valid, data, owner, order, disk, recover, want, b, panic>>

\* brelse(): releasesleep() ...
ReleaseSleep(p) ==
    /\ MayRun(p)
    /\ bpc[p] = "release" \/ (bpc[p] = "use" /\ recover = {})
    /\ IF owner[b[p]] = p
         THEN /\ owner' = [owner EXCEPT ![b[p]] = NoBufProc]
              /\ BufGoto(p, "drop")
              /\ UNCHANGED panic
         ELSE panic' = TRUE /\ UNCHANGED <<owner, bpc>>
    /\ UNCHANGED <<bufVars, order, disk, pinVars, want, b>>

\* The list with buffer i moved to its front.
MoveToFront(i) ==
    LET pos == CHOOSE k \in Buffer : order[k] = i IN
    [k \in Buffer |-> IF k = 1 THEN i ELSE IF k <= pos THEN order[k - 1] ELSE order[k]]

\* Mutant: brelse() links the buffer in at the front and not out where it was.
BrelseNoUnlink(p) ==
    /\ MayRun(p) /\ bpc[p] = "drop"
    /\ Unref(b[p])
    /\ order' = IF refcnt[b[p]] = 1 THEN <<b[p]>> \o order ELSE order
    /\ recover' = recover \ {want[p]}
    /\ want' = [want EXCEPT ![p] = NoBufBlock]
    /\ BufGoto(p, "idle")
    /\ UNCHANGED <<blockno, valid, data, owner, disk, pinned, b, panic>>

\* Mutant: brelse() marks the buffer unused whatever its reference count.
BrelseForgets(p) ==
    /\ MayRun(p) /\ bpc[p] = "drop"
    /\ refcnt' = [refcnt EXCEPT ![b[p]] = 0]
    /\ order' = MoveToFront(b[p])
    /\ recover' = recover \ {want[p]}
    /\ want' = [want EXCEPT ![p] = NoBufBlock]
    /\ BufGoto(p, "idle")
    /\ UNCHANGED <<blockno, valid, data, owner, disk, pinned, b, panic>>

\* ... then, under bcache.lock, the reference; an unused buffer goes to the
\* front of the list.  For recovery this ends the work on the block.
Brelse(p) ==
    /\ MayRun(p) /\ bpc[p] = "drop"
    /\ Unref(b[p])
    /\ order' = IF refcnt[b[p]] = 1 THEN MoveToFront(b[p]) ELSE order
    /\ recover' = recover \ {want[p]}
    /\ want' = [want EXCEPT ![p] = NoBufBlock]
    /\ BufGoto(p, "idle")
    /\ UNCHANGED <<blockno, valid, data, owner, disk, pinned, b, panic>>

-----------------------------------------------------------------------------

\* A step of p once it has called bread().
BufStep(p) ==
    \/ AcquireSleep(p) \/ Read(p)
    \/ (\E v \in BufVal : BufModify(p, v)) \/ LogWrite(p)
    \/ Bwrite(p) \/ Bunpin(p)
    \/ ReleaseSleep(p) \/ Brelse(p)

BcacheNext ==
    \E p \in BufProc :
        \/ BufStep(p)
        \/ \E k \in BufBlock : BgetHit(p, k) \/ BgetMiss(p, k) \/ BgetPanic(p, k)

BcacheSpec == BcacheInit /\ [][BcacheNext]_bcacheVars

-----------------------------------------------------------------------------
(***************************************************************************)
(* Properties.                                                             *)
(***************************************************************************)

\* The fields of struct buf; the list holds every buffer once.
BcacheTypeOK ==
    /\ blockno \in [Buffer -> BufBlock \cup {NoBufBlock}]
    /\ valid \in [Buffer -> BOOLEAN]
    /\ refcnt \in [Buffer -> 0..UMax - 1]
    /\ data \in [Buffer -> BufVal]
    /\ owner \in [Buffer -> BufProc \cup {NoBufProc}]
    /\ order \in [Buffer -> Buffer]
    /\ \A i \in Buffer : \E k \in Buffer : order[k] = i
    /\ disk \in [BufBlock -> BufVal]
    /\ pinned \subseteq BufBlock /\ recover \subseteq BufBlock
    /\ bpc \in [BufProc -> BufPCs]
    /\ want \in [BufProc -> BufBlock \cup {NoBufBlock}]
    /\ b \in [BufProc -> Buffer]
    /\ panic \in BOOLEAN

\* The processes that count in refcnt[i], and those that have the sleeplock.
Users(i)   == {p \in BufProc : bpc[p] # "idle" /\ b[p] = i}
Holding(p) == bpc[p] \in {"read", "use", "dirty", "unpin", "release"}

\* A reference count is exact: one for each process between bget() and the end
\* of brelse(), one if the log has pinned the block.
RefcntExact ==
    \A i \in Buffer :
        refcnt[i] = Cardinality(Users(i)) + (IF blockno[i] \in pinned THEN 1 ELSE 0)

\* A block has one buffer at most, and the buffer a process was given stays the
\* buffer of its block until it lets go of it.
OneCopy ==
    /\ \A i, j \in Buffer : blockno[i] = blockno[j] /\ i # j => blockno[i] = NoBufBlock
    /\ \A p \in BufProc : bpc[p] # "idle" => blockno[b[p]] = want[p]

\* bread() returns locked buffers: two processes never use the same block.
Exclusive ==
    \A p, q \in BufProc : p # q /\ Holding(p) /\ Holding(q) => want[p] # want[q]

\* The contents of block k as the next bread() will find them.
View(k) ==
    IF \E i \in BuffersOf(k) : valid[i] THEN data[CHOOSE i \in BuffersOf(k) : valid[i]] ELSE disk[k]

\* Recycling loses nothing: the contents of a block change only while a process
\* that asked for the block holds its buffer.
Coherent ==
    [][\A k \in BufBlock :
          View(k)' # View(k) => \E p \in BufProc : want[p] = k /\ Holding(p)]_bcacheVars

\* The promise of bget() and brelse(): counts are exact, a block has one buffer,
\* and a buffer one user, although bget() drops bcache.lock before it has the
\* sleeplock, and brelse() the sleeplock before the reference.
BuffersSound == RefcntExact /\ OneCopy /\ Exclusive
=============================================================================
