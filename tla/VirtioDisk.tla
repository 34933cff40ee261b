----------------------------- MODULE VirtioDisk -----------------------------
(***************************************************************************)
(* The driver of xv7/kernel/virtio_disk.c for one disk, its interrupt      *)
(* handler and the device.                                                 *)
(*                                                                         *)
(* A process calls virtio_disk_rw() with a buffer it has locked, so that   *)
(* each process stands for its buffer and for that buffer's block.  All    *)
(* driver code between two sleeps runs under vdisk_lock with interrupts    *)
(* off, so each such section is one step; the device works at any time.    *)
(***************************************************************************)
EXTENDS Integers, FiniteSets

CONSTANTS
    DiskProc,   \* the processes, each with its buffer
    DiskWord,   \* the contents of a block
    NUM,        \* descriptors, and entries of each ring (virtio.h)
    MaxRw,      \* BOUND: calls of virtio_disk_rw() per process
    DiskStart,  \* the requests served before the model starts, modulo NUM
    Nil         \* null pointer, and a ring entry that was consumed

ASSUME DiskAssumption ==
    /\ NUM \in Nat /\ NUM >= 3
    /\ MaxRw \in Nat /\ DiskWord # {}
    /\ DiskStart \in 0..NUM - 1
    /\ Nil \notin DiskProc /\ Nil \notin 0..NUM

Index == 0..NUM - 1

VARIABLES
    desc,       \* struct VRingDesc desc[NUM]
    free,       \* char free[NUM]
    info,       \* info[NUM].b: the buffer a chain transfers
    avail, availIdx,    \* the ring the driver fills, and avail[1]
    used, usedId,       \* the ring the device fills, and used->id
    used_idx,           \* how far the driver has looked in it
    busy,       \* b->disk
    hdr,        \* buf0, on the kernel stack of the process
    dpc,        \* where a process is
    nrw,        \* calls made so far
    devIdx,     \* how far the device has looked in avail
    working,    \* chains the device is working on
    bufData,       \* b->data
    platter     \* the disk

driverVars == <<desc, free, info, avail, availIdx, used_idx, busy, hdr>>
deviceVars == <<used, usedId, devIdx, working, platter>>
diskVars == <<driverVars, deviceVars, dpc, nrw, bufData>>

\* "alloc" and "io": running, about to test for descriptors and for b->disk.
\* The other two: asleep on &disk.free[0] and on b.
DiskPC == {"idle", "alloc", "allocsleep", "io", "iosleep"}

\* What a descriptor's address points to.
Hdr(p)  == <<"hdr", p>>
Data(p) == <<"data", p>>
Status(i) == <<"status", i>>

NoRequest == [type |-> "none", sector |-> Nil]

\* virtio_disk_init(), and DiskStart requests that have come and gone.
DiskInit ==
    /\ desc = [i \in Index |-> [addr |-> Nil, next |-> 0, more |-> FALSE, devWrites |-> FALSE]]
    /\ free = [i \in Index |-> TRUE]
    /\ info = [i \in Index |-> Nil]
    /\ avail = [i \in Index |-> Nil] /\ availIdx = DiskStart
    /\ used = [i \in Index |-> Nil] /\ usedId = DiskStart
    /\ used_idx = DiskStart
    /\ busy = [p \in DiskProc |-> FALSE]
    /\ hdr = [p \in DiskProc |-> NoRequest]
    /\ dpc = [p \in DiskProc |-> "idle"]
    /\ nrw = [p \in DiskProc |-> 0]
    /\ devIdx = DiskStart
    /\ working = {}
    /\ LET w == CHOOSE w \in DiskWord : TRUE IN
       bufData = [p \in DiskProc |-> w] /\ platter = [p \in DiskProc |-> w]

-----------------------------------------------------------------------------
\* alloc_desc() takes the free descriptor of lowest index.
FreeSet == {i \in Index : free[i]}
alloc_desc(S) == CHOOSE i \in S : \A j \in S : i <= j

\* Mutant: free_desc() does not wake the processes that wait for descriptors.
FreeWaitersNone(pcs) == pcs

\* wakeup(&disk.free[0]), which free_desc() calls for each descriptor it frees.
FreeWaiters(pcs) ==
    [p \in DiskProc |-> IF pcs[p] = "allocsleep" THEN "alloc" ELSE pcs[p]]

\* virtio_disk_rw() is called to read or to write.  bwrite()'s caller changed
\* the buffer before the call.
RwCall(p) ==
    /\ dpc[p] = "idle"
    /\ nrw[p] < MaxRw
    /\ nrw' = [nrw EXCEPT ![p] = @ + 1]
    /\ dpc' = [dpc EXCEPT ![p] = "alloc"]
    /\ \/ hdr' = [hdr EXCEPT ![p] = [type |-> "read", sector |-> p]] /\ UNCHANGED bufData
       \/ /\ hdr' = [hdr EXCEPT ![p] = [type |-> "write", sector |-> p]]
          /\ \E w \in DiskWord : bufData' = [bufData EXCEPT ![p] = w]
    /\ UNCHANGED <<desc, free, info, avail, availIdx, used_idx, busy, deviceVars>>

\* Mutant: alloc3_desc() keeps what it took when it does not get three.
Alloc3FailsLeak(p) ==
    /\ dpc[p] = "alloc"
    /\ Cardinality(FreeSet) < 3
    /\ free' = [i \in Index |-> FALSE]
    /\ dpc' = [dpc EXCEPT ![p] = "allocsleep"]
    /\ UNCHANGED <<desc, info, avail, availIdx, used_idx, busy, hdr, deviceVars, nrw, bufData>>

\* alloc3_desc() gets fewer than three: it frees those again, which wakes the
\* other waiters, and the process sleeps.
Alloc3Fails(p) ==
    /\ dpc[p] = "alloc"
    /\ Cardinality(FreeSet) < 3
    /\ desc' = [i \in Index |-> IF free[i] THEN [desc[i] EXCEPT !.addr = Nil] ELSE desc[i]]
    /\ dpc' = [(IF FreeSet = {} THEN dpc ELSE FreeWaiters(dpc)) EXCEPT ![p] = "allocsleep"]
    /\ UNCHANGED <<free, info, avail, availIdx, used_idx, busy, hdr, deviceVars, nrw, bufData>>

\* The three descriptors of a request, the avail entry, the notification; then
\* the process sleeps on b, since b->disk is 1.
Submit(p) ==
    LET i0 == alloc_desc(FreeSet)
        i1 == alloc_desc(FreeSet \ {i0})
        i2 == alloc_desc(FreeSet \ {i0, i1})
    IN
    /\ dpc[p] = "alloc"
    /\ Cardinality(FreeSet) >= 3
    /\ free' = [free EXCEPT ![i0] = FALSE, ![i1] = FALSE, ![i2] = FALSE]
    /\ desc' = [desc EXCEPT
         ![i0] = [addr |-> Hdr(p), next |-> i1, more |-> TRUE, devWrites |-> FALSE],
         ![i1] = [addr |-> Data(p), next |-> i2, more |-> TRUE,
                  devWrites |-> hdr[p].type = "read"],
         ![i2] = [addr |-> Status(i0), next |-> 0, more |-> FALSE, devWrites |-> TRUE]]
    /\ busy' = [busy EXCEPT ![p] = TRUE]
    /\ info' = [info EXCEPT ![i0] = p]
    /\ avail' = [avail EXCEPT ![availIdx % NUM] = i0]
    /\ availIdx' = (availIdx + 1) % NUM
    /\ dpc' = [dpc EXCEPT ![p] = "iosleep"]
    /\ UNCHANGED <<used_idx, hdr, deviceVars, nrw, bufData>>

\* The descriptors free_chain(i) visits.
Chain(i) ==
    {i} \cup (IF ~desc[i].more THEN {}
              ELSE LET j == desc[i].next IN
                   {j} \cup (IF ~desc[j].more THEN {} ELSE {desc[j].next}))

\* The head of the chain that process p submitted: idx[0] of its stack frame.
HeadOf(p) == CHOOSE i \in Index : info[i] = p

\* Mutant: virtio_disk_rw() sleeps once and does not test b->disk again.
RwReturnEarly(p) ==
    /\ dpc[p] = "io"
    /\ LET C == Chain(HeadOf(p)) IN
       /\ free' = [i \in Index |-> free[i] \/ i \in C]
       /\ desc' = [i \in Index |-> IF i \in C THEN [desc[i] EXCEPT !.addr = Nil] ELSE desc[i]]
    /\ info' = [info EXCEPT ![HeadOf(p)] = Nil]
    /\ dpc' = [FreeWaiters(dpc) EXCEPT ![p] = "idle"]
    /\ hdr' = [hdr EXCEPT ![p] = NoRequest]
    /\ UNCHANGED <<avail, availIdx, used_idx, busy, deviceVars, nrw, bufData>>

\* b->disk is 0: info[].b = 0, free_chain(), and virtio_disk_rw() returns.
RwReturn(p) ==
    /\ dpc[p] = "io"
    /\ ~busy[p]
    /\ LET C == Chain(HeadOf(p)) IN
       /\ free' = [i \in Index |-> free[i] \/ i \in C]
       /\ desc' = [i \in Index |-> IF i \in C THEN [desc[i] EXCEPT !.addr = Nil] ELSE desc[i]]
    /\ info' = [info EXCEPT ![HeadOf(p)] = Nil]
    /\ dpc' = [FreeWaiters(dpc) EXCEPT ![p] = "idle"]
    /\ hdr' = [hdr EXCEPT ![p] = NoRequest]      \* its stack frame is gone
    /\ UNCHANGED <<avail, availIdx, used_idx, busy, deviceVars, nrw, bufData>>

\* Woken with b->disk still 1: sleep again.
IoAgain(p) ==
    /\ dpc[p] = "io"
    /\ busy[p]
    /\ dpc' = [dpc EXCEPT ![p] = "iosleep"]
    /\ UNCHANGED <<driverVars, deviceVars, nrw, bufData>>

\* kill() makes a sleeper run whatever it sleeps on (proc.c).
KillWakes(p) ==
    /\ \/ dpc[p] = "allocsleep" /\ dpc' = [dpc EXCEPT ![p] = "alloc"]
       \/ dpc[p] = "iosleep" /\ dpc' = [dpc EXCEPT ![p] = "io"]
    /\ UNCHANGED <<driverVars, deviceVars, nrw, bufData>>

-----------------------------------------------------------------------------
\* virtio_disk_intr(): one turn of its loop.  The handler holds vdisk_lock for
\* all turns, but the device may complete more requests between two of them.
Intr ==
    /\ used_idx % NUM # usedId % NUM
    /\ LET b == info[used[used_idx]] IN
       /\ busy' = [busy EXCEPT ![b] = FALSE]
       /\ dpc' = [dpc EXCEPT ![b] = IF @ = "iosleep" THEN "io" ELSE @]
    /\ used_idx' = (used_idx + 1) % NUM
    /\ used' = [used EXCEPT ![used_idx] = Nil]
    /\ UNCHANGED <<desc, free, info, avail, availIdx, hdr, usedId, devIdx, working, platter, nrw, bufData>>

-----------------------------------------------------------------------------
\* The device (external): takes chains from the avail ring in order, may work on
\* several at once and completes them in any order.
DevFetch ==
    /\ devIdx # availIdx
    /\ working' = working \cup {avail[devIdx]}
    /\ devIdx' = (devIdx + 1) % NUM
    /\ avail' = [avail EXCEPT ![devIdx] = Nil]
    /\ UNCHANGED <<desc, free, info, availIdx, used_idx, busy, hdr, used, usedId, platter, dpc, nrw, bufData>>

\* It finds the header, the data and the status byte through the descriptors.
DevComplete(i) ==
    LET h == hdr[desc[i].addr[2]]
        b == desc[desc[i].next].addr[2]
    IN
    /\ i \in working
    /\ working' = working \ {i}
    /\ IF h.type = "read"
       THEN bufData' = [bufData EXCEPT ![b] = platter[h.sector]] /\ UNCHANGED platter
       ELSE platter' = [platter EXCEPT ![h.sector] = bufData[b]] /\ UNCHANGED bufData
    /\ used' = [used EXCEPT ![usedId % NUM] = i]
    /\ usedId' = (usedId + 1) % NUM
    /\ UNCHANGED <<driverVars, devIdx, dpc, nrw>>

Driver(p) == Alloc3Fails(p) \/ Submit(p) \/ RwReturn(p) \/ IoAgain(p)

DiskNext ==
    \/ \E p \in DiskProc : RwCall(p) \/ Driver(p) \/ KillWakes(p)
    \/ Intr
    \/ DevFetch
    \/ \E i \in Index : DevComplete(i)

\* A runnable process runs; the device works on what it is given, and its
\* interrupt line stays up (the driver never acknowledges it), so that device and
\* handler go on while there is anything to do.
DiskFairness ==
    /\ \A p \in DiskProc : WF_diskVars(Driver(p))
    /\ WF_diskVars(Intr \/ DevFetch \/ \E i \in Index : DevComplete(i))

DiskSpec == DiskInit /\ [][DiskNext]_diskVars /\ DiskFairness

-----------------------------------------------------------------------------
\* The values of the driver's and the device's fields.
DiskTypeOK ==
    /\ \A i \in Index : desc[i].next \in Index
    /\ free \in [Index -> BOOLEAN]
    /\ info \in [Index -> DiskProc \cup {Nil}]
    /\ avail \in [Index -> Index \cup {Nil}] /\ availIdx \in Index
    /\ used \in [Index -> Index \cup {Nil}] /\ usedId \in Index /\ used_idx \in Index
    /\ busy \in [DiskProc -> BOOLEAN]
    /\ dpc \in [DiskProc -> DiskPC]
    /\ nrw \in [DiskProc -> 0..MaxRw]
    /\ devIdx \in Index
    /\ working \subseteq Index
    /\ bufData \in [DiskProc -> DiskWord] /\ platter \in [DiskProc -> DiskWord]

\* The processes whose request owns descriptors.
InFlight == {p \in DiskProc : dpc[p] \in {"io", "iosleep"}}

\* Every descriptor that is not free belongs to the chain of exactly one request
\* in progress, and no chain holds a free one: alloc3_desc(), free_desc() and
\* free_chain(), which follows links of descriptors it has just freed, neither
\* lose a descriptor nor hand it out twice (free_desc() would panic).
DescriptorsAccounted ==
    /\ \A p \in InFlight : \E i \in Index : info[i] = p
    /\ \A p \in InFlight : Cardinality(Chain(HeadOf(p))) = 3
    /\ \A p, q \in InFlight : p # q => Chain(HeadOf(p)) \cap Chain(HeadOf(q)) = {}
    /\ {i \in Index : ~free[i]} = UNION {Chain(HeadOf(p)) : p \in InFlight}

\* The used entries that virtio_disk_intr() has still to look at name different
\* chains of requests that wait: a completion never reaches a buffer whose
\* request is over, however the rings wrap and in whatever order requests end.
Unseen == {k \in Index : (k - used_idx) % NUM < (usedId - used_idx) % NUM}
CompletionsFresh ==
    /\ \A k \in Unseen : used[k] \in Index /\ info[used[k]] \in InFlight /\ busy[info[used[k]]]
    /\ \A k, l \in Unseen : used[k] = used[l] => k = l
    /\ \A k \in Unseen : used[k] \notin working

\* The driver's tables are in order whenever nobody is inside alloc3_desc() or
\* virtio_disk_intr(): each descriptor is free or in one request, and each
\* completion the interrupt has still to see is of a request that waits.
DriverSound == DescriptorsAccounted /\ CompletionsFresh

\* The device has done the transfer of p's request.
Performed(p) ==
    \/ dpc[p] \in {"io", "iosleep"} /\ ~busy[p]
    \/ \E k \in Unseen : used[k] # Nil /\ info[used[k]] = p

DiskPhase(p) ==
    IF dpc[p] = "idle" THEN "none" ELSE IF Performed(p) THEN "performed" ELSE hdr[p].type

BD == INSTANCE BlockDev WITH
        Caller <- DiskProc, Word <- DiskWord,
        store <- platter, image <- bufData, phase <- [p \in DiskProc |-> DiskPhase(p)]

\* The driver and the device together implement BlockDev: every call transfers
\* exactly its own block and buffer, once, before it returns.
ImplementsBlockDev == BD!BlockDevSpec

\* Every call of virtio_disk_rw() returns: with eight descriptors two requests
\* fill the queue, a third sleeps, and the wakeups that alloc3_desc() causes
\* when it fails do not keep anyone from getting through.  (The calls of a
\* behaviour are bounded, so this says that all of them come to an end.)
RwReturns == []<>(\A p \in DiskProc : dpc[p] = "idle")
=============================================================================
