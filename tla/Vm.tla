--------------------------------- MODULE Vm ---------------------------------
(***************************************************************************)
(* User memory in xv7: the page allocator (kalloc.c), sbrk, fork, exec and *)
(* exit (vm.c, proc.c, exec.c) and memory-mapped files (sys_mmap() and     *)
(* sys_munmap() in vm.c, the page fault in trap.c).                        *)
(*                                                                         *)
(* Addresses and sizes are in pages.  A process's page table maps          *)
(* 0..vsz-1 to `heap' and the mmap area to `pt'; its own pages (the root   *)
(* and the inner levels) are one frame, `root'.  kmem.lock is held for     *)
(* each kalloc(), kfree() and kderef(), so each is atomic; what a system   *)
(* call does between two of them is a step, and other processes allocate   *)
(* and free in between.                                                    *)
(***************************************************************************)
EXTENDS Integers, Sequences, FiniteSets, SequencesExt, Ordering

CONSTANTS
    VmProc,         \* slots of the process table
    NFrames,        \* pages of physical memory
    VmFile,         \* open file structures
    MMAP_NUM,       \* mappings of a process (proc.h)
    MMAP_PAGES,     \* MMAP_SIZE / PGSIZE (proc.h)
    SegPages,       \* pages of the segment of the program that exec() loads
    MaxVmCalls      \* BOUND: system calls and page faults

ASSUME VmAssumption ==
    /\ VmProc # {} /\ NFrames \in Nat /\ NFrames >= 3
    /\ MMAP_NUM \in Nat \ {0} /\ MMAP_PAGES \in Nat \ {0}
    /\ SegPages \in Nat \ {0} /\ MaxVmCalls \in Nat

Frame == 1..NFrames
NoFrame == 0        \* a PTE that is not valid; a null pointer
StackPages == 2     \* 2*PGSIZE in exec()
VmSlot == 0..MMAP_NUM - 1
VA == 0..MMAP_NUM * MMAP_PAGES - 1      \* pages from MMAP_VSTART on

VARIABLES
    freelist,   \* kmem.freelist
    ref_count,  \* kmem.ref_count
    vmState,    \* "unused", "live" or "zombie"
    tf, root,   \* p->tf, p->pagetable
    heap,       \* the pages mapped from address 0 on
    vsz,        \* p->sz
    pt, ptw,    \* the PTEs of the mmap area, and those with PTE_W
    minfo,      \* p->minfo
    ofile,      \* the files p has open
    fileRef,    \* f->ref
    job,        \* the call that a process is in the middle of
    lost,       \* history: frames that nothing refers to any more
    vmPanic,    \* the argument of panic()
    vmCalls

memVars  == <<freelist, ref_count>>
vmProcVars == <<vmState, tf, root, heap, vsz, pt, ptw>>
fileVars == <<ofile, fileRef>>
vmVars   == <<memVars, vmProcVars, fileVars, minfo, job, lost, vmPanic, vmCalls>>

NoJob == [kind |-> "none"]
NoMap == [used |-> FALSE, vstart |-> 0, vend |-> 0, length |-> 0,
          write |-> FALSE, file |-> CHOOSE f \in VmFile : TRUE]

First == CHOOSE p \in VmProc : TRUE

\* kinit() frees the pages from the lowest to the highest.  A process has taken a
\* trap frame, a page table and one page, and has opened the files; init, its
\* parent, is not in the model.
VmInit ==
    /\ freelist = [i \in 1..NFrames - 3 |-> NFrames - 2 - i]
    /\ ref_count = [f \in Frame |-> IF f > NFrames - 3 THEN 1 ELSE 0]
    /\ vmState = [p \in VmProc |-> IF p = First THEN "live" ELSE "unused"]
    /\ tf = [p \in VmProc |-> IF p = First THEN NFrames ELSE NoFrame]
    /\ root = [p \in VmProc |-> IF p = First THEN NFrames - 1 ELSE NoFrame]
    /\ heap = [p \in VmProc |-> IF p = First THEN <<NFrames - 2>> ELSE <<>>]
    /\ vsz = [p \in VmProc |-> IF p = First THEN 1 ELSE 0]
    /\ pt = [p \in VmProc |-> [va \in VA |-> NoFrame]]
    /\ ptw = [p \in VmProc |-> {}]
    /\ minfo = [p \in VmProc |-> [i \in VmSlot |-> NoMap]]
    /\ ofile = [p \in VmProc |-> IF p = First THEN VmFile ELSE {}]
    /\ fileRef = [f \in VmFile |-> 1]
    /\ job = [p \in VmProc |-> NoJob]
    /\ lost = {}
    /\ vmPanic = "none" /\ vmCalls = 0

-----------------------------------------------------------------------------
\* kalloc(): the head of the free list, with one reference.
kalloc ==
    /\ freelist' = Tail(freelist)
    /\ ref_count' = [ref_count EXCEPT ![Head(freelist)] = 1]

OutOfMemory == freelist = <<>>

\* kfree() of frames in turn: each is pushed on the free list.
kfree(s) ==
    /\ freelist' = Reverse(s) \o freelist
    /\ ref_count' = [f \in Frame |-> IF f \in ToSet(s) THEN 0 ELSE ref_count[f]]

\* kderef() of frames in turn: a frame is freed with its last reference.
kderef(s) ==
    LET last == Ordered({i \in DOMAIN s : ref_count[s[i]] = 1}) IN
    /\ freelist' = Reverse([j \in DOMAIN last |-> s[last[j]]]) \o freelist
    /\ ref_count' = [f \in Frame |-> IF f \in ToSet(s) THEN ref_count[f] - 1 ELSE ref_count[f]]

\* The frames mapped at some addresses of the mmap area, in their order.
Mapped(p, vas) ==
    LET s == Ordered({va \in VA \cap vas : pt[p][va] # NoFrame})
    IN  [i \in DOMAIN s |-> pt[p][s[i]]]

Unmap(p, vas) ==
    /\ pt' = [pt EXCEPT ![p] = [va \in VA |-> IF va \in vas THEN NoFrame ELSE @[va]]]
    /\ ptw' = [ptw EXCEPT ![p] = @ \ vas]

\* Mutant: uvmfree() does not free the user memory.
FreedWithoutHeap(rt, pages, sz) == IF sz > 0 THEN <<rt>> ELSE <<>>

\* proc_freepagetable(): uvmfree() only runs when there is memory to free, so a
\* page table without user memory is not given back.
FreedWith(rt, pages, sz) == IF sz > 0 THEN SubSeq(pages, 1, sz) \o <<rt>> ELSE <<>>
LostWith(rt, pages, sz) == IF sz > 0 THEN {} ELSE {rt} \cup ToSet(pages)

\* freewalk() panics on a leaf that is still mapped.
LeafLeft(p) == \E va \in VA : pt[p][va] # NoFrame

Panic(why) ==
    /\ vmPanic' = why
    /\ UNCHANGED <<memVars, vmProcVars, fileVars, minfo, job, lost, vmCalls>>

\* A live process between two calls makes one.
Call(p) ==
    /\ vmState[p] = "live" /\ job[p] = NoJob
    /\ vmCalls < MaxVmCalls
    /\ vmCalls' = vmCalls + 1

-----------------------------------------------------------------------------
(* sbrk(): growproc(), uvmalloc() and uvmdealloc().                         *)

Grow(p, n) ==
    /\ Call(p)
    /\ job' = [job EXCEPT ![p] = [kind |-> "grow", newsz |-> vsz[p] + n]]
    /\ UNCHANGED <<memVars, vmProcVars, fileVars, minfo, lost, vmPanic>>

\* One turn of uvmalloc()'s loop.
GrowPage(p) ==
    /\ job[p].kind = "grow" /\ Len(heap[p]) < job[p].newsz
    /\ ~OutOfMemory
    /\ kalloc
    /\ heap' = [heap EXCEPT ![p] = Append(@, Head(freelist))]
    /\ UNCHANGED <<vmState, tf, root, vsz, pt, ptw, fileVars, minfo, job, lost, vmPanic, vmCalls>>

\* kalloc() fails: uvmdealloc() takes back what the loop has mapped.
GrowFails(p) ==
    /\ job[p].kind = "grow" /\ Len(heap[p]) < job[p].newsz
    /\ OutOfMemory
    /\ kfree(SubSeq(heap[p], vsz[p] + 1, Len(heap[p])))
    /\ heap' = [heap EXCEPT ![p] = SubSeq(@, 1, vsz[p])]
    /\ job' = [job EXCEPT ![p] = NoJob]
    /\ UNCHANGED <<vmState, tf, root, vsz, pt, ptw, fileVars, minfo, lost, vmPanic, vmCalls>>

GrowDone(p) ==
    /\ job[p].kind = "grow" /\ Len(heap[p]) = job[p].newsz
    /\ vsz' = [vsz EXCEPT ![p] = job[p].newsz]
    /\ job' = [job EXCEPT ![p] = NoJob]
    /\ UNCHANGED <<memVars, vmState, tf, root, heap, pt, ptw, fileVars, minfo, lost, vmPanic, vmCalls>>

\* Mutant: uvmdealloc() does not look for a size below 0.
ShrinkBelow(p) ==
    /\ Call(p)
    /\ \E n \in 1..vsz[p] + 1 :
          /\ kfree(IF n > vsz[p] THEN heap[p] ELSE SubSeq(heap[p], vsz[p] - n + 1, vsz[p]))
          /\ heap' = [heap EXCEPT ![p] = SubSeq(@, 1, vsz[p] - n)]
          /\ vsz' = [vsz EXCEPT ![p] = @ - n]
    /\ UNCHANGED <<vmState, tf, root, pt, ptw, fileVars, minfo, job, lost, vmPanic>>

Shrink(p) ==
    /\ Call(p)
    /\ \E n \in 1..vsz[p] :
          /\ kfree(SubSeq(heap[p], vsz[p] - n + 1, vsz[p]))
          /\ heap' = [heap EXCEPT ![p] = SubSeq(@, 1, vsz[p] - n)]
          /\ vsz' = [vsz EXCEPT ![p] = @ - n]
    /\ UNCHANGED <<vmState, tf, root, pt, ptw, fileVars, minfo, job, lost, vmPanic>>

-----------------------------------------------------------------------------
(* fork(): allocproc(), uvmcopy(), and the copies of files and mappings.    *)

\* allocproc() finds a slot and allocates the trap frame.
Fork(p, np) ==
    /\ Call(p) /\ vmState[np] = "unused" /\ \A q \in VmProc : job[q] # [kind |-> "fork", child |-> np]
    /\ IF OutOfMemory
       THEN UNCHANGED <<memVars, tf, job>>
       ELSE /\ kalloc
            /\ tf' = [tf EXCEPT ![np] = Head(freelist)]
            /\ job' = [job EXCEPT ![p] = [kind |-> "fork", child |-> np]]
    /\ UNCHANGED <<vmState, root, heap, vsz, pt, ptw, fileVars, minfo, lost, vmPanic>>

\* proc_pagetable(): uvmcreate() panics when there is no memory.
ForkPagetable(p) ==
    /\ job[p].kind = "fork" /\ root[job[p].child] = NoFrame
    /\ IF OutOfMemory
       THEN Panic("uvmcreate: out of memory")
       ELSE /\ kalloc
            /\ root' = [root EXCEPT ![job[p].child] = Head(freelist)]
            /\ UNCHANGED <<vmState, tf, heap, vsz, pt, ptw, fileVars, minfo, job, lost, vmPanic, vmCalls>>

\* One turn of uvmcopy()'s loop.
ForkCopy(p) ==
    /\ job[p].kind = "fork"
    /\ LET np == job[p].child IN
       /\ root[np] # NoFrame /\ Len(heap[np]) < vsz[p]
       /\ ~OutOfMemory
       /\ kalloc
       /\ heap' = [heap EXCEPT ![np] = Append(@, Head(freelist))]
    /\ UNCHANGED <<vmState, tf, root, vsz, pt, ptw, fileVars, minfo, job, lost, vmPanic, vmCalls>>

\* uvmcopy() fails: it unmaps the pages copied so far, and panics if there is
\* none; then freeproc(np), while np->sz is still 0.
ForkFails(p) ==
    /\ job[p].kind = "fork"
    /\ LET np == job[p].child IN
       /\ root[np] # NoFrame /\ Len(heap[np]) < vsz[p]
       /\ OutOfMemory
       /\ IF heap[np] = <<>>
          THEN Panic("uvmunmap: walk")
          ELSE /\ kfree(heap[np] \o <<tf[np]>> \o FreedWith(root[np], <<>>, vsz[np]))
               /\ lost' = lost \cup LostWith(root[np], <<>>, vsz[np])
               /\ heap' = [heap EXCEPT ![np] = <<>>]
               /\ tf' = [tf EXCEPT ![np] = NoFrame]
               /\ root' = [root EXCEPT ![np] = NoFrame]
               /\ job' = [job EXCEPT ![p] = NoJob]
               /\ UNCHANGED <<vmState, vsz, pt, ptw, fileVars, minfo, vmPanic, vmCalls>>

\* The rest of fork().  mmap_dup() looks in the child's page table, where no
\* page of the mmap area is mapped yet, so it counts nothing.
ForkDone(p) ==
    /\ job[p].kind = "fork"
    /\ LET np == job[p].child IN
       /\ root[np] # NoFrame /\ Len(heap[np]) = vsz[p]
       /\ vsz' = [vsz EXCEPT ![np] = vsz[p]]
       /\ IF \E f \in ofile[p] : fileRef[f] < 1
          THEN vmPanic' = "filedup" /\ UNCHANGED fileVars
          ELSE /\ ofile' = [ofile EXCEPT ![np] = ofile[p]]
               /\ fileRef' = [f \in VmFile |-> fileRef[f] + (IF f \in ofile[p] THEN 1 ELSE 0)]
               /\ UNCHANGED vmPanic
       /\ minfo' = [minfo EXCEPT ![np] = [i \in VmSlot |->
                        IF minfo[p][i].used THEN minfo[p][i] ELSE @[i]]]
       /\ vmState' = [vmState EXCEPT ![np] = "live"]
       /\ job' = [job EXCEPT ![p] = NoJob]
    /\ UNCHANGED <<memVars, tf, root, heap, pt, ptw, lost, vmCalls>>

-----------------------------------------------------------------------------
(* exec(): a new page table, a segment, two pages of stack; then the old    *)
(* page table goes.                                                         *)

Exec(p) ==
    /\ Call(p)
    /\ IF OutOfMemory
       THEN /\ vmPanic' = "uvmcreate: out of memory"
            /\ UNCHANGED <<memVars, job>>
       ELSE /\ kalloc
            /\ job' = [job EXCEPT ![p] = [kind |-> "exec", root |-> Head(freelist), pages |-> <<>>]]
            /\ UNCHANGED vmPanic
    /\ UNCHANGED <<vmProcVars, fileVars, minfo, lost>>

ExecPage(p) ==
    /\ job[p].kind = "exec" /\ Len(job[p].pages) < SegPages + StackPages
    /\ ~OutOfMemory
    /\ kalloc
    /\ job' = [job EXCEPT ![p].pages = Append(@, Head(freelist))]
    /\ UNCHANGED <<vmProcVars, fileVars, minfo, lost, vmPanic, vmCalls>>

\* The local variable sz of exec() when the pages are mapped that are.
ExecSz(n) ==
    IF n < SegPages THEN 0 ELSE IF n < SegPages + StackPages THEN SegPages ELSE n

\* uvmalloc() fails and sz becomes 0; it takes back what this call of it has
\* mapped, and exec() frees nothing of what the earlier one has.
ExecOutOfMemory(p) ==
    LET pages == job[p].pages
        kept  == ExecSz(Len(pages))
    IN  /\ job[p].kind = "exec" /\ Len(pages) < SegPages + StackPages
        /\ OutOfMemory
        /\ kfree(SubSeq(pages, kept + 1, Len(pages)) \o FreedWith(job[p].root, pages, 0))
        /\ lost' = lost \cup LostWith(job[p].root, SubSeq(pages, 1, kept), 0)
        /\ job' = [job EXCEPT ![p] = NoJob]
        /\ UNCHANGED <<vmProcVars, fileVars, minfo, vmPanic, vmCalls>>

\* Any other `goto bad': a bad program header, or arguments that do not fit.
ExecBad(p) ==
    LET pages == job[p].pages IN
    /\ job[p].kind = "exec" /\ Len(pages) \in {0, SegPages, SegPages + StackPages}
    /\ kfree(FreedWith(job[p].root, pages, Len(pages)))
    /\ lost' = lost \cup LostWith(job[p].root, pages, Len(pages))
    /\ job' = [job EXCEPT ![p] = NoJob]
    /\ UNCHANGED <<vmProcVars, fileVars, minfo, vmPanic, vmCalls>>

ExecDone(p) ==
    /\ job[p].kind = "exec" /\ Len(job[p].pages) = SegPages + StackPages
    /\ IF vsz[p] > 0 /\ LeafLeft(p)
       THEN Panic("freewalk: leaf")
       ELSE /\ kfree(FreedWith(root[p], heap[p], vsz[p]))
            /\ lost' = lost \cup LostWith(root[p], heap[p] \o Mapped(p, VA), vsz[p])
            /\ root' = [root EXCEPT ![p] = job[p].root]
            /\ heap' = [heap EXCEPT ![p] = job[p].pages]
            /\ vsz' = [vsz EXCEPT ![p] = Len(job[p].pages)]
            /\ Unmap(p, VA)
            /\ job' = [job EXCEPT ![p] = NoJob]
            /\ UNCHANGED <<vmState, tf, fileVars, minfo, vmPanic, vmCalls>>

-----------------------------------------------------------------------------
(* Files and mappings.                                                      *)

\* fileclose() of one reference of each file in fs.
FileClose(fs) ==
    IF \E f \in fs : fileRef[f] < 1
    THEN vmPanic' = "fileclose" /\ UNCHANGED fileRef
    ELSE /\ fileRef' = [f \in VmFile |-> IF f \in fs THEN fileRef[f] - 1 ELSE fileRef[f]]
         /\ UNCHANGED vmPanic

Close(p, f) ==
    /\ Call(p) /\ f \in ofile[p]
    /\ FileClose({f})
    /\ ofile' = [ofile EXCEPT ![p] = @ \ {f}]
    /\ UNCHANGED <<memVars, vmProcVars, minfo, job, lost>>

\* map_alloc() takes the first free slot; sys_mmap() takes a reference.
Mmap(p, f, len, write) ==
    LET free == {i \in VmSlot : ~minfo[p][i].used} IN
    /\ Call(p) /\ f \in ofile[p] /\ free # {}
    /\ LET i == CHOOSE i \in free : \A j \in free : i <= j
           vstart == i * MMAP_PAGES
       IN  minfo' = [minfo EXCEPT ![p][i] =
                [used |-> TRUE, vstart |-> vstart, vend |-> vstart + len,
                 length |-> len, write |-> write, file |-> f]]
    /\ IF fileRef[f] < 1
       THEN vmPanic' = "filedup" /\ UNCHANGED fileRef
       ELSE fileRef' = [fileRef EXCEPT ![f] = @ + 1] /\ UNCHANGED vmPanic
    /\ UNCHANGED <<memVars, vmProcVars, ofile, job, lost>>

\* sys_munmap(): the mapping is the one whose slot addr lies in; the pages go
\* whatever mapping they belong to.
Munmap(p, addr, len) ==
    LET i == addr \div MMAP_PAGES
        m == minfo[p][i]
    IN  /\ Call(p) /\ m.used
        /\ kderef(Mapped(p, addr..addr + len - 1))
        /\ Unmap(p, addr..addr + len - 1)
        /\ IF m.vstart = addr /\ m.length = len
           THEN /\ FileClose({m.file})
                /\ minfo' = [minfo EXCEPT ![p][i].used = FALSE]
           ELSE /\ minfo' = [minfo EXCEPT ![p][i] =
                        [m EXCEPT !.vstart = IF m.vstart = addr THEN addr + len ELSE @,
                                  !.vend = IF m.vend = addr + len THEN addr ELSE @]]
                /\ UNCHANGED <<fileRef, vmPanic>>
        /\ UNCHANGED <<vmState, tf, root, heap, vsz, ofile, job, lost>>

\* exit(): the files are closed, and the pages of the mappings go, but no
\* mapping closes its file.
ExitEffects(p) ==
    LET vas == UNION {m.vstart..m.vend - 1 : m \in {minfo[p][i] : i \in {i \in VmSlot : minfo[p][i].used}}}
    IN  /\ FileClose(ofile[p])
        /\ ofile' = [ofile EXCEPT ![p] = {}]
        /\ kderef(Mapped(p, vas)) /\ Unmap(p, vas)
        /\ minfo' = [minfo EXCEPT ![p] = [i \in VmSlot |-> [@[i] EXCEPT !.used = FALSE]]]
        /\ vmState' = [vmState EXCEPT ![p] = "zombie"]
        /\ UNCHANGED <<tf, root, heap, vsz, lost>>

Exit(p) == Call(p) /\ ExitEffects(p) /\ UNCHANGED job

\* The parent's wait() calls freeproc().
Reap(p) ==
    /\ vmState[p] = "zombie"
    /\ IF vsz[p] > 0 /\ LeafLeft(p)
       THEN Panic("freewalk: leaf")
       ELSE /\ kfree(<<tf[p]>> \o FreedWith(root[p], heap[p], vsz[p]))
            /\ lost' = lost \cup LostWith(root[p], heap[p] \o Mapped(p, VA), vsz[p])
            /\ tf' = [tf EXCEPT ![p] = NoFrame]
            /\ root' = [root EXCEPT ![p] = NoFrame]
            /\ heap' = [heap EXCEPT ![p] = <<>>]
            /\ vsz' = [vsz EXCEPT ![p] = 0]
            /\ Unmap(p, VA)
            /\ vmState' = [vmState EXCEPT ![p] = "unused"]
            /\ UNCHANGED <<fileVars, minfo, job, vmPanic, vmCalls>>

\* A load or store of a page that is not mapped, or a store to one that is
\* mapped for reading; usertrap() kills the process or allocates a page.
Fault(p, va) ==
    LET m == minfo[p][va \div MMAP_PAGES] IN
    /\ Call(p)
    /\ pt[p][va] = NoFrame \/ va \notin ptw[p]
    /\ IF ~m.used \/ va >= m.vend \/ OutOfMemory
       THEN ExitEffects(p) /\ UNCHANGED job
       ELSE /\ kalloc
            /\ job' = [job EXCEPT ![p] = [kind |-> "fault", va |-> va, frame |-> Head(freelist)]]
            /\ UNCHANGED <<vmProcVars, fileVars, minfo, lost, vmPanic>>

\* The page has been read from the file; mappages() maps it.
FaultMap(p) ==
    /\ job[p].kind = "fault"
    /\ IF pt[p][job[p].va] # NoFrame
       THEN Panic("remap")
       ELSE /\ pt' = [pt EXCEPT ![p][job[p].va] = job[p].frame]
            /\ ptw' = IF minfo[p][job[p].va \div MMAP_PAGES].write
                      THEN [ptw EXCEPT ![p] = @ \cup {job[p].va}] ELSE ptw
            /\ job' = [job EXCEPT ![p] = NoJob]
            /\ UNCHANGED <<memVars, vmState, tf, root, heap, vsz, fileVars, minfo, lost, vmPanic, vmCalls>>

\* mappages() has no memory for a page of the page table: the page is freed,
\* and the process is killed on its way back to user space.
FaultMapFails(p) ==
    /\ job[p].kind = "fault" /\ pt[p][job[p].va] = NoFrame
    /\ OutOfMemory
    /\ kfree(<<job[p].frame>>)
    /\ job' = [job EXCEPT ![p] = [kind |-> "killed"]]
    /\ UNCHANGED <<vmProcVars, fileVars, minfo, lost, vmPanic, vmCalls>>

ExitKilled(p) ==
    /\ job[p].kind = "killed"
    /\ ExitEffects(p)
    /\ job' = [job EXCEPT ![p] = NoJob]
    /\ UNCHANGED vmCalls

VmStep(p) ==
    \/ \E n \in 1..2 : Grow(p, n)
    \/ GrowPage(p) \/ GrowFails(p) \/ GrowDone(p) \/ Shrink(p)
    \/ \E np \in VmProc : Fork(p, np)
    \/ ForkPagetable(p) \/ ForkCopy(p) \/ ForkFails(p) \/ ForkDone(p)
    \/ Exec(p) \/ ExecPage(p) \/ ExecOutOfMemory(p) \/ ExecBad(p) \/ ExecDone(p)
    \/ \E f \in VmFile : Close(p, f)
    \/ \E f \in VmFile, len \in 1..MMAP_PAGES, write \in BOOLEAN : Mmap(p, f, len, write)
    \/ \E addr \in VA, len \in 1..MMAP_PAGES : Munmap(p, addr, len)
    \/ Exit(p) \/ ExitKilled(p) \/ Reap(p)
    \/ \E va \in VA : Fault(p, va)
    \/ FaultMap(p) \/ FaultMapFails(p)

VmNext == vmPanic = "none" /\ \E p \in VmProc : VmStep(p)

VmSpec == VmInit /\ [][VmNext]_vmVars

-----------------------------------------------------------------------------
IsPages(s) == s = <<>> \/ ToSet(s) \subseteq Frame

\* Every variable has the values its declaration in the code allows.
VmTypeOK ==
    /\ IsPages(freelist)
    /\ ref_count \in [Frame -> Nat]
    /\ vmState \in [VmProc -> {"unused", "live", "zombie"}]
    /\ tf \in [VmProc -> Frame \cup {NoFrame}] /\ root \in [VmProc -> Frame \cup {NoFrame}]
    /\ \A p \in VmProc : IsPages(heap[p])
    /\ vsz \in [VmProc -> 0..NFrames]
    /\ pt \in [VmProc -> [VA -> Frame \cup {NoFrame}]]
    /\ ofile \in [VmProc -> SUBSET VmFile] /\ fileRef \in [VmFile -> Nat]
    /\ lost \subseteq Frame

\* Every place a frame is in: on the free list, in a page table, in the hands
\* of a call, or lost.
Places(f) ==
    {<<"free", i>> : i \in {i \in DOMAIN freelist : freelist[i] = f}}
    \cup {<<"tf", p>> : p \in {p \in VmProc : tf[p] = f}}
    \cup {<<"root", p>> : p \in {p \in VmProc : root[p] = f}}
    \cup (UNION {{<<"heap", p, i>> : i \in {i \in DOMAIN heap[p] : heap[p][i] = f}} : p \in VmProc})
    \cup (UNION {{<<"map", p, va>> : va \in {va \in VA : pt[p][va] = f}} : p \in VmProc})
    \cup {<<"fault", p>> : p \in {p \in VmProc : job[p].kind = "fault" /\ job[p].frame = f}}
    \cup (UNION {IF job[p].kind # "exec" THEN {}
                 ELSE {<<"exec", p, i>> : i \in {i \in DOMAIN job[p].pages : job[p].pages[i] = f}}
                      \cup (IF job[p].root = f THEN {<<"execroot", p>>} ELSE {}) : p \in VmProc})
    \cup (IF f \in lost THEN {<<"lost">>} ELSE {})

\* Each page of memory is in exactly one place, whatever calls of two processes
\* run out of memory half way and roll back: none is free and mapped, none is
\* mapped twice, and none disappears but those `lost' records; and ref_count
\* says whether it is free.  (kalloc, kfree, kderef, uvmalloc, uvmcopy, exec,
\* freeproc, the page fault, munmap.)
FramesAccounted ==
    \A f \in Frame :
        /\ Cardinality(Places(f)) = 1
        /\ ref_count[f] = IF f \in ToSet(freelist) THEN 0 ELSE 1

\* Outside sbrk(), exactly the pages below p->sz are mapped: a growproc() that
\* fails half way has taken back what it mapped.  (uvmfree() and uvmcopy()
\* panic on a page below p->sz that is not mapped, freewalk() on one above.)
HeapMatchesSize ==
    \A p \in VmProc : vmState[p] # "unused" /\ job[p].kind # "grow" => Len(heap[p]) = vsz[p]

\* A process slot that is free, and is not being set up, holds no memory.
FreeSlotEmpty ==
    \A p \in VmProc :
        vmState[p] = "unused" /\ ~(\E q \in VmProc : job[q] = [kind |-> "fork", child |-> p])
            => tf[p] = NoFrame /\ root[p] = NoFrame /\ heap[p] = <<>> /\ ~LeafLeft(p)

\* The memory of the machine is accounted for: by page, by process and by slot,
\* through every failure of fork(), exec(), sbrk() and the page fault.
MemoryAccounted == FramesAccounted /\ HeapMatchesSize /\ FreeSlotEmpty

\* A mapping keeps its file open, whatever file descriptors and other
\* processes' mappings are closed: mmaptest.c says "check that the mapping
\* still works after close(fd)".
MapKeepsFile ==
    \A p \in VmProc, i \in VmSlot :
        vmState[p] = "live" /\ minfo[p][i].used => fileRef[minfo[p][i].file] >= 1
=============================================================================
