-------------------------------- MODULE Buddy --------------------------------
(***************************************************************************)
(* The buddy allocator of xv7/kernel/buddy.c.                              *)
(*                                                                         *)
(* Addresses and sizes are in leaves of LEAF_SIZE bytes from bd_base on.   *)
(* Each call holds the lock from beginning to end, so a call is one step.  *)
(* The heap of 2^MAXSIZE leaves begins with the allocator's own tables and *)
(* may end beyond the memory there is.  The tables take at most a quarter  *)
(* of any heap of a kilobyte or more; smaller heaps are not modelled.      *)
(***************************************************************************)
EXTENDS Integers, Sequences, FiniteSets, FiniteSetsExt, SequencesExt

CONSTANTS
    MAXSIZE,        \* nsizes - 1: the block of this size is the whole heap
    MaxMeta,        \* BOUND: the largest table, in leaves
    BdRequests      \* BOUND: the sizes asked for, in leaves

ASSUME BuddyAssumption ==
    /\ MAXSIZE \in Nat /\ MAXSIZE >= 2
    /\ MaxMeta \in 1..2^(MAXSIZE - 2)
    /\ BdRequests \subseteq Nat

Size == 0..MAXSIZE
BLK_SIZE(k) == 2^k
NBLK(k) == 2^(MAXSIZE - k)
Leaf == 0..2^MAXSIZE - 1

VARIABLES
    bdFree,     \* bd_sizes[k].free, from lst->next on
    bdAlloc,    \* bd_sizes[k].alloc, as the set of blocks whose bit is set
    bdSplit,    \* bd_sizes[k].split, likewise; size 0 has none
    reserved,   \* history: the leaves of the tables and those beyond the end
    held,       \* history: the blocks callers have, as <<size, address>>
    bdPanic     \* bd_init() found the wrong amount of free memory

bdVars == <<bdFree, bdAlloc, bdSplit, reserved, held, bdPanic>>

-----------------------------------------------------------------------------
blk_index(k, p) == p \div BLK_SIZE(k)
blk_index_next(k, p) == (p + BLK_SIZE(k) - 1) \div BLK_SIZE(k)
addr(k, bi) == bi * BLK_SIZE(k)
BuddyOf(bi) == IF bi % 2 = 0 THEN bi + 1 ELSE bi - 1
BdBlock(k, p) == p..p + BLK_SIZE(k) - 1

\* The first size that n leaves fit in.
firstk(n) == CHOOSE k \in 0..n : n <= 2^k /\ \A j \in 0..n : n <= 2^j => k <= j

\* Mutant: the block after the last one is marked too.
MarkedThrough(k, start, stop) == blk_index(k, start)..blk_index_next(k, stop)

\* bd_mark(): the blocks of size k that [start, stop) touches.
Marked(k, start, stop) == blk_index(k, start)..blk_index_next(k, stop) - 1

\* bit_isset() of the alloc array of size k while bd_init() runs.  The arrays
\* follow each other, each rounded up to whole bytes, so that an index beyond
\* the last block reads a bit that is always 0 or the array of size k + 1.
bit_isset(alloc, k, i) ==
    IF i < NBLK(k) THEN i \in alloc[k]
    ELSE /\ NBLK(k) % 8 = 0 /\ k < MAXSIZE
         /\ i - NBLK(k) \in alloc[k + 1]

\* bd_initfree_pair(): the block of the pair to put on the free list, if any.
InitPair(alloc, k, bi) ==
    LET buddy == BuddyOf(bi) IN
    IF bit_isset(alloc, k, bi) = bit_isset(alloc, k, buddy) THEN <<>>
    ELSE IF bit_isset(alloc, k, bi) THEN <<addr(k, buddy)>> ELSE <<addr(k, bi)>>

\* bd_initfree(): the free lists, last pushed first.
InitFree(alloc, left, right) ==
    [k \in Size |->
        LET l == blk_index_next(k, left)
            r == blk_index(k, right)
        IN  IF k = MAXSIZE THEN <<>>
            ELSE (IF r <= l THEN <<>> ELSE InitPair(alloc, k, r)) \o InitPair(alloc, k, l)]

\* What bd_initfree() returns: the leaves it has put on the free lists.
FreeTotal(lists) == MapThenSumSet(LAMBDA k : Len(lists[k]) * BLK_SIZE(k), Size)

\* bd_init() with `meta' leaves of tables and memory up to leaf `end'.
BdStart(meta, end) ==
    LET heap  == 2^MAXSIZE
        marked(k) == Marked(k, 0, meta) \cup Marked(k, end, heap)
        alloc == [k \in Size |-> marked(k)]
        lists == InitFree(alloc, meta, end)
    IN  /\ bdAlloc = alloc
        /\ bdSplit = [k \in Size |-> IF k = 0 THEN {} ELSE marked(k)]
        /\ bdFree = lists
        /\ reserved = 0..meta - 1 \cup end..heap - 1
        /\ held = {}
        /\ bdPanic = (FreeTotal(lists) # end - meta)

\* Any size of the tables and of the memory between two powers of two.
BdInit ==
    \E meta \in 1..MaxMeta, end \in 2^(MAXSIZE - 1) + 1..2^MAXSIZE : BdStart(meta, end)

-----------------------------------------------------------------------------
\* bd_malloc(): the first block of the smallest sufficient size is taken and
\* split down to the size fk that was asked for.  The loop marks, at each size
\* it passes, the block split, its left half allocated and its right half free.
Take(k, fk) ==
    LET p == Head(bdFree[k]) IN
    /\ bdAlloc' = [j \in Size |-> IF fk <= j /\ j <= k THEN bdAlloc[j] \cup {blk_index(j, p)}
                                  ELSE bdAlloc[j]]
    /\ bdSplit' = [j \in Size |-> IF fk < j /\ j <= k THEN bdSplit[j] \cup {blk_index(j, p)}
                                  ELSE bdSplit[j]]
    /\ bdFree' = [j \in Size |-> IF j = k THEN Tail(bdFree[k])
                                 ELSE IF fk <= j /\ j < k THEN <<p + BLK_SIZE(j)>> \o bdFree[j]
                                 ELSE bdFree[j]]
    /\ held' = held \cup {<<fk, p>>}

bd_malloc(n) ==
    LET fk == firstk(n)
        ok == {k \in Size : fk <= k /\ bdFree[k] # <<>>}
    IN  /\ ok # {}      \* otherwise it returns 0
        /\ Take(CHOOSE k \in ok : \A j \in ok : k <= j, fk)
        /\ UNCHANGED <<reserved, bdPanic>>

\* size(): the first size whose enclosing block is split.
bd_size(p) ==
    LET ks == {k \in 0..MAXSIZE - 1 : blk_index(k + 1, p) \in bdSplit[k + 1]} IN
    IF ks = {} THEN 0 ELSE CHOOSE k \in ks : \A j \in ks : k <= j

\* Where bd_free()'s loop stops: at the first size at which the buddy of the
\* block that p has become is allocated.
MergeTo(p) ==
    LET stops == {k \in bd_size(p)..MAXSIZE :
                    k = MAXSIZE \/ BuddyOf(blk_index(k, p)) \in bdAlloc[k]}
    IN  CHOOSE k \in stops : \A j \in stops : k <= j

\* Mutant: the merged block is still marked as split.
UnsplitNone(p, lo, hi) == bdSplit

Unsplit(p, lo, hi) ==
    [k \in Size |-> IF lo < k /\ k <= hi THEN bdSplit[k] \ {blk_index(k, p)} ELSE bdSplit[k]]

\* bd_free(): at each size it passes, the block is freed and its buddy leaves
\* the free list; the block it ends with goes on the free list.
bd_free(b) ==
    LET p  == b[2]
        lo == bd_size(p)
        hi == MergeTo(p)
    IN  /\ bdAlloc' = [k \in Size |-> IF lo <= k /\ k <= hi /\ k < MAXSIZE
                                      THEN bdAlloc[k] \ {blk_index(k, p)} ELSE bdAlloc[k]]
        /\ bdSplit' = Unsplit(p, lo, hi)
        /\ bdFree' = [k \in Size |->
                IF lo <= k /\ k < hi
                THEN SelectSeq(bdFree[k], LAMBDA q : q # addr(k, BuddyOf(blk_index(k, p))))
                ELSE IF k = hi THEN <<addr(k, blk_index(k, p))>> \o bdFree[k]
                ELSE bdFree[k]]
        /\ held' = held \ {b}
        /\ UNCHANGED <<reserved, bdPanic>>

BdNext ==
    /\ ~bdPanic
    /\ \/ \E n \in BdRequests : bd_malloc(n)
       \/ \E b \in held : bd_free(b)

BdSpec == BdInit /\ [][BdNext]_bdVars

-----------------------------------------------------------------------------
\* The lists and bit vectors name blocks of the heap.
BdTypeOK ==
    ~bdPanic =>
    /\ DOMAIN bdFree = Size /\ \A k \in Size : ToSet(bdFree[k]) \subseteq Leaf
    /\ \A k \in Size : bdAlloc[k] \subseteq 0..NBLK(k) - 1
    /\ \A k \in Size : bdSplit[k] \subseteq 0..NBLK(k) - 1
    /\ reserved \subseteq Leaf /\ bdPanic \in BOOLEAN

BdFreeBlocks == UNION {{<<k, bdFree[k][i]>> : i \in DOMAIN bdFree[k]} : k \in Size}

\* Every leaf of the heap is in exactly one place after any sequence of calls:
\* in the tables or beyond the end, in one block that a caller has, or in one
\* block on one free list (bd_malloc's splits and bd_free's merges).
BlocksPartition ==
    ~bdPanic =>
    /\ \A k \in Size : IsInjective(bdFree[k])
    /\ \A b, c \in held \cup BdFreeBlocks :
            b # c => BdBlock(b[1], b[2]) \cap BdBlock(c[1], c[2]) = {}
    /\ held \cap BdFreeBlocks = {}
    /\ UNION {BdBlock(b[1], b[2]) : b \in held \cup BdFreeBlocks} = Leaf \ reserved

\* size() finds, from the split bits alone, the size of every block a caller
\* has, and bd_free() so frees what bd_malloc() gave.
SizeRecovered == \A b \in held : bd_size(b[2]) = b[1]

\* A block is never on the free list together with its buddy: bd_free() has
\* merged them, so that all memory given back is one block again.
Coalesced ==
    ~bdPanic => \A b, c \in BdFreeBlocks :
        b[1] = c[1] => blk_index(b[1], c[2]) # BuddyOf(blk_index(b[1], b[2]))

\* The bits and the lists agree on who has which block (bd_malloc, bd_free).
HeapSound == BlocksPartition /\ SizeRecovered /\ Coalesced

\* bd_init() puts all memory between the tables and `end' on the free lists,
\* which it checks itself ("check if the amount that is free is what we
\* expect"), unless the memory ends exactly at the end of the heap: then
\* bd_initfree() looks at the pair after the last block.
InitFreesAll == bdPanic => 2^MAXSIZE - 1 \notin reserved
=============================================================================
