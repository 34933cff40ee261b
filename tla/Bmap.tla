-------------------------------- MODULE Bmap --------------------------------
(***************************************************************************)
(* File contents in xv7/kernel/fs.c: the block bitmap (balloc, bfree), the *)
(* map from a file's blocks to disk blocks through direct, indirect and    *)
(* double-indirect pointers (bmap, itrunc), and readi, writei and the      *)
(* file.c routines that call them in transactions of bounded size.         *)
(*                                                                         *)
(* Each file is used under its inode lock and calls do not share blocks,   *)
(* so one call runs at a time; a turn of writei()'s loop is a step.  All   *)
(* blocks are functions of the same shape: a data block holds BSIZE bytes, *)
(* an indirect block NINDIRECT block numbers.                              *)
(***************************************************************************)
EXTENDS Integers, Sequences, FiniteSets

CONSTANTS
    File,           \* the files
    NoFile,
    NBlocks,        \* data blocks of the disk, numbered from 1
    BSIZE,          \* bytes per block
    NDIRECT,        \* direct pointers of an inode
    NINDIRECT,      \* pointers of an indirect block
    MaxOpBlocks,    \* blocks a transaction may write
    WriteSizes,     \* the n of write() and read()
    MaxFileOps      \* BOUND: calls of write() in all

ASSUME BmapAssumption ==
    /\ NoFile \notin File
    /\ {NBlocks, BSIZE, NDIRECT, NINDIRECT} \subseteq Nat \ {0}
    /\ MaxOpBlocks \in Nat /\ MaxOpBlocks >= 6     \* a transaction has room for some data
    /\ WriteSizes \subseteq Nat \ {0} /\ MaxFileOps \in Nat

BlockNo == 1..NBlocks
NDOUBLE_INDIRECT == NINDIRECT * NINDIRECT
MAXFILE == NDIRECT + NINDIRECT + NDOUBLE_INDIRECT
Cells == 0..(IF BSIZE > NINDIRECT THEN BSIZE ELSE NINDIRECT) - 1
Zeroed == [c \in Cells |-> 0]

\* What a transaction writes besides data blocks: the inode's block, and the
\* bitmap's, of which there is one here.
InodeBlock == NBlocks + 1
BitmapBlock == NBlocks + 2

VARIABLES
    bitmap,     \* the blocks marked in use
    blk,        \* contents of each block
    addrs,      \* ip->addrs: 0..NDIRECT-1 direct, then indirect, double-indirect
    size,       \* ip->size
    off,        \* f->off of the file's descriptor
    txn,        \* the blocks the current transaction has logged
    wr,         \* the write() under way: [file, left, n1, tot] or none
    nops,       \* calls of write() so far, which is also the byte it writes
    content     \* what the file ought to contain

bmapVars == <<bitmap, blk, addrs, size, off, txn, wr, nops, content>>
diskState == <<bitmap, blk, addrs, size>>

NoWrite == [file |-> NoFile, left |-> 0, n1 |-> 0, tot |-> 0]

BmapInit ==
    /\ bitmap = {}
    /\ blk = [b \in BlockNo |-> Zeroed]
    /\ addrs = [f \in File |-> [i \in 0..NDIRECT + 1 |-> 0]]
    /\ size = [f \in File |-> 0]
    /\ off = [f \in File |-> 0]
    /\ txn = {}
    /\ wr = NoWrite
    /\ nops = 0
    /\ content = [f \in File |-> <<>>]

-----------------------------------------------------------------------------
\* The file system while bmap() works on it: bitmap, contents, the inode's
\* pointers, blocks logged, and the block number just found.
FsState(f) == [used |-> bitmap, blk |-> blk, a |-> addrs[f], log |-> {}, addr |-> 0]

FreeBlocks(st) == BlockNo \ st.used
\* balloc()'s scan of the bitmap.
LowestFree(st) == CHOOSE b \in FreeBlocks(st) : \A c \in FreeBlocks(st) : b <= c

\* balloc(): the first free block, zeroed.  It panics when there is none.
balloc(st) ==
    LET b == LowestFree(st) IN
    [st EXCEPT !.used = @ \cup {b}, !.blk[b] = Zeroed, !.log = @ \cup {BitmapBlock, b},
               !.addr = b]

\* "if((addr = ip->addrs[i]) == 0) ip->addrs[i] = addr = balloc(ip->dev);"
InodePtr(st, i) ==
    IF st.a[i] # 0 THEN [st EXCEPT !.addr = st.a[i]]
    ELSE LET s == balloc(st) IN [s EXCEPT !.a[i] = s.addr]

\* Mutant: a new pointer in an indirect block is kept in ip->addrs[] only.
BlockPtrLost(st, i) ==
    LET b == st.addr IN
    IF st.blk[b][i] # 0 THEN [st EXCEPT !.addr = st.blk[b][i]]
    ELSE [balloc(st) EXCEPT !.log = @ \cup {b}]

\* The same for entry i of the indirect block st.addr, which is then logged.
BlockPtr(st, i) ==
    LET b == st.addr IN
    IF st.blk[b][i] # 0 THEN [st EXCEPT !.addr = st.blk[b][i]]
    ELSE LET s == balloc(st) IN [s EXCEPT !.blk[b][i] = s.addr, !.log = @ \cup {b}]

\* bmap(ip, bn).
bmap(st, bn) ==
    LET bn1 == bn - NDIRECT
        bn2 == bn1 - NINDIRECT
    IN
    IF bn < NDIRECT THEN InodePtr(st, bn)
    ELSE IF bn1 < NINDIRECT THEN BlockPtr(InodePtr(st, NDIRECT), bn1)
    ELSE BlockPtr(BlockPtr(InodePtr(st, NDIRECT + 1), bn2 \div NINDIRECT), bn2 % NINDIRECT)

SmallerOf(a, b) == IF a < b THEN a ELSE b

\* The bytes one turn of the loop moves, at byte o of the file with n left.
Turn(o, n) == SmallerOf(n, BSIZE - (o % BSIZE))

-----------------------------------------------------------------------------
\* Mutant: without the factor for the allocation blocks.
MaxChunkDouble == (MaxOpBlocks - 1 - 1 - 2) * BSIZE

\* filewrite(): as many bytes per transaction as its comment reckons safe.
MaxChunk == ((MaxOpBlocks - 1 - 1 - 2) \div 2) * BSIZE

\* write() of n bytes starts its first transaction.
SysWrite(f, n) ==
    /\ wr = NoWrite
    /\ nops < MaxFileOps
    /\ nops' = nops + 1
    /\ wr' = [file |-> f, left |-> n, n1 |-> SmallerOf(n, MaxChunk), tot |-> 0]
    /\ txn' = {}
    /\ UNCHANGED <<diskState, off, content>>

\* writei() refuses what begins behind the end or would end behind MAXFILE;
\* write() returns -1.
WriteRefused ==
    LET f == wr.file IN
    /\ wr # NoWrite /\ wr.tot = 0
    /\ off[f] > size[f] \/ off[f] + wr.n1 > MAXFILE * BSIZE
    /\ wr' = NoWrite
    /\ UNCHANGED <<diskState, off, txn, nops, content>>

InRange == off[wr.file] <= size[wr.file] /\ off[wr.file] + wr.n1 <= MAXFILE * BSIZE

\* s with the bytes o+1 to o+m set to v.
Overwrite(s, o, m, v) ==
    [i \in 1..(IF o + m > Len(s) THEN o + m ELSE Len(s)) |-> IF i > o /\ i <= o + m THEN v ELSE s[i]]

\* One turn of writei()'s loop: bmap(), copy, log_write().
WriteTurn ==
    LET f == wr.file
        o == off[f] + wr.tot
        m == Turn(o, wr.n1 - wr.tot)
        st == bmap(FsState(f), o \div BSIZE)
        b == st.addr
        lo == o % BSIZE
    IN
    /\ wr # NoWrite /\ InRange
    /\ wr.tot < wr.n1
    /\ Cardinality(BlockNo \ bitmap) >= 3
    /\ bitmap' = st.used
    /\ blk' = [st.blk EXCEPT ![b] =
                 [c \in Cells |-> IF c \in lo..lo + m - 1 THEN nops ELSE @[c]]]
    /\ addrs' = [addrs EXCEPT ![f] = st.a]
    /\ txn' = txn \cup st.log \cup {b}
    /\ wr' = [wr EXCEPT !.tot = @ + m]
    /\ content' = [content EXCEPT ![f] = Overwrite(@, o, m, nops)]
    /\ UNCHANGED <<size, off, nops>>

\* The chunk is done; filewrite() goes on with the rest, if any, in a transaction
\* of its own.
NextChunk(logged) ==
    LET left == wr.left - wr.n1 IN
    /\ off' = [off EXCEPT ![wr.file] = @ + wr.n1]
    /\ txn' = IF left = 0 THEN txn \cup logged \cup {InodeBlock} ELSE {}
    /\ wr' = IF left = 0 THEN NoWrite
             ELSE [wr EXCEPT !.left = left, !.n1 = SmallerOf(left, MaxChunk), !.tot = 0]

\* copyin() fails, before it has copied anything: bmap() has been called, the loop
\* is left, the size covers what was copied, and writei() returns n all the same.
WriteFault ==
    LET f == wr.file
        o == off[f] + wr.tot
        st == bmap(FsState(f), o \div BSIZE)
    IN
    /\ wr # NoWrite /\ InRange
    /\ wr.tot < wr.n1
    /\ Cardinality(BlockNo \ bitmap) >= 3
    /\ bitmap' = st.used /\ blk' = st.blk
    /\ addrs' = [addrs EXCEPT ![f] = st.a]
    /\ size' = [size EXCEPT ![f] = IF o > @ THEN o ELSE @]
    /\ NextChunk(st.log)
    /\ UNCHANGED <<nops, content>>

\* The end of writei() and of the transaction.
WriteChunkDone ==
    LET f == wr.file
        o == off[f] + wr.n1
    IN
    /\ wr # NoWrite
    /\ wr.tot = wr.n1
    /\ size' = [size EXCEPT ![f] = IF o > @ THEN o ELSE @]
    /\ NextChunk({})
    /\ UNCHANGED <<bitmap, blk, addrs, nops, content>>

\* read(): readi() returns what there is, and f->off moves on.
SysRead(f, n) ==
    /\ wr = NoWrite
    /\ off[f] < size[f]
    /\ off' = [off EXCEPT ![f] = @ + SmallerOf(n, size[f] - @)]
    /\ UNCHANGED <<diskState, txn, wr, nops, content>>

\* open() once more: the offset is 0.
SysReopen(f) ==
    /\ wr = NoWrite
    /\ off' = [off EXCEPT ![f] = 0]
    /\ UNCHANGED <<diskState, txn, wr, nops, content>>

\* The blocks itrunc() frees: the direct ones, those of the indirect block and
\* the indirect block itself.
Truncated(f) ==
    LET ind == addrs[f][NDIRECT] IN
    ({addrs[f][i] : i \in 0..NDIRECT - 1}
       \cup IF ind = 0 THEN {} ELSE {ind} \cup {blk[ind][j] : j \in 0..NINDIRECT - 1}) \ {0}

\* Mutant: itrunc() forgets to clear the direct pointers.
ItruncKeeps(f) ==
    /\ wr = NoWrite
    /\ bitmap' = bitmap \ Truncated(f)
    /\ addrs' = [addrs EXCEPT ![f][NDIRECT] = 0]
    /\ size' = [size EXCEPT ![f] = 0]
    /\ off' = [off EXCEPT ![f] = 0]
    /\ txn' = {BitmapBlock, InodeBlock}
    /\ content' = [content EXCEPT ![f] = <<>>]
    /\ UNCHANGED <<blk, wr, nops>>

\* The last iput() of an unlinked file: itrunc(); ialloc() then gives the inode
\* to a new file with all pointers zero.
Itrunc(f) ==
    /\ wr = NoWrite
    /\ bitmap' = bitmap \ Truncated(f)
    /\ addrs' = [addrs EXCEPT ![f] = [i \in 0..NDIRECT + 1 |-> 0]]
    /\ size' = [size EXCEPT ![f] = 0]
    /\ off' = [off EXCEPT ![f] = 0]
    /\ txn' = {BitmapBlock, InodeBlock}
    /\ content' = [content EXCEPT ![f] = <<>>]
    /\ UNCHANGED <<blk, wr, nops>>

BmapNext ==
    \/ \E f \in File, n \in WriteSizes : SysWrite(f, n) \/ SysRead(f, n)
    \/ WriteRefused \/ WriteTurn \/ WriteFault \/ WriteChunkDone
    \/ \E f \in File : SysReopen(f) \/ Itrunc(f)

BmapSpec == BmapInit /\ [][BmapNext]_bmapVars

-----------------------------------------------------------------------------
\* Block numbers and sizes are in range, and transactions name blocks.
BmapTypeOK ==
    /\ bitmap \subseteq BlockNo
    /\ addrs \in [File -> [0..NDIRECT + 1 -> BlockNo \cup {0}]]
    /\ \A f \in File : size[f] \in 0..MAXFILE * BSIZE
    /\ \A f \in File : off[f] \in Nat
    /\ txn \subseteq BlockNo \cup {InodeBlock, BitmapBlock}
    /\ wr.file \in File \cup {NoFile}

\* The pointers of a file: pairs of the place of a pointer and its value.
Live(S) == {x \in S : x[2] # 0}
Pointees(b) == IF b = 0 THEN {} ELSE Live({<< <<b, j>>, blk[b][j] >> : j \in 0..NINDIRECT - 1})
Pointers(f) ==
    LET direct == Live({<< <<f, i>>, addrs[f][i] >> : i \in 0..NDIRECT + 1})
        level1 == Pointees(addrs[f][NDIRECT])
        double == Pointees(addrs[f][NDIRECT + 1])
    IN direct \cup level1 \cup double \cup UNION {Pointees(x[2]) : x \in double}

Reachable == UNION {{x[2] : x \in Pointers(f)} : f \in File}

\* Every block a file uses is marked in the bitmap, and exactly one pointer leads
\* to it: no two files, and no two places of one file, share a block, so that
\* bfree() never frees a free block (it would panic).
BlocksOwnedOnce ==
    LET all == UNION {Pointers(f) : f \in File} IN
    /\ Reachable \subseteq bitmap
    /\ \A x, y \in all : x[2] = y[2] => x = y

ByteAt(f, o) == LET st == bmap(FsState(f), o \div BSIZE) IN st.blk[st.addr][o % BSIZE]

\* What was written is what is read, at every offset below ip->size and on every
\* level of the map, while the file grows, is truncated and written over, and
\* whichever copies fail.
FileReadsBack ==
    \A f \in File : f # wr.file =>
        \A o \in 0..size[f] - 1 : ByteAt(f, o) = content[f][o + 1]

\* A transaction of filewrite() logs no more blocks than begin_op() has reserved
\* for it, whatever pointers and levels of the map it crosses ("write a few
\* blocks at a time to avoid exceeding the maximum log transaction size").
TransactionFits == Cardinality(txn \cup {InodeBlock}) <= MaxOpBlocks
=============================================================================
