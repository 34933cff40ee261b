------------------------------- MODULE Inode -------------------------------
(***************************************************************************)
(* The inode cache of xv7/kernel/fs.c (iget, ilock, iput, ialloc), path    *)
(* lookup, and the calls of sysfile.c that change directories: open,       *)
(* mkdir, link, unlink, and close.                                         *)
(*                                                                         *)
(* A call is a list of pending operations, k[p]; the head is what process  *)
(* p does next.  A step ends before every ilock(), which may wait, and     *)
(* around every critical section of icache.lock, so that other calls come  *)
(* in between.  What is done to an inode under its sleeplock is one step.  *)
(* Calls run inside transactions of Log, so crashes are not modelled here; *)
(* file contents and block numbers are in Bmap.                            *)
(***************************************************************************)
EXTENDS Integers, Sequences, FiniteSets

CONSTANTS
    FsProc,         \* the processes
    NoFsProc,       \* an inode that nobody has locked
    NInum,          \* inodes on the disk, numbered from 1; 1 is the root
    NInode,         \* entries of the inode cache
    FsName,         \* names of directory entries
    FsDir, FsFile,  \* the names of the directory and the file that exist at first
    MaxFsCalls      \* BOUND: calls in all, not counting close()

ASSUME InodeAssumption ==
    /\ NInum \in Nat /\ NInum >= 3
    /\ NInode \in Nat
    /\ NoFsProc \notin FsProc
    /\ FsDir \in FsName /\ FsFile \in FsName \ {FsDir}
    /\ MaxFsCalls \in Nat

Inum == 1..NInum
ISlot == 1..NInode
ROOTINO == 1
NoInum == 0

\* BOUND: the paths that programs use, as sequences of names.
FsPath == {<<FsDir>>, <<FsFile>>, <<FsDir, FsFile>>}

VARIABLES
    icache,     \* icache.inode[]
    dinode,     \* struct dinode of each inode, on disk
    dirent,     \* contents of each directory: name -> inode number, 0 is empty
    k,          \* pending operations of each process's system call
    call,       \* which call that is
    path,       \* what is left of the path it walks
    path2,      \* link()'s second argument
    cur,        \* the inode of namex(), later dp
    ip,         \* the call's other inode
    fd,         \* the inode of the process's open file, 0 if none
    ncalls

regVars == <<call, path, path2, cur, ip>>
inodeVars == <<icache, dinode, dirent, k, regVars, fd, ncalls>>

NoEntries == [n \in FsName |-> NoInum]

\* A disk with an empty directory and a file in the root.
FsInit ==
    /\ icache = [s \in ISlot |-> [inum |-> NoInum, ref |-> 0, valid |-> FALSE,
                                  holder |-> NoFsProc, type |-> "none", nlink |-> 0]]
    /\ dinode = [i \in Inum |->
                   CASE i = 1 -> [type |-> "dir", nlink |-> 2]
                     [] i = 2 -> [type |-> "dir", nlink |-> 1]
                     [] i = 3 -> [type |-> "file", nlink |-> 1]
                     [] OTHER -> [type |-> "none", nlink |-> 0]]
    /\ dirent = [i \in Inum |-> IF i = 1 THEN [NoEntries EXCEPT ![FsDir] = 2, ![FsFile] = 3] ELSE NoEntries]
    /\ k = [p \in FsProc |-> <<>>]
    /\ call = [p \in FsProc |-> "none"]
    /\ path = [p \in FsProc |-> <<>>] /\ path2 = [p \in FsProc |-> <<>>]
    /\ cur = [p \in FsProc |-> 0] /\ ip = [p \in FsProc |-> 0]
    /\ fd = [p \in FsProc |-> 0]
    /\ ncalls = 0

-----------------------------------------------------------------------------
(***************************************************************************)
(* The inode cache.                                                        *)
(***************************************************************************)

\* The entries in use for inode i.
Cached(i) == {s \in ISlot : icache[s].ref > 0 /\ icache[s].inum = i}
Empty == {s \in ISlot : icache[s].ref = 0}

\* The entry iget(i) returns: the cached one, or the first empty one.
IgetSlot(i) ==
    IF Cached(i) # {} THEN CHOOSE s \in Cached(i) : TRUE
                      ELSE CHOOSE s \in Empty : \A t \in Empty : s <= t

\* iget(i) on a cache c (icache, after what the step itself has done to other
\* entries).  It panics when every entry is in use.
iget(c, i) ==
    LET s == IgetSlot(i) IN
    IF Cached(i) # {} THEN [c EXCEPT ![s].ref = @ + 1]
    ELSE [c EXCEPT ![s].inum = i, ![s].ref = 1, ![s].valid = FALSE]

CanIget(i) == Cached(i) # {} \/ Empty # {}

\* releasesleep(&ip->lock) in iunlock().
iunlock(c, s) == [c EXCEPT ![s].holder = NoFsProc]

\* iupdate(): the disk inode gets the cached type and link count.
iupdate(d, c, s) == [d EXCEPT ![c[s].inum] = [type |-> c[s].type, nlink |-> c[s].nlink]]

\* The operation process p is about to perform, and what comes after it.
Op(p, op) == k[p] # <<>> /\ Head(k[p])[1] = op
Arg(p) == Head(k[p])[2]
Then(p, ops) == k' = [k EXCEPT ![p] = ops \o Tail(@)]

lock_cur == <<"lock", "cur">>
lock_ip  == <<"lock", "ip">>
put(s)   == <<"put", s>>

\* ilock(): acquiresleep(), and the inode is read if it is not valid.
ilock(p) ==
    LET s == IF Arg(p) = "cur" THEN cur[p] ELSE ip[p]
        d == dinode[icache[s].inum]
    IN
    /\ Op(p, "lock")
    /\ icache[s].holder = NoFsProc
    /\ icache' = [icache EXCEPT ![s] =
         IF @.valid THEN [@ EXCEPT !.holder = p]
         ELSE [@ EXCEPT !.holder = p, !.valid = TRUE, !.type = d.type, !.nlink = d.nlink]]
    /\ Then(p, <<>>)
    /\ UNCHANGED <<dinode, dirent, regVars, fd, ncalls>>

\* iunlock(dp) alone, where the call still has to drop ip first.
UnlockCur(p) ==
    /\ Op(p, "unlock")
    /\ icache' = iunlock(icache, cur[p])
    /\ Then(p, <<>>)
    /\ UNCHANGED <<dinode, dirent, regVars, fd, ncalls>>

\* Mutant: the test of iput() does not look at ref.
LastUseAny(s) == icache[s].valid /\ icache[s].nlink = 0

LastUse(s) == icache[s].ref = 1 /\ icache[s].valid /\ icache[s].nlink = 0

\* iput() of an inode that others use or that has links.
IputDrop(p) ==
    /\ Op(p, "put")
    /\ ~LastUse(Arg(p))
    /\ icache' = [icache EXCEPT ![Arg(p)].ref = @ - 1]
    /\ Then(p, <<>>)
    /\ UNCHANGED <<dinode, dirent, regVars, fd, ncalls>>

\* iput() of the last reference to an inode without links: acquiresleep() while
\* icache.lock is held, then the inode is truncated and freed ...
IputLast(p) ==
    /\ Op(p, "put")
    /\ LastUse(Arg(p))
    /\ icache[Arg(p)].holder = NoFsProc
    /\ icache' = [icache EXCEPT ![Arg(p)].holder = p]
    /\ Then(p, << <<"free", Arg(p)>>, <<"freed", Arg(p)>>, <<"drop", Arg(p)>> >>)
    /\ UNCHANGED <<dinode, dirent, regVars, fd, ncalls>>

\* ... itrunc(), type = 0, iupdate(): from here on ialloc() can have it ...
IputFree(p) ==
    LET s == Arg(p)
        c == [icache EXCEPT ![s].type = "none"]
    IN
    /\ Op(p, "free")
    /\ icache' = c
    /\ dinode' = iupdate(dinode, c, s)
    /\ dirent' = [dirent EXCEPT ![icache[s].inum] = NoEntries]
    /\ Then(p, <<>>)
    /\ UNCHANGED <<regVars, fd, ncalls>>

\* ... valid = 0, releasesleep() ...
IputFreed(p) ==
    /\ Op(p, "freed")
    /\ icache' = [icache EXCEPT ![Arg(p)].valid = FALSE, ![Arg(p)].holder = NoFsProc]
    /\ Then(p, <<>>)
    /\ UNCHANGED <<dinode, dirent, regVars, fd, ncalls>>

\* ... and ref-- under icache.lock again.
IputDropFreed(p) ==
    /\ Op(p, "drop")
    /\ icache' = [icache EXCEPT ![Arg(p)].ref = @ - 1]
    /\ Then(p, <<>>)
    /\ UNCHANGED <<dinode, dirent, regVars, fd, ncalls>>

-----------------------------------------------------------------------------
(***************************************************************************)
(* namex().                                                                *)
(***************************************************************************)

WantsParent(p) == call[p] \in {"create", "mkdir", "unlink", "linknew"}

\* A call whose namex() fails returns -1; link() first takes nlink back.
OnFail(p) == IF call[p] = "linknew" THEN <<lock_ip, <<"linkbad", 0>> >> ELSE <<>>

EntryOf(p) == dirent[icache[cur[p]].inum][Head(path[p])]

\* One turn of namex()'s loop, with cur locked; it always ends in iunlock().
WalkFails(p) ==
    /\ Op(p, "walk")
    /\ \/ icache[cur[p]].type # "dir"
       \/ ~(WantsParent(p) /\ Len(path[p]) = 1) /\ EntryOf(p) = NoInum
    /\ icache' = iunlock(icache, cur[p])
    /\ k' = [k EXCEPT ![p] = <<put(cur[p])>> \o OnFail(p)]
    /\ UNCHANGED <<dinode, dirent, regVars, fd, ncalls>>

\* nameiparent() stops one level early.
WalkParent(p) ==
    /\ Op(p, "walk")
    /\ icache[cur[p]].type = "dir"
    /\ WantsParent(p) /\ Len(path[p]) = 1
    /\ icache' = iunlock(icache, cur[p])
    /\ Then(p, <<>>)
    /\ UNCHANGED <<dinode, dirent, regVars, fd, ncalls>>

\* dirlookup() finds the next inode; iunlockput(ip); ip = next.
WalkDown(p) ==
    LET next == IgetSlot(EntryOf(p)) IN
    /\ Op(p, "walk")
    /\ icache[cur[p]].type = "dir"
    /\ ~(WantsParent(p) /\ Len(path[p]) = 1)
    /\ EntryOf(p) # NoInum
    /\ CanIget(EntryOf(p))
    /\ icache' = iget(iunlock(icache, cur[p]), EntryOf(p))
    /\ cur' = [cur EXCEPT ![p] = next]
    /\ path' = [path EXCEPT ![p] = Tail(@)]
    /\ Then(p, IF Len(path[p]) = 1 THEN <<put(cur[p])>>
                                   ELSE <<put(cur[p]), lock_cur, <<"walk", 0>> >>)
    /\ UNCHANGED <<dinode, dirent, call, path2, ip, fd, ncalls>>

\* The start of namex(): iget(ROOTINO), then the walk, then ops.
Namex(p, c, q, ops) ==
    /\ CanIget(ROOTINO)
    /\ cur' = [cur EXCEPT ![p] = IgetSlot(ROOTINO)]
    /\ path' = [path EXCEPT ![p] = q]
    /\ call' = [call EXCEPT ![p] = c]
    /\ k' = [k EXCEPT ![p] = <<lock_cur, <<"walk", 0>>, lock_cur>> \o ops]

-----------------------------------------------------------------------------
(***************************************************************************)
(* System calls.                                                           *)
(***************************************************************************)

Enter(p) == k[p] = <<>> /\ ncalls < MaxFsCalls /\ ncalls' = ncalls + 1

SysPath(p) ==
    /\ Enter(p)
    /\ \E q \in FsPath :
         \/ fd[p] = 0 /\ Namex(p, "open", q, << <<"open", 0>> >>)
         \/ fd[p] = 0 /\ Namex(p, "create", q, << <<"create", 0>> >>)
         \/ Namex(p, "mkdir", q, << <<"create", 0>> >>)
         \/ Namex(p, "unlink", q, << <<"unlink", 0>> >>)
    /\ icache' = iget(icache, ROOTINO)
    /\ UNCHANGED <<dinode, dirent, path2, ip, fd>>

SysLink(p) ==
    /\ Enter(p)
    /\ \E q, r \in FsPath : q # r /\ Namex(p, "link", q, << <<"link", 0>> >>)
                                  /\ path2' = [path2 EXCEPT ![p] = r]
    /\ icache' = iget(icache, ROOTINO)
    /\ UNCHANGED <<dinode, dirent, ip, fd>>

\* close(), as the last user of the struct file: fileclose() calls iput().
SysClose(p) ==
    /\ k[p] = <<>> /\ fd[p] # 0
    /\ k' = [k EXCEPT ![p] = <<put(fd[p])>>]
    /\ fd' = [fd EXCEPT ![p] = 0]
    /\ UNCHANGED <<icache, dinode, dirent, regVars, ncalls>>

\* open() without O_CREATE: a directory may only be opened for reading.  The
\* file table or the descriptors may be full.
OpenFound(p) ==
    /\ Op(p, "open")
    /\ icache' = iunlock(icache, cur[p])
    /\ \/ fd' = [fd EXCEPT ![p] = cur[p]] /\ Then(p, <<>>)
       \/ UNCHANGED fd /\ Then(p, <<put(cur[p])>>)
    /\ UNCHANGED <<dinode, dirent, regVars, ncalls>>

\* create() finds the name: dp is let go before ip is locked.
CreateFound(p) ==
    /\ Op(p, "create")
    /\ EntryOf(p) # NoInum
    /\ CanIget(EntryOf(p))
    /\ icache' = iget(iunlock(icache, cur[p]), EntryOf(p))
    /\ ip' = [ip EXCEPT ![p] = IgetSlot(EntryOf(p))]
    /\ Then(p, <<put(cur[p]), lock_ip, <<"exists", 0>> >>)
    /\ UNCHANGED <<dinode, dirent, call, path, path2, cur, fd, ncalls>>

\* create() of an existing file is an open(); anything else fails.
CreateExists(p) ==
    /\ Op(p, "exists")
    /\ IF call[p] = "create" /\ icache[ip[p]].type = "file"
       THEN Then(p, << <<"opened", 0>> >>) /\ UNCHANGED icache
       ELSE Then(p, <<put(ip[p])>>) /\ icache' = iunlock(icache, ip[p])
    /\ UNCHANGED <<dinode, dirent, regVars, fd, ncalls>>

FreeInum == {i \in Inum : dinode[i].type = "none"}

\* create() does not find it: ialloc() takes the first free inode and iget()s it.
CreateAlloc(p) ==
    LET i == CHOOSE i \in FreeInum : \A j \in FreeInum : i <= j IN
    /\ Op(p, "create")
    /\ EntryOf(p) = NoInum
    /\ FreeInum # {} /\ CanIget(i)
    /\ dinode' = [dinode EXCEPT ![i] = [type |-> IF call[p] = "mkdir" THEN "dir" ELSE "file",
                                        nlink |-> 0]]
    /\ icache' = iget(icache, i)
    /\ ip' = [ip EXCEPT ![p] = IgetSlot(i)]
    /\ Then(p, <<lock_ip, <<"fill", 0>> >>)
    /\ UNCHANGED <<dirent, call, path, path2, cur, fd, ncalls>>

\* The new inode gets its link, a new directory its dots (".." is a link to dp),
\* dp the entry; iunlockput(dp).
CreateFill(p) ==
    LET c == [icache EXCEPT ![ip[p]].nlink = 1,
                            ![cur[p]].nlink = IF call[p] = "mkdir" THEN @ + 1 ELSE @]
    IN
    /\ Op(p, "fill")
    /\ icache' = iunlock(c, cur[p])
    /\ dinode' = iupdate(iupdate(dinode, c, ip[p]), c, cur[p])
    /\ dirent' = [dirent EXCEPT ![icache[cur[p]].inum][Head(path[p])] = icache[ip[p]].inum]
    /\ Then(p, <<put(cur[p]), <<"opened", 0>> >>)
    /\ UNCHANGED <<regVars, fd, ncalls>>

\* The rest of open() and mkdir(), with ip locked.
Opened(p) ==
    /\ Op(p, "opened")
    /\ icache' = iunlock(icache, ip[p])
    /\ \/ call[p] = "create" /\ fd' = [fd EXCEPT ![p] = ip[p]] /\ Then(p, <<>>)
       \/ UNCHANGED fd /\ Then(p, <<put(ip[p])>>)
    /\ UNCHANGED <<dinode, dirent, regVars, ncalls>>

\* sys_unlink(): no such entry, "goto bad" unlocks and puts dp.
UnlinkMissing(p) ==
    /\ Op(p, "unlink")
    /\ EntryOf(p) = NoInum
    /\ icache' = iunlock(icache, cur[p])
    /\ Then(p, <<put(cur[p])>>)
    /\ UNCHANGED <<dinode, dirent, regVars, fd, ncalls>>

UnlinkFound(p) ==
    /\ Op(p, "unlink")
    /\ EntryOf(p) # NoInum
    /\ CanIget(EntryOf(p))
    /\ icache' = iget(icache, EntryOf(p))
    /\ ip' = [ip EXCEPT ![p] = IgetSlot(EntryOf(p))]
    /\ Then(p, <<lock_ip, <<"unlinked", 0>> >>)
    /\ UNCHANGED <<dinode, dirent, call, path, path2, cur, fd, ncalls>>

isdirempty(s) == dirent[icache[s].inum] = NoEntries

\* A directory that is not empty stays: iunlockput(ip), iunlockput(dp).
UnlinkNotEmpty(p) ==
    /\ Op(p, "unlinked")
    /\ icache[ip[p]].type = "dir" /\ ~isdirempty(ip[p])
    /\ icache' = iunlock(icache, ip[p])
    /\ Then(p, <<put(ip[p]), <<"unlock", 0>>, put(cur[p])>>)
    /\ UNCHANGED <<dinode, dirent, regVars, fd, ncalls>>

\* The entry is cleared, dp loses the link of "..", iunlockput(dp) ...
UnlinkErase(p) ==
    LET c == [icache EXCEPT ![cur[p]].nlink = IF icache[ip[p]].type = "dir" THEN @ - 1 ELSE @]
    IN
    /\ Op(p, "unlinked")
    /\ ~(icache[ip[p]].type = "dir" /\ ~isdirempty(ip[p]))
    /\ dirent' = [dirent EXCEPT ![icache[cur[p]].inum][Head(path[p])] = NoInum]
    /\ icache' = iunlock(c, cur[p])
    /\ dinode' = iupdate(dinode, c, cur[p])
    /\ Then(p, <<put(cur[p]), <<"unlinkip", 0>> >>)
    /\ UNCHANGED <<regVars, fd, ncalls>>

\* A link less for ip, which is locked; then iunlockput(ip).
DropLink(p, op) ==
    LET c == [icache EXCEPT ![ip[p]].nlink = @ - 1] IN
    /\ Op(p, op)
    /\ icache' = iunlock(c, ip[p])
    /\ dinode' = iupdate(dinode, c, ip[p])
    /\ Then(p, <<put(ip[p])>>)
    /\ UNCHANGED <<dirent, regVars, fd, ncalls>>

\* ... and ip->nlink--, iupdate(), iunlockput(ip).
UnlinkInode(p) == DropLink(p, "unlinkip")

\* Mutant: link() of a directory puts it without unlocking it.
LinkDirLocked(p) ==
    /\ Op(p, "link")
    /\ icache[cur[p]].type = "dir"
    /\ Then(p, <<put(cur[p])>>)
    /\ UNCHANGED <<icache, dinode, dirent, regVars, fd, ncalls>>

\* link(): a directory cannot be linked.
LinkDir(p) ==
    /\ Op(p, "link")
    /\ icache[cur[p]].type = "dir"
    /\ icache' = iunlock(icache, cur[p])
    /\ Then(p, <<put(cur[p])>>)
    /\ UNCHANGED <<dinode, dirent, regVars, fd, ncalls>>

\* Mutant: link() does not count the new link.
LinkOldUncounted(p) ==
    /\ Op(p, "link")
    /\ icache[cur[p]].type # "dir"
    /\ icache' = iget(iunlock(icache, cur[p]), ROOTINO)
    /\ ip' = [ip EXCEPT ![p] = cur[p]]
    /\ Namex(p, "linknew", path2[p], << <<"linknew", 0>> >>)
    /\ UNCHANGED <<dinode, dirent, path2, fd, ncalls>>

\* nlink++ first, then nameiparent(new) with nothing locked.
LinkOld(p) ==
    LET c == [icache EXCEPT ![cur[p]].nlink = @ + 1] IN
    /\ Op(p, "link")
    /\ icache[cur[p]].type # "dir"
    /\ dinode' = iupdate(dinode, c, cur[p])
    /\ icache' = iget(iunlock(c, cur[p]), ROOTINO)
    /\ ip' = [ip EXCEPT ![p] = cur[p]]
    /\ Namex(p, "linknew", path2[p], << <<"linknew", 0>> >>)
    /\ UNCHANGED <<dirent, path2, fd, ncalls>>

\* dirlink(): the name exists (its inode is looked up and put again).
LinkExists(p) ==
    /\ Op(p, "linknew")
    /\ EntryOf(p) # NoInum
    /\ icache' = iunlock(icache, cur[p])
    /\ Then(p, <<put(cur[p])>> \o OnFail(p))
    /\ UNCHANGED <<dinode, dirent, regVars, fd, ncalls>>

LinkNew(p) ==
    /\ Op(p, "linknew")
    /\ EntryOf(p) = NoInum
    /\ dirent' = [dirent EXCEPT ![icache[cur[p]].inum][Head(path[p])] = icache[ip[p]].inum]
    /\ icache' = iunlock(icache, cur[p])
    /\ Then(p, <<put(cur[p]), put(ip[p])>>)
    /\ UNCHANGED <<dinode, regVars, fd, ncalls>>

\* "bad:" of link(): nlink-- again.
LinkBad(p) == DropLink(p, "linkbad")

-----------------------------------------------------------------------------

FsStep(p) ==
    \/ ilock(p) \/ UnlockCur(p) \/ IputDrop(p) \/ IputLast(p) \/ IputFree(p) \/ IputFreed(p)
    \/ IputDropFreed(p) \/ WalkFails(p) \/ WalkParent(p) \/ WalkDown(p)
    \/ OpenFound(p) \/ CreateFound(p) \/ CreateExists(p) \/ CreateAlloc(p) \/ CreateFill(p)
    \/ Opened(p) \/ UnlinkMissing(p) \/ UnlinkFound(p) \/ UnlinkNotEmpty(p) \/ UnlinkErase(p)
    \/ UnlinkInode(p) \/ LinkDir(p) \/ LinkOld(p) \/ LinkExists(p) \/ LinkNew(p) \/ LinkBad(p)

FsNext == \E p \in FsProc : SysPath(p) \/ SysLink(p) \/ SysClose(p) \/ FsStep(p)

FsSpec == FsInit /\ [][FsNext]_inodeVars

-----------------------------------------------------------------------------
\* The values of the fields of struct inode and struct dinode.
InodeTypeOK ==
    /\ \A s \in ISlot : /\ icache[s].inum \in Inum \cup {NoInum}
                        /\ icache[s].ref \in Nat /\ icache[s].nlink \in Nat
                        /\ icache[s].valid \in BOOLEAN
                        /\ icache[s].holder \in FsProc \cup {NoFsProc}
    /\ \A i \in Inum : dinode[i].type \in {"none", "file", "dir"} /\ dinode[i].nlink \in Nat
    /\ dirent \in [Inum -> [FsName -> Inum \cup {NoInum}]]
    /\ cur \in [FsProc -> ISlot \cup {0}] /\ ip \in [FsProc -> ISlot \cup {0}]
    /\ fd \in [FsProc -> ISlot \cup {0}]

FsIdle == \A p \in FsProc : k[p] = <<>>

\* Whenever no call is under way, ip->ref counts exactly the open files: no path
\* through any call loses a reference or puts one twice.
RefsBalanced ==
    FsIdle => \A s \in ISlot : icache[s].ref = Cardinality({p \in FsProc : fd[p] = s})

\* An inode is cached once: two processes that iget() it share a struct inode,
\* also while iput() is freeing it and ialloc() has just given it away again.
CachedOnce == \A i \in Inum : Cardinality(Cached(i)) <= 1

\* A file that is open, or that a call has locked for its own use, is allocated
\* on disk, and what the cache holds of it is what the disk holds: unlink()
\* does not free what others have open, and ilock() never panics for lack of a
\* type.
Freeing(s) == \E p \in FsProc : (Op(p, "free") \/ Op(p, "freed")) /\ Arg(p) = s
InUseAllocated ==
    /\ \A p \in FsProc : fd[p] # 0 => dinode[icache[fd[p]].inum].type # "none"
    /\ \A s \in ISlot : icache[s].holder # NoFsProc /\ ~Freeing(s) =>
         /\ icache[s].type # "none"
         /\ dinode[icache[s].inum] = [type |-> icache[s].type, nlink |-> icache[s].nlink]

\* The comment in iput(): "ip->ref == 1 means no other process can have ip
\* locked, so this acquiresleep() won't block (or deadlock)", with icache.lock
\* held.
IputWontBlock ==
    \A p \in FsProc : Op(p, "put") /\ LastUse(Arg(p)) => icache[Arg(p)].holder = NoFsProc

\* An inode in use stays what it is: iput() in the middle of freeing an inode,
\* iget() of the same number and ialloc() of a free one never meet on it.
InodesInUse == CachedOnce /\ InUseAllocated /\ IputWontBlock

\* No entry of a directory names a free inode, however calls interleave.
NoDanglingEntry ==
    \A i \in Inum, n \in FsName :
        dirent[i][n] # NoInum =>
            dinode[dirent[i][n]].type # "none" /\ dinode[dirent[i][n]].nlink >= 1

\* The tree and the references to it: no name without an inode, and no reference
\* left over or missing when all calls have returned.
TreeConsistent == NoDanglingEntry /\ RefsBalanced

\* Calls that hold some inodes and wait for others never wait in a circle:
\* unlink() and create() lock a directory before what is in it.
NoFsDeadlock == FsIdle \/ \E p \in FsProc : ENABLED FsStep(p)

Parents(i) == {e \in Inum \X FsName : dirent[e[1]][e[2]] = i}
Subdirs(i) == {n \in FsName : dirent[i][n] # NoInum /\ dinode[dirent[i][n]].type = "dir"}

\* fs.h calls nlink the "Number of links to inode in file system": between calls
\* it is the number of entries for it, and for a directory of those whose ".."
\* it is; inodes without entries and without users are free.
LinksCounted ==
    FsIdle => \A i \in Inum \ {ROOTINO} : dinode[i].type # "none" =>
        dinode[i].nlink = Cardinality(Parents(i)) + Cardinality(Subdirs(i))
=============================================================================
