---------------------------- MODULE InodeProofs -----------------------------
(***************************************************************************)
(* Theorems about the inodes and directories of xv7 (Inode), for every     *)
(* number of processes, inodes, entries of the inode cache and descriptors:*)
(* no inode that is in use is freed, and nlink covers the entries and the  *)
(* calls that are about to add one.                                        *)
(***************************************************************************)
EXTENDS Inode, ModArith, FiniteSetTheorems, FunctionTheorems, SequenceTheorems, TLAPS

-----------------------------------------------------------------------------
(***************************************************************************)
(* The inductive invariant of Inode.  What process p still has to do, k[p],*)
(* is the iput() it is in the middle of, if any, and then one of the lists *)
(* below; z[p] says which:                                                 *)
(*   ph  how far the iput() of entry s has come: "none" if p is in none,   *)
(*       "put" before it, and "free", "freed", "drop" while it frees s;    *)
(*   b   where in the call p is, and t the entry it puts last in "unlock"  *)
(*       and "put".                                                        *)
(***************************************************************************)
WalkB == {"lockwalk", "walk", "lockop", "op"}
FillB == {"lockfill", "fill"}
UnlinkB == {"lockunlinked", "unlinked"}
BadB == {"unlinkip", "locklinkbad", "linkbad"}
PutB == {"unlock", "put"}
ExistB == {"lockexists", "exists", "opened"}
FsPlace == {"idle"} \cup WalkB \cup FillB \cup UnlinkB \cup BadB \cup PutB \cup ExistB
FsCall == {"none", "open", "create", "mkdir", "unlink", "link", "linknew"}
PutPhase == {"none", "put", "free", "freed", "drop"}
FsGhost == [ph : PutPhase, s : Nat, b : FsPlace, t : Nat]

\* The operation at the end of the path walk of call c.
LastOp(c) == <<IF c = "mkdir" THEN "create" ELSE c, 0>>

Prefix(g) ==
    CASE g.ph = "none" -> <<>>
      [] g.ph = "put" -> <<put(g.s)>>
      [] g.ph = "free" -> << <<"free", g.s>>, <<"freed", g.s>>, <<"drop", g.s>> >>
      [] g.ph = "freed" -> << <<"freed", g.s>>, <<"drop", g.s>> >>
      [] g.ph = "drop" -> << <<"drop", g.s>> >>

Rest(g, c) ==
    CASE g.b = "idle" -> <<>>
      [] g.b = "lockwalk" -> <<lock_cur, <<"walk", 0>>, lock_cur, LastOp(c)>>
      [] g.b = "walk" -> << <<"walk", 0>>, lock_cur, LastOp(c)>>
      [] g.b = "lockop" -> <<lock_cur, LastOp(c)>>
      [] g.b = "op" -> <<LastOp(c)>>
      [] g.b = "lockexists" -> <<lock_ip, <<"exists", 0>> >>
      [] g.b = "exists" -> << <<"exists", 0>> >>
      [] g.b = "opened" -> << <<"opened", 0>> >>
      [] g.b = "lockfill" -> <<lock_ip, <<"fill", 0>> >>
      [] g.b = "fill" -> << <<"fill", 0>> >>
      [] g.b = "lockunlinked" -> <<lock_ip, <<"unlinked", 0>> >>
      [] g.b = "unlinked" -> << <<"unlinked", 0>> >>
      [] g.b = "unlinkip" -> << <<"unlinkip", 0>> >>
      [] g.b = "locklinkbad" -> <<lock_ip, <<"linkbad", 0>> >>
      [] g.b = "linkbad" -> << <<"linkbad", 0>> >>
      [] g.b = "unlock" -> << <<"unlock", 0>>, put(g.t)>>
      [] g.b = "put" -> <<put(g.t)>>

\* The entries a process has references to.
HasCur(z, p) == z[p].b \in WalkB \cup FillB \cup UnlinkB
HasIp(z, p) == \/ z[p].b \in FillB \cup UnlinkB \cup BadB \cup ExistB
               \/ z[p].b \in WalkB /\ call[p] = "linknew"
HasPut(z, p) == z[p].ph # "none"
HasLast(z, p) == z[p].b \in PutB

One(c) == IF c THEN 1 ELSE 0

\* How many references to entry s process p has ...
RefCount(z, p, s) ==
    One(fd[p] = s) + One(HasCur(z, p) /\ cur[p] = s) + One(HasIp(z, p) /\ ip[p] = s)
        + One(HasPut(z, p) /\ z[p].s = s) + One(HasLast(z, p) /\ z[p].t = s)

\* ... and those through which it may still use the inode.
Uses(z, p, s) ==
    \/ fd[p] = s
    \/ HasCur(z, p) /\ cur[p] = s
    \/ HasIp(z, p) /\ ip[p] = s
    \/ z[p].ph \in {"put", "free"} /\ z[p].s = s
    \/ HasLast(z, p) /\ z[p].t = s

\* The inodes process p has locked.
Locks(z, p, s) ==
    \/ z[p].b \in {"walk", "op", "lockfill", "fill", "lockunlinked", "unlinked", "unlock"} /\ cur[p] = s
    \/ z[p].b \in {"exists", "opened", "fill", "unlinked", "unlinkip", "linkbad"} /\ ip[p] = s
    \/ z[p].ph \in {"free", "freed"} /\ z[p].s = s

\* unlink() has cleared the entry of ip, or link() has counted one it has not
\* written yet: nlink is one more than the entries show.
Pend(z, p) ==
    \/ z[p].b \in BadB
    \/ z[p].b \in WalkB /\ call[p] = "linknew"
Pending(z, i) == {p \in FsProc : Pend(z, p) /\ icache[ip[p]].inum = i}

IcacheType ==
    [ISlot -> [inum : Inum \cup {NoInum}, ref : Nat, valid : BOOLEAN, holder : FsProc \cup {NoFsProc},
               type : {"none", "file", "dir"}, nlink : Nat]]

FsTyped ==
    /\ icache \in IcacheType
    /\ dinode \in [Inum -> [type : {"none", "file", "dir"}, nlink : Nat]]
    /\ dirent \in [Inum -> [FsName -> Inum \cup {NoInum}]]
    /\ cur \in [FsProc -> ISlot \cup {0}] /\ ip \in [FsProc -> ISlot \cup {0}]
    /\ fd \in [FsProc -> ISlot \cup {0}]
    /\ path \in [FsProc -> Seq(FsName)] /\ path2 \in [FsProc -> Seq(FsName)]
    /\ call \in [FsProc -> FsCall]

\* The variables that what is left to do needs.
PlaceOK(g, p) ==
    /\ g.ph # "none" => g.s \in ISlot
    /\ g.b \in PutB => g.t \in ISlot
    /\ g.b = "unlock" => g.t = cur[p]
    /\ g.b \in WalkB \cup FillB \cup UnlinkB => cur[p] \in ISlot
    /\ g.b \in FillB \cup UnlinkB \cup BadB \cup ExistB => ip[p] \in ISlot
    /\ g.b \in WalkB /\ call[p] = "linknew" => ip[p] \in ISlot
    /\ g.b \in WalkB => call[p] # "none"
    /\ g.b \in {"lockwalk", "walk"} \cup FillB \cup UnlinkB => path[p] # <<>>
    /\ g.b \in {"lockop", "op"} /\ WantsParent(p) => path[p] # <<>>
    /\ g.b \in WalkB /\ call[p] = "link" => path2[p] # <<>>
    /\ g.b # "idle" /\ call[p] \in {"open", "create"} => fd[p] = 0
    /\ g.ph # "none" => g.b \notin FillB \cup UnlinkB
    /\ g.ph \in {"free", "freed"} =>
          /\ g.b \in {"walk", "op", "lockfill", "fill", "lockunlinked", "unlinked", "unlock"} => cur[p] # g.s
          /\ g.b \in {"exists", "opened", "fill", "unlinked", "unlinkip", "linkbad"} => ip[p] # g.s

Placed(z) ==
    /\ k = [p \in FsProc |-> Prefix(z[p]) \o Rest(z[p], call[p])]
    /\ \A p \in FsProc : PlaceOK(z[p], p)

HoldersOK(z) ==
    \A s \in ISlot : /\ \A p \in FsProc : icache[s].holder = p <=> Locks(z, p, s)
                     /\ icache[s].holder # NoFsProc => icache[s].valid

References(z, s) == {x \in FsProc \X Nat : x[2] >= 1 /\ x[2] <= RefCount(z, x[1], s)}
RefsExact(z) == \A s \in ISlot : IsFiniteSet(References(z, s)) /\ icache[s].ref = Cardinality(References(z, s))

OneEntry ==
    /\ \A s \in ISlot : icache[s].ref > 0 => icache[s].inum \in Inum
    /\ \A s, t \in ISlot : icache[s].ref > 0 /\ icache[t].ref > 0 /\ icache[s].inum = icache[t].inum => s = t

\* What the cache holds of an inode in use, unless it is being freed.
Coherent(z) ==
    \A s \in ISlot :
        icache[s].ref > 0 /\ icache[s].valid /\ (\A p \in FsProc : ~(z[p].ph = "freed" /\ z[p].s = s))
        => /\ dinode[icache[s].inum] = [type |-> icache[s].type, nlink |-> icache[s].nlink]
           /\ icache[s].type # "none"

UsedAllocated(z) ==
    \A p \in FsProc, s \in ISlot : Uses(z, p, s) => dinode[icache[s].inum].type # "none"

\* iput() frees an inode that has no links and no other user.
FreeingAlone(z) ==
    \A p \in FsProc : z[p].ph = "free" =>
        icache[z[p].s].ref = 1 /\ dinode[icache[z[p].s].inum].nlink = 0

\* nlink is at least the number of entries, of ".." of subdirectories, and of
\* the links a call is about to take back or to write.
LinksCover(z) ==
    \A i \in Inum :
        /\ IsFiniteSet(Parents(i)) /\ IsFiniteSet(Subdirs(i)) /\ IsFiniteSet(Pending(z, i))
        /\ dinode[i].nlink >= One(i = ROOTINO) + Cardinality(Parents(i)) + Cardinality(Subdirs(i))
                                + Cardinality(Pending(z, i))

FreeUnlinked == \A i \in Inum : dinode[i].type = "none" => dinode[i].nlink = 0

\* The inode that create() has just allocated: nobody walks through it, and it
\* has no link yet.
FreshAlone(z) ==
    \A p \in FsProc : z[p].b \in FillB =>
        /\ dinode[icache[ip[p]].inum].nlink = 0
        /\ dinode[icache[ip[p]].inum].type = IF call[p] = "mkdir" THEN "dir" ELSE "file"
        /\ \A q \in FsProc : HasCur(z, q) => cur[q] # ip[p]
        /\ \A q \in FsProc \ {p} : z[q].b \in FillB => ip[q] # ip[p]
        /\ EntryOf(p) = NoInum

\* unlink() has the inode of the entry it is to clear; link() has no directory.
TargetsOK(z) ==
    /\ \A p \in FsProc : z[p].b \in UnlinkB => EntryOf(p) = icache[ip[p]].inum
    /\ \A p \in FsProc : z[p].b = "unlinked" => cur[p] # ip[p]
    /\ \A p \in FsProc : z[p].b \in WalkB /\ call[p] = "linknew" => dinode[icache[ip[p]].inum].type # "dir"

FsIInvOf(z) ==
    /\ z \in [FsProc -> FsGhost]
    /\ FsTyped
    /\ Placed(z)
    /\ HoldersOK(z)
    /\ RefsExact(z)
    /\ OneEntry
    /\ Coherent(z)
    /\ UsedAllocated(z)
    /\ FreeingAlone(z)
    /\ LinksCover(z)
    /\ FreeUnlinked
    /\ FreshAlone(z)
    /\ TargetsOK(z)

\* The inductive invariant of Inode.
FsIInv == \E z : FsIInvOf(z)

-----------------------------------------------------------------------------
(* What a process does next.                                               *)

\* The operations of a call.
FsOpName ==
    {"lock", "walk", "put", "free", "freed", "drop", "unlock", "open", "create", "mkdir", "unlink", "link",
     "linknew", "exists", "opened", "fill", "unlinked", "unlinkip", "linkbad", "none"}
FsOp == FsOpName \X (Nat \cup {"cur", "ip"})

\* Lists of operations, put together in two ways.
LEMMA FourOps ==
    ASSUME NEW a \in FsOp, NEW b \in FsOp, NEW c \in FsOp, NEW d \in FsOp
    PROVE  <<a, b, c>> \o <<d>> = <<>> \o <<a, b, c, d>>
  <1> DEFINE w == <<a, b, c>> \o <<d>>
             x == <<>> \o <<a, b, c, d>>
  <1>1. /\ <<a, b, c>> \in Seq(FsOp) /\ <<d>> \in Seq(FsOp) /\ <<a, b, c, d>> \in Seq(FsOp)
        /\ <<>> \in Seq(FsOp)
    OBVIOUS
  <1>2. w \in Seq(FsOp) /\ x \in Seq(FsOp) /\ Len(w) = 4 /\ Len(x) = 4
    BY <1>1
  <1>3. /\ w[1] = a /\ w[2] = b /\ w[3] = c /\ w[4] = d
        /\ x[1] = a /\ x[2] = b /\ x[3] = c /\ x[4] = d
    BY <1>1
  <1>4. \A i \in 1..4 : w[i] = x[i]
    <2> HIDE DEF w, x
    <2> QED BY <1>3
  <1> HIDE DEF w, x
  <1>5. w = x
    BY <1>2, <1>4, SeqEqual
  <1> QED BY <1>5 DEF w, x

\* The short lists of operations as concatenations: what is being done, then what is left.
LEMMA OpLists ==
    ASSUME NEW a \in FsOp, NEW b \in FsOp, NEW c \in FsOp
    PROVE  /\ <<a>> = <<a>> \o <<>> /\ <<a>> = <<>> \o <<a>>
           /\ <<a>> \o <<b>> = <<a, b>> \o <<>> /\ <<a, b>> = <<>> \o <<a, b>>
           /\ <<a, b>> \o <<>> = <<>> \o <<a, b>>
           /\ <<a, b, c>> \o <<>> = <<a>> \o <<b, c>>
  <1>1. <<a>> = <<a>> \o <<>> /\ <<a>> = <<>> \o <<a>>
    OBVIOUS
  <1> DEFINE u == <<a>> \o <<b>>
             v == <<a, b>> \o <<>>
  <1>2. <<a>> \o <<b>> = <<a, b>> \o <<>> /\ <<a, b>> = <<>> \o <<a, b>>
    <2>1. <<a>> \in Seq(FsOp) /\ <<b>> \in Seq(FsOp) /\ <<a, b>> \in Seq(FsOp) /\ <<>> \in Seq(FsOp)
      OBVIOUS
    <2>2. u \in Seq(FsOp) /\ v \in Seq(FsOp) /\ Len(u) = 2 /\ Len(v) = 2
      BY <2>1
    <2>3. u[1] = a /\ u[2] = b /\ v[1] = a /\ v[2] = b
      BY <2>1
    <2>4. \A i \in 1..2 : u[i] = v[i]
      <3> HIDE DEF u, v
      <3> QED BY <2>3
    <2>5. u = v
      <3> HIDE DEF u, v
      <3> QED BY <2>2, <2>4, SeqEqual
    <2>6. <<a, b>> = <<>> \o <<a, b>>
      OBVIOUS
    <2> QED BY <2>5, <2>6
  <1>3. <<a, b, c>> \o <<>> = <<a>> \o <<b, c>>
    OBVIOUS
  <1>6. <<a, b>> \o <<>> = <<>> \o <<a, b>>
    OBVIOUS
  <1> QED BY <1>1, <1>2, <1>3, <1>6

\* The first operation of a list, and the others.
LEMMA OpHeads ==
    ASSUME NEW a \in FsOp, NEW b \in FsOp, NEW c \in FsOp, NEW r \in Seq(FsOp)
    PROVE  /\ <<a>> \o r # <<>> /\ Head(<<a>> \o r) = a /\ Tail(<<a>> \o r) = r
           /\ <<a, b>> \o r # <<>> /\ Head(<<a, b>> \o r) = a /\ Tail(<<a, b>> \o r) = <<b>> \o r
           /\ <<a, b, c>> \o r # <<>> /\ Head(<<a, b, c>> \o r) = a
           /\ Tail(<<a, b, c>> \o r) = <<b, c>> \o r
           /\ <<>> \o r = r
  <1>1. <<a>> \o r # <<>> /\ Head(<<a>> \o r) = a /\ Tail(<<a>> \o r) = r
    OBVIOUS
  <1>2. <<a, b>> \o r # <<>> /\ Head(<<a, b>> \o r) = a /\ Tail(<<a, b>> \o r) = <<b>> \o r
    OBVIOUS
  <1>3. <<a, b, c>> \o r # <<>> /\ Head(<<a, b, c>> \o r) = a /\ Tail(<<a, b, c>> \o r) = <<b, c>> \o r
    OBVIOUS
  <1>4. <<>> \o r = r
    OBVIOUS
  <1> QED BY <1>1, <1>2, <1>3, <1>4

\* What remains after an iput() is a list of operations.
LEMMA RestSeq ==
    ASSUME NEW g \in FsGhost, NEW c \in FsCall
    PROVE  Rest(g, c) \in Seq(FsOp)
  <1>1. /\ lock_cur \in FsOp /\ lock_ip \in FsOp /\ LastOp(c) \in FsOp /\ put(g.t) \in FsOp
        /\ <<"walk", 0>> \in FsOp /\ <<"exists", 0>> \in FsOp /\ <<"opened", 0>> \in FsOp
        /\ <<"fill", 0>> \in FsOp /\ <<"unlinked", 0>> \in FsOp /\ <<"unlinkip", 0>> \in FsOp
        /\ <<"linkbad", 0>> \in FsOp /\ <<"unlock", 0>> \in FsOp
    <2>1. lock_cur \in FsOp /\ lock_ip \in FsOp
      BY DEF lock_cur, lock_ip, FsOp, FsOpName
    <2>2. g.t \in Nat
      BY DEF FsGhost
    <2>3. put(g.t) \in FsOp
      BY <2>2 DEF put, FsOp, FsOpName
    <2>4. (IF c = "mkdir" THEN "create" ELSE c) \in FsOpName
      BY DEF FsCall, FsOpName
    <2>5. LastOp(c) \in FsOp
      BY <2>4 DEF LastOp, FsOp
    <2>6. \A o \in FsOpName : <<o, 0>> \in FsOp
      BY DEF FsOp
    <2> QED BY <2>1, <2>3, <2>5, <2>6 DEF FsOpName
  <1>2. g.b \in FsPlace
    BY DEF FsGhost
  <1>3. CASE g.b \in WalkB
    BY <1>1, <1>3 DEF Rest, WalkB
  <1>4. CASE g.b \in FillB \cup UnlinkB
    BY <1>1, <1>4 DEF Rest, FillB, UnlinkB
  <1>5. CASE g.b \in BadB \cup PutB \cup {"idle"}
    BY <1>1, <1>5 DEF Rest, BadB, PutB
  <1>6. CASE g.b \in ExistB
    BY <1>1, <1>6 DEF Rest, ExistB
  <1> QED BY <1>2, <1>3, <1>4, <1>5, <1>6 DEF FsPlace

\* The first operation when no iput() is under way.
RestHead(g, c, h, tl) ==
    \/ g.b = "lockwalk" /\ h = lock_cur /\ tl = << <<"walk", 0>>, lock_cur, LastOp(c)>>
    \/ g.b = "walk" /\ h = <<"walk", 0>> /\ tl = <<lock_cur, LastOp(c)>>
    \/ g.b = "lockop" /\ h = lock_cur /\ tl = <<LastOp(c)>>
    \/ g.b = "op" /\ h = LastOp(c) /\ tl = <<>>
    \/ g.b = "lockexists" /\ h = lock_ip /\ tl = << <<"exists", 0>> >>
    \/ g.b = "exists" /\ h = <<"exists", 0>> /\ tl = <<>>
    \/ g.b = "opened" /\ h = <<"opened", 0>> /\ tl = <<>>
    \/ g.b = "lockfill" /\ h = lock_ip /\ tl = << <<"fill", 0>> >>
    \/ g.b = "fill" /\ h = <<"fill", 0>> /\ tl = <<>>
    \/ g.b = "lockunlinked" /\ h = lock_ip /\ tl = << <<"unlinked", 0>> >>
    \/ g.b = "unlinked" /\ h = <<"unlinked", 0>> /\ tl = <<>>
    \/ g.b = "unlinkip" /\ h = <<"unlinkip", 0>> /\ tl = <<>>
    \/ g.b = "locklinkbad" /\ h = lock_ip /\ tl = << <<"linkbad", 0>> >>
    \/ g.b = "linkbad" /\ h = <<"linkbad", 0>> /\ tl = <<>>
    \/ g.b = "unlock" /\ h = <<"unlock", 0>> /\ tl = <<put(g.t)>>
    \/ g.b = "put" /\ h = put(g.t) /\ tl = <<>>

\* Lists of one to four operations.
LEMMA ShortLists ==
    ASSUME NEW a, NEW b, NEW c, NEW d
    PROVE  /\ <<a>> # <<>> /\ Head(<<a>>) = a /\ Tail(<<a>>) = <<>>
           /\ <<a, b>> # <<>> /\ Head(<<a, b>>) = a /\ Tail(<<a, b>>) = <<b>>
           /\ <<a, b, c>> # <<>> /\ Head(<<a, b, c>>) = a /\ Tail(<<a, b, c>>) = <<b, c>>
           /\ <<a, b, c, d>> # <<>> /\ Head(<<a, b, c, d>>) = a /\ Tail(<<a, b, c, d>>) = <<b, c, d>>
  OBVIOUS

\* The operation a call does next, when it is in no iput(), and what it leaves.
LEMMA RestHeads ==
    ASSUME NEW g \in FsGhost, NEW c \in FsCall, g.b # "idle"
    PROVE  Rest(g, c) # <<>> /\ RestHead(g, c, Head(Rest(g, c)), Tail(Rest(g, c)))
  <1>1. g.b \in FsPlace
    BY DEF FsGhost
  <1>2. CASE g.b = "lockwalk"
    <2>1. Rest(g, c) = << lock_cur, <<"walk", 0>>, lock_cur, LastOp(c) >>
      BY <1>2 DEF Rest
    <2>2. /\ << lock_cur, <<"walk", 0>>, lock_cur, LastOp(c) >> # <<>> /\ Head(<< lock_cur, <<"walk", 0>>, lock_cur, LastOp(c) >>) = lock_cur
          /\ Tail(<< lock_cur, <<"walk", 0>>, lock_cur, LastOp(c) >>) = << <<"walk", 0>>, lock_cur, LastOp(c) >>
      BY ShortLists
    <2> QED BY <2>1, <2>2, <1>2 DEF RestHead
  <1>3. CASE g.b = "walk"
    <2>1. Rest(g, c) = << <<"walk", 0>>, lock_cur, LastOp(c) >>
      BY <1>3 DEF Rest
    <2>2. /\ << <<"walk", 0>>, lock_cur, LastOp(c) >> # <<>> /\ Head(<< <<"walk", 0>>, lock_cur, LastOp(c) >>) = <<"walk", 0>>
          /\ Tail(<< <<"walk", 0>>, lock_cur, LastOp(c) >>) = << lock_cur, LastOp(c) >>
      BY ShortLists
    <2> QED BY <2>1, <2>2, <1>3 DEF RestHead
  <1>4. CASE g.b = "lockop"
    <2>1. Rest(g, c) = << lock_cur, LastOp(c) >>
      BY <1>4 DEF Rest
    <2>2. /\ << lock_cur, LastOp(c) >> # <<>> /\ Head(<< lock_cur, LastOp(c) >>) = lock_cur
          /\ Tail(<< lock_cur, LastOp(c) >>) = << LastOp(c) >>
      BY ShortLists
    <2> QED BY <2>1, <2>2, <1>4 DEF RestHead
  <1>5. CASE g.b = "op"
    <2>1. Rest(g, c) = << LastOp(c) >>
      BY <1>5 DEF Rest
    <2>2. << LastOp(c) >> # <<>> /\ Head(<< LastOp(c) >>) = LastOp(c) /\ Tail(<< LastOp(c) >>) = <<>>
      BY ShortLists
    <2> QED BY <2>1, <2>2, <1>5 DEF RestHead
  <1>6. CASE g.b = "lockexists"
    <2>1. Rest(g, c) = << lock_ip, <<"exists", 0>> >>
      BY <1>6 DEF Rest
    <2>2. /\ << lock_ip, <<"exists", 0>> >> # <<>> /\ Head(<< lock_ip, <<"exists", 0>> >>) = lock_ip
          /\ Tail(<< lock_ip, <<"exists", 0>> >>) = << <<"exists", 0>> >>
      BY ShortLists
    <2> QED BY <2>1, <2>2, <1>6 DEF RestHead
  <1>7. CASE g.b = "exists"
    <2>1. Rest(g, c) = << <<"exists", 0>> >>
      BY <1>7 DEF Rest
    <2>2. << <<"exists", 0>> >> # <<>> /\ Head(<< <<"exists", 0>> >>) = <<"exists", 0>> /\ Tail(<< <<"exists", 0>> >>) = <<>>
      BY ShortLists
    <2> QED BY <2>1, <2>2, <1>7 DEF RestHead
  <1>8. CASE g.b = "lockfill"
    <2>1. Rest(g, c) = << lock_ip, <<"fill", 0>> >>
      BY <1>8 DEF Rest
    <2>2. /\ << lock_ip, <<"fill", 0>> >> # <<>> /\ Head(<< lock_ip, <<"fill", 0>> >>) = lock_ip
          /\ Tail(<< lock_ip, <<"fill", 0>> >>) = << <<"fill", 0>> >>
      BY ShortLists
    <2> QED BY <2>1, <2>2, <1>8 DEF RestHead
  <1>9. CASE g.b = "fill"
    <2>1. Rest(g, c) = << <<"fill", 0>> >>
      BY <1>9 DEF Rest
    <2>2. << <<"fill", 0>> >> # <<>> /\ Head(<< <<"fill", 0>> >>) = <<"fill", 0>> /\ Tail(<< <<"fill", 0>> >>) = <<>>
      BY ShortLists
    <2> QED BY <2>1, <2>2, <1>9 DEF RestHead
  <1>10. CASE g.b = "lockunlinked"
    <2>1. Rest(g, c) = << lock_ip, <<"unlinked", 0>> >>
      BY <1>10 DEF Rest
    <2>2. /\ << lock_ip, <<"unlinked", 0>> >> # <<>> /\ Head(<< lock_ip, <<"unlinked", 0>> >>) = lock_ip
          /\ Tail(<< lock_ip, <<"unlinked", 0>> >>) = << <<"unlinked", 0>> >>
      BY ShortLists
    <2> QED BY <2>1, <2>2, <1>10 DEF RestHead
  <1>11. CASE g.b = "unlinked"
    <2>1. Rest(g, c) = << <<"unlinked", 0>> >>
      BY <1>11 DEF Rest
    <2>2. << <<"unlinked", 0>> >> # <<>> /\ Head(<< <<"unlinked", 0>> >>) = <<"unlinked", 0>> /\ Tail(<< <<"unlinked", 0>> >>) = <<>>
      BY ShortLists
    <2> QED BY <2>1, <2>2, <1>11 DEF RestHead
  <1>12. CASE g.b = "locklinkbad"
    <2>1. Rest(g, c) = << lock_ip, <<"linkbad", 0>> >>
      BY <1>12 DEF Rest
    <2>2. /\ << lock_ip, <<"linkbad", 0>> >> # <<>> /\ Head(<< lock_ip, <<"linkbad", 0>> >>) = lock_ip
          /\ Tail(<< lock_ip, <<"linkbad", 0>> >>) = << <<"linkbad", 0>> >>
      BY ShortLists
    <2> QED BY <2>1, <2>2, <1>12 DEF RestHead
  <1>13. CASE g.b = "linkbad"
    <2>1. Rest(g, c) = << <<"linkbad", 0>> >>
      BY <1>13 DEF Rest
    <2>2. << <<"linkbad", 0>> >> # <<>> /\ Head(<< <<"linkbad", 0>> >>) = <<"linkbad", 0>> /\ Tail(<< <<"linkbad", 0>> >>) = <<>>
      BY ShortLists
    <2> QED BY <2>1, <2>2, <1>13 DEF RestHead
  <1>14. CASE g.b = "opened"
    <2>1. Rest(g, c) = << <<"opened", 0>> >>
      BY <1>14 DEF Rest
    <2>2. << <<"opened", 0>> >> # <<>> /\ Head(<< <<"opened", 0>> >>) = <<"opened", 0>> /\ Tail(<< <<"opened", 0>> >>) = <<>>
      BY ShortLists
    <2> QED BY <2>1, <2>2, <1>14 DEF RestHead
  <1>15. CASE g.b = "unlinkip"
    <2>1. Rest(g, c) = << <<"unlinkip", 0>> >>
      BY <1>15 DEF Rest
    <2>2. << <<"unlinkip", 0>> >> # <<>> /\ Head(<< <<"unlinkip", 0>> >>) = <<"unlinkip", 0>> /\ Tail(<< <<"unlinkip", 0>> >>) = <<>>
      BY ShortLists
    <2> QED BY <2>1, <2>2, <1>15 DEF RestHead
  <1>16. CASE g.b = "unlock"
    <2>1. Rest(g, c) = << <<"unlock", 0>>, put(g.t) >>
      BY <1>16 DEF Rest
    <2>2. /\ << <<"unlock", 0>>, put(g.t) >> # <<>> /\ Head(<< <<"unlock", 0>>, put(g.t) >>) = <<"unlock", 0>>
          /\ Tail(<< <<"unlock", 0>>, put(g.t) >>) = << put(g.t) >>
      BY ShortLists
    <2> QED BY <2>1, <2>2, <1>16 DEF RestHead
  <1>17. CASE g.b = "put"
    <2>1. Rest(g, c) = << put(g.t) >>
      BY <1>17 DEF Rest
    <2>2. << put(g.t) >> # <<>> /\ Head(<< put(g.t) >>) = put(g.t) /\ Tail(<< put(g.t) >>) = <<>>
      BY ShortLists
    <2> QED BY <2>1, <2>2, <1>17 DEF RestHead
  <1> QED BY <1>1, <1>2, <1>3, <1>4, <1>5, <1>6, <1>7, <1>8, <1>9, <1>10, <1>11, <1>12, <1>13, <1>14, <1>15, <1>16, <1>17
          DEF FsPlace, WalkB, FillB, UnlinkB, BadB, PutB, ExistB

\* The first operation of a list while an iput() is under way.
PrefixHead(g, c, h, tl) ==
    \/ g.ph = "put" /\ h = put(g.s) /\ tl = Rest(g, c)
    \/ g.ph = "free" /\ h = <<"free", g.s>> /\ tl = << <<"freed", g.s>>, <<"drop", g.s>> >> \o Rest(g, c)
    \/ g.ph = "freed" /\ h = <<"freed", g.s>> /\ tl = << <<"drop", g.s>> >> \o Rest(g, c)
    \/ g.ph = "drop" /\ h = <<"drop", g.s>> /\ tl = Rest(g, c)

\* The operation of an iput() in progress comes first, and what it leaves.
LEMMA PrefixHeads ==
    ASSUME NEW g \in FsGhost, NEW c \in FsCall, NEW l, l = Prefix(g) \o Rest(g, c)
    PROVE  /\ g.ph # "none" => l # <<>> /\ PrefixHead(g, c, Head(l), Tail(l))
           /\ g.ph = "none" => l = Rest(g, c)
  <1> DEFINE r == Rest(g, c)
             e1 == <<"free", g.s>>
             e2 == <<"freed", g.s>>
             e3 == <<"drop", g.s>>
             e4 == put(g.s)
  <1>1. r \in Seq(FsOp)
    BY RestSeq
  <1>2. e1 \in FsOp /\ e2 \in FsOp /\ e3 \in FsOp /\ e4 \in FsOp
    <2>1. g.s \in Nat
      BY DEF FsGhost
    <2> QED BY <2>1 DEF FsOp, FsOpName, put
  <1>3. g.ph \in PutPhase
    BY DEF FsGhost
  <1> HIDE DEF r
  <1>h. /\ <<e4>> \o r # <<>> /\ Head(<<e4>> \o r) = e4 /\ Tail(<<e4>> \o r) = r
        /\ <<e3>> \o r # <<>> /\ Head(<<e3>> \o r) = e3 /\ Tail(<<e3>> \o r) = r
        /\ <<e2, e3>> \o r # <<>> /\ Head(<<e2, e3>> \o r) = e2 /\ Tail(<<e2, e3>> \o r) = <<e3>> \o r
        /\ <<e1, e2, e3>> \o r # <<>> /\ Head(<<e1, e2, e3>> \o r) = e1
        /\ Tail(<<e1, e2, e3>> \o r) = <<e2, e3>> \o r
        /\ <<>> \o r = r
    <2> HIDE DEF e1, e2, e3, e4
    <2>1. /\ <<e4>> \o r # <<>> /\ Head(<<e4>> \o r) = e4 /\ Tail(<<e4>> \o r) = r
      BY <1>1, <1>2, OpHeads
    <2>2. /\ <<e3>> \o r # <<>> /\ Head(<<e3>> \o r) = e3 /\ Tail(<<e3>> \o r) = r
          /\ <<>> \o r = r
      BY <1>1, <1>2, OpHeads
    <2>3. /\ <<e2, e3>> \o r # <<>> /\ Head(<<e2, e3>> \o r) = e2 /\ Tail(<<e2, e3>> \o r) = <<e3>> \o r
      BY <1>1, <1>2, OpHeads
    <2>4. /\ <<e1, e2, e3>> \o r # <<>> /\ Head(<<e1, e2, e3>> \o r) = e1
          /\ Tail(<<e1, e2, e3>> \o r) = <<e2, e3>> \o r
      BY <1>1, <1>2, OpHeads
    <2> QED BY <2>1, <2>2, <2>3, <2>4
  <1>4. CASE g.ph = "none"
    <2>1. l = <<>> \o r
      BY <1>4 DEF Prefix, r
    <2> QED BY <2>1, <1>h, <1>4 DEF r
  <1>5. CASE g.ph = "put"
    <2>1. l = <<e4>> \o r
      BY <1>5 DEF Prefix, r
    <2> QED BY <2>1, <1>h, <1>5 DEF PrefixHead, r
  <1>6. CASE g.ph = "free"
    <2>1. l = <<e1, e2, e3>> \o r
      BY <1>6 DEF Prefix, r
    <2> QED BY <2>1, <1>h, <1>6 DEF PrefixHead, r
  <1>7. CASE g.ph = "freed"
    <2>1. l = <<e2, e3>> \o r
      BY <1>7 DEF Prefix, r
    <2> QED BY <2>1, <1>h, <1>7 DEF PrefixHead, r
  <1>8. CASE g.ph = "drop"
    <2>1. l = <<e3>> \o r
      BY <1>8 DEF Prefix, r
    <2> QED BY <2>1, <1>h, <1>8 DEF PrefixHead, r
  <1> QED BY <1>3, <1>4, <1>5, <1>6, <1>7, <1>8 DEF PutPhase

\* What process p does next, and what is left after it.
LEMMA NextOp ==
    ASSUME NEW z, FsIInvOf(z), NEW p \in FsProc
    PROVE  /\ z[p] \in FsGhost /\ call[p] \in FsCall
           /\ k[p] = <<>> => z[p].ph = "none" /\ z[p].b = "idle"
           /\ k[p] # <<>> => \/ PrefixHead(z[p], call[p], Head(k[p]), Tail(k[p]))
                             \/ z[p].ph = "none" /\ RestHead(z[p], call[p], Head(k[p]), Tail(k[p]))
  <1>1. z[p] \in FsGhost /\ call[p] \in FsCall
    BY DEF FsIInvOf, FsTyped
  <1>2. k[p] = Prefix(z[p]) \o Rest(z[p], call[p])
    BY DEF FsIInvOf, Placed
  <1>3. /\ z[p].ph # "none" => k[p] # <<>> /\ PrefixHead(z[p], call[p], Head(k[p]), Tail(k[p]))
        /\ z[p].ph = "none" => k[p] = Rest(z[p], call[p])
    BY <1>1, <1>2, PrefixHeads
  <1>4. z[p].b = "idle" => Rest(z[p], call[p]) = <<>>
    BY DEF Rest
  <1>5. z[p].b # "idle" => Rest(z[p], call[p]) # <<>> /\ RestHead(z[p], call[p], Head(Rest(z[p], call[p])), Tail(Rest(z[p], call[p])))
    BY <1>1, RestHeads
  <1> QED BY <1>1, <1>3, <1>4, <1>5

\* The same, by operation.
LEMMA AtPrefix ==
    ASSUME NEW z, FsIInvOf(z), NEW p \in FsProc, NEW o \in {"free", "freed", "drop"}, Op(p, o)
    PROVE  z[p].ph = o /\ Arg(p) = z[p].s /\ PrefixHead(z[p], call[p], Head(k[p]), Tail(k[p]))
  <1>1. k[p] # <<>> /\ Head(k[p])[1] = o
    BY DEF Op
  <1>2. \/ PrefixHead(z[p], call[p], Head(k[p]), Tail(k[p]))
        \/ z[p].ph = "none" /\ RestHead(z[p], call[p], Head(k[p]), Tail(k[p]))
    BY <1>1, NextOp
  <1>3. call[p] \in FsCall
    BY NextOp
  <1>4. ~RestHead(z[p], call[p], Head(k[p]), Tail(k[p]))
    BY <1>1, <1>3 DEF RestHead, lock_cur, lock_ip, LastOp, put, FsCall
  <1>5. PrefixHead(z[p], call[p], Head(k[p]), Tail(k[p]))
    BY <1>2, <1>4
  <1>6. z[p].ph = Head(k[p])[1] /\ Head(k[p])[2] = z[p].s
    BY <1>5 DEF PrefixHead, put
  <1> QED BY <1>1, <1>5, <1>6 DEF Arg

\* A process about to iput() is about to start the one the call's code asked for,
\* in the middle of the call (ph) or as its last operation (b).
LEMMA AtPut ==
    ASSUME NEW z, FsIInvOf(z), NEW p \in FsProc, Op(p, "put")
    PROVE  \/ /\ z[p].ph = "put" /\ Arg(p) = z[p].s /\ Tail(k[p]) = Rest(z[p], call[p])
           \/ /\ z[p].ph = "none" /\ z[p].b = "put" /\ Arg(p) = z[p].t /\ Tail(k[p]) = <<>>
  <1>1. k[p] # <<>> /\ Head(k[p])[1] = "put"
    BY DEF Op
  <1>2. \/ PrefixHead(z[p], call[p], Head(k[p]), Tail(k[p]))
        \/ z[p].ph = "none" /\ RestHead(z[p], call[p], Head(k[p]), Tail(k[p]))
    BY <1>1, NextOp
  <1>3. call[p] \in FsCall
    BY NextOp
  <1>4. CASE PrefixHead(z[p], call[p], Head(k[p]), Tail(k[p]))
    BY <1>1, <1>4 DEF PrefixHead, put, Arg
  <1>5. CASE z[p].ph = "none" /\ RestHead(z[p], call[p], Head(k[p]), Tail(k[p]))
    BY <1>1, <1>3, <1>5 DEF RestHead, lock_cur, lock_ip, LastOp, put, FsCall, Arg
  <1> QED BY <1>2, <1>4, <1>5

\* A process at an operation that is not iput()'s is in no iput().
LEMMA AtRest ==
    ASSUME NEW z, FsIInvOf(z), NEW p \in FsProc, NEW o, o \notin {"put", "free", "freed", "drop"}, Op(p, o)
    PROVE  z[p].ph = "none" /\ RestHead(z[p], call[p], Head(k[p]), Tail(k[p])) /\ Head(k[p])[1] = o
  <1>1. k[p] # <<>> /\ Head(k[p])[1] = o
    BY DEF Op
  <1>2. \/ PrefixHead(z[p], call[p], Head(k[p]), Tail(k[p]))
        \/ z[p].ph = "none" /\ RestHead(z[p], call[p], Head(k[p]), Tail(k[p]))
    BY <1>1, NextOp
  <1>4. ~PrefixHead(z[p], call[p], Head(k[p]), Tail(k[p]))
    BY <1>1 DEF PrefixHead, put
  <1> QED BY <1>1, <1>2, <1>4

\* The place of a process in its call, from the operation it does next.
LEMMA AtPlace ==
    ASSUME NEW z, FsIInvOf(z), NEW p \in FsProc,
           NEW o \in {"walk", "exists", "opened", "fill", "unlinked", "unlinkip", "linkbad", "unlock"}, Op(p, o)
    PROVE  /\ z[p].ph = "none" /\ z[p].b = o
           /\ o = "walk" => Tail(k[p]) = <<lock_cur, LastOp(call[p])>>
           /\ o = "unlock" => Tail(k[p]) = <<put(z[p].t)>>
           /\ o \notin {"walk", "unlock"} => Tail(k[p]) = <<>>
  <1>1. z[p].ph = "none" /\ RestHead(z[p], call[p], Head(k[p]), Tail(k[p])) /\ Head(k[p])[1] = o
    BY AtRest
  <1>2. call[p] \in FsCall
    BY NextOp
  <1>3. Head(k[p]) # lock_cur /\ Head(k[p]) # lock_ip /\ Head(k[p]) # put(z[p].t) /\ Head(k[p]) # LastOp(call[p])
    BY <1>1, <1>2 DEF lock_cur, lock_ip, put, LastOp, FsCall
  <1> QED BY <1>1, <1>3 DEF RestHead

\* A process at the last operation of its path walk runs the call of that name.
LEMMA AtOp ==
    ASSUME NEW z, FsIInvOf(z), NEW p \in FsProc, NEW o \in {"open", "create", "unlink", "link", "linknew"}, Op(p, o)
    PROVE  /\ z[p].ph = "none" /\ z[p].b = "op" /\ Tail(k[p]) = <<>>
           /\ call[p] = o \/ (o = "create" /\ call[p] = "mkdir")
  <1>1. z[p].ph = "none" /\ RestHead(z[p], call[p], Head(k[p]), Tail(k[p])) /\ Head(k[p])[1] = o
    BY AtRest
  <1>2. call[p] \in FsCall
    BY NextOp
  <1>3. Head(k[p]) # lock_cur /\ Head(k[p]) # lock_ip /\ Head(k[p]) # put(z[p].t)
    BY <1>1 DEF lock_cur, lock_ip, put
  <1>4. z[p].b = "op" /\ Head(k[p]) = LastOp(call[p]) /\ Tail(k[p]) = <<>>
    BY <1>1, <1>3 DEF RestHead
  <1>5. (IF call[p] = "mkdir" THEN "create" ELSE call[p]) = o
    BY <1>1, <1>4 DEF LastOp
  <1> QED BY <1>1, <1>4, <1>5

\* What an ilock() is followed by.
AfterLock(b) ==
    CASE b = "lockwalk" -> "walk" [] b = "lockop" -> "op" [] b = "lockexists" -> "exists"
      [] b = "lockfill" -> "fill" [] b = "lockunlinked" -> "unlinked" [] b = "locklinkbad" -> "linkbad"

\* A process about to lock an inode locks the one its call needs, and what follows.
LEMMA AtLock ==
    ASSUME NEW z, FsIInvOf(z), NEW p \in FsProc, Op(p, "lock")
    PROVE  /\ z[p].ph = "none"
           /\ z[p].b \in {"lockwalk", "lockop", "lockexists", "lockfill", "lockunlinked", "locklinkbad"}
           /\ Arg(p) = "cur" <=> z[p].b \in {"lockwalk", "lockop"}
           /\ Tail(k[p]) = Rest([z[p] EXCEPT !.b = AfterLock(z[p].b)], call[p])
  <1>1. z[p].ph = "none" /\ RestHead(z[p], call[p], Head(k[p]), Tail(k[p])) /\ Head(k[p])[1] = "lock"
    BY AtRest
  <1>2. call[p] \in FsCall /\ z[p] \in FsGhost
    BY NextOp
  <1>3. Head(k[p]) # LastOp(call[p]) /\ Head(k[p]) # put(z[p].t)
    BY <1>1, <1>2 DEF LastOp, put, FsCall
  <1>4. /\ z[p].b \in {"lockwalk", "lockop", "lockexists", "lockfill", "lockunlinked", "locklinkbad"}
        /\ z[p].b \in {"lockwalk", "lockop"} => Head(k[p]) = lock_cur
        /\ z[p].b \notin {"lockwalk", "lockop"} => Head(k[p]) = lock_ip
    BY <1>1, <1>3 DEF RestHead
  <1>5. Arg(p) = "cur" <=> z[p].b \in {"lockwalk", "lockop"}
    BY <1>4 DEF lock_cur, lock_ip, Arg
  <1>6. Tail(k[p]) = Rest([z[p] EXCEPT !.b = AfterLock(z[p].b)], call[p])
    BY <1>1, <1>2, <1>4 DEF RestHead, Rest, AfterLock, FsGhost
  <1> QED BY <1>1, <1>4, <1>5, <1>6

-----------------------------------------------------------------------------
(* References and their number.                                            *)

\* The references counted by f, numbered.
Numbered(S, f) == {x \in S \X Nat : x[2] >= 1 /\ x[2] <= f[x[1]]}

\* A process p with n references has n numbered ones.
LEMMA OwnNumbered ==
    ASSUME NEW p, NEW n \in Nat
    PROVE  LET O == {p} \X (1..n) IN IsFiniteSet(O) /\ Cardinality(O) = n
  <1> DEFINE O == {p} \X (1..n)
             f == [j \in 1..n |-> <<p, j>>]
  <1>1. f \in [1..n -> O]
    OBVIOUS
  <1>2. \A i, j \in 1..n : f[i] = f[j] => i = j
    OBVIOUS
  <1>3. \A x \in O : \E j \in 1..n : f[j] = x
    <2> TAKE x \in O
    <2>1. x = <<p, x[2]>> /\ x[2] \in 1..n
      OBVIOUS
    <2> WITNESS x[2] \in 1..n
    <2> QED BY <2>1
  <1> HIDE DEF f
  <1>4. f \in Bijection(1..n, O)
    BY <1>1, <1>2, <1>3, Fun_IsBij
  <1>5. ExistsBijection(1..n, O)
    BY <1>4, Fun_ExistsBij
  <1>6. IsFiniteSet(1..n) /\ Cardinality(1..n) = n
    BY FS_Interval
  <1> QED BY <1>5, <1>6, FS_Bijection

\* One process has more references, or fewer.
LEMMA CountChange ==
    ASSUME NEW S, NEW f \in [S -> Nat], NEW h \in [S -> Nat], NEW p \in S,
           \A q \in S \ {p} : f[q] = h[q], IsFiniteSet(Numbered(S, f))
    PROVE  /\ IsFiniteSet(Numbered(S, h))
           /\ Cardinality(Numbered(S, f)) \in Nat
           /\ Cardinality(Numbered(S, h)) = Cardinality(Numbered(S, f)) - f[p] + h[p]
  <1> DEFINE R == {x \in Numbered(S, f) : x[1] # p}
             A == {p} \X (1..f[p])
             B == {p} \X (1..h[p])
  <1>1. IsFiniteSet(A) /\ Cardinality(A) = f[p] /\ IsFiniteSet(B) /\ Cardinality(B) = h[p]
    BY OwnNumbered
  <1>2. IsFiniteSet(R)
    BY FS_Subset
  <1>3. Numbered(S, f) = R \cup A
    BY DEF Numbered
  <1>4. Numbered(S, h) = R \cup B
    BY DEF Numbered
  <1>5. R \cap A = {} /\ R \cap B = {}
    BY DEF Numbered
  <1>6. Cardinality(R) \in Nat /\ Cardinality(R \cap A) = 0 /\ Cardinality(R \cap B) = 0
    BY <1>2, <1>5, FS_CardinalityType, FS_EmptySet
  <1> HIDE DEF R, A, B
  <1>7. Cardinality(R \cup A) = Cardinality(R) + Cardinality(A) - Cardinality(R \cap A)
    BY <1>1, <1>2, FS_Union
  <1>8. Cardinality(R \cup B) = Cardinality(R) + Cardinality(B) - Cardinality(R \cap B) /\ IsFiniteSet(R \cup B)
    BY <1>1, <1>2, FS_Union
  <1>9. f[p] \in Nat /\ h[p] \in Nat
    OBVIOUS
  <1> QED BY <1>1, <1>3, <1>4, <1>6, <1>7, <1>8, <1>9

\* A process has at most five references to an entry at a time.
LEMMA RefCountNat ==
    ASSUME NEW z, NEW p, NEW s
    PROVE  RefCount(z, p, s) \in 0..5
  BY DEF RefCount, One

\* The references to an entry are the numbered ones of each process.
LEMMA ReferencesNumbered ==
    ASSUME NEW z, NEW s
    PROVE  References(z, s) = Numbered(FsProc, [q \in FsProc |-> RefCount(z, q, s)])
  BY DEF References, Numbered

\* A reference is counted.
LEMMA RefCounted ==
    ASSUME NEW z, FsIInvOf(z), NEW p \in FsProc, NEW s \in ISlot
    PROVE  /\ icache[s].ref \in Nat
           /\ RefCount(z, p, s) >= 1 => icache[s].ref >= 1
           /\ icache[s].ref = 0 => RefCount(z, p, s) = 0
           /\ icache[s].ref = 1 /\ RefCount(z, p, s) >= 1 =>
                 RefCount(z, p, s) = 1 /\ \A q \in FsProc \ {p} : RefCount(z, q, s) = 0
  <1> DEFINE R == References(z, s)
  <1>1. IsFiniteSet(R) /\ icache[s].ref = Cardinality(R) /\ Cardinality(R) \in Nat
    BY FS_CardinalityType DEF FsIInvOf, RefsExact
  <1>2. \A q \in FsProc : /\ RefCount(z, q, s) >= 1 => <<q, 1>> \in R
                          /\ RefCount(z, q, s) >= 2 => <<q, 2>> \in R
    BY DEF References
  <1>3. \A q \in FsProc : RefCount(z, q, s) \in 0..5
    BY RefCountNat
  <1> HIDE DEF R
  <1>4. RefCount(z, p, s) >= 1 => icache[s].ref # 0
    <2>1. SUFFICES ASSUME RefCount(z, p, s) >= 1, Cardinality(R) = 0 PROVE FALSE
      BY <1>1
    <2>2. <<p, 1>> \in R
      BY <1>2, <2>1
    <2> QED BY <2>1, <2>2, <1>1, FS_EmptySet
  <1>5. ASSUME icache[s].ref = 1, RefCount(z, p, s) >= 1
        PROVE  RefCount(z, p, s) = 1 /\ \A q \in FsProc \ {p} : RefCount(z, q, s) = 0
    <2>1. PICK x : R = {x}
      BY <1>1, <1>5, FS_Singleton
    <2>2. <<p, 1>> \in R
      BY <1>2, <1>5
    <2>3. \A y \in R : y = <<p, 1>>
      BY <2>1, <2>2
    <2>4. ASSUME RefCount(z, p, s) >= 2 PROVE FALSE
      <3>1. <<p, 2>> \in R
        BY <1>2, <2>4
      <3>2. <<p, 2>> = <<p, 1>>
        BY <2>3, <3>1
      <3> QED BY <3>2
    <2>5. ASSUME NEW q \in FsProc \ {p}, RefCount(z, q, s) >= 1 PROVE FALSE
      <3>1. <<q, 1>> \in R
        BY <1>2, <2>5
      <3>2. <<q, 1>> = <<p, 1>>
        BY <2>3, <3>1
      <3> QED BY <3>2
    <2> QED BY <1>3, <1>5, <2>4, <2>5
  <1> QED BY <1>1, <1>3, <1>4, <1>5

\* Who uses or has locked an inode has a reference to it.
LEMMA UsesCounted ==
    ASSUME NEW z, FsIInvOf(z), NEW p \in FsProc, NEW s \in ISlot
    PROVE  /\ Uses(z, p, s) => RefCount(z, p, s) >= 1
           /\ HasPut(z, p) /\ z[p].s = s => RefCount(z, p, s) >= 1
           /\ Locks(z, p, s) => RefCount(z, p, s) >= 1
           /\ Locks(z, p, s) /\ z[p].ph = "put" /\ z[p].s = s => RefCount(z, p, s) >= 2
  <1>1. Uses(z, p, s) => RefCount(z, p, s) >= 1
    BY DEF Uses, RefCount, One, HasPut
  <1>2. HasPut(z, p) /\ z[p].s = s => RefCount(z, p, s) >= 1
    BY DEF RefCount, One
  <1>3. PlaceOK(z[p], p)
    BY DEF FsIInvOf, Placed
  <1>4. ASSUME Locks(z, p, s)
        PROVE  /\ RefCount(z, p, s) >= 1
               /\ z[p].ph = "put" /\ z[p].s = s => RefCount(z, p, s) >= 2
    <2>1. CASE z[p].b \in {"walk", "op", "lockfill", "fill", "lockunlinked", "unlinked"} /\ cur[p] = s
      BY <2>1 DEF RefCount, One, HasCur, WalkB, FillB, UnlinkB, HasPut
    <2>2. CASE z[p].b = "unlock" /\ cur[p] = s
      <3>1. z[p].t = s
        BY <1>3, <2>2 DEF PlaceOK
      <3> QED BY <2>2, <3>1 DEF RefCount, One, HasLast, PutB, HasPut
    <2>3. CASE z[p].b \in {"exists", "opened", "fill", "unlinked", "unlinkip", "linkbad"} /\ ip[p] = s
      BY <2>3 DEF RefCount, One, HasIp, ExistB, FillB, UnlinkB, BadB, HasPut
    <2>4. CASE z[p].ph \in {"free", "freed"} /\ z[p].s = s
      BY <2>4 DEF RefCount, One, HasPut
    <2> QED BY <1>4, <2>1, <2>2, <2>3, <2>4 DEF Locks
  <1> QED BY <1>1, <1>2, <1>4

-----------------------------------------------------------------------------
(* What one step has to do to keep the invariant: process p moves, z becomes w. *)

Moves(z, w, p) ==
    /\ w \in [FsProc -> FsGhost]
    /\ \A q \in FsProc \ {p} :
          /\ w[q] = z[q] /\ call'[q] = call[q] /\ path'[q] = path[q] /\ path2'[q] = path2[q]
          /\ cur'[q] = cur[q] /\ ip'[q] = ip[q] /\ fd'[q] = fd[q]

\* The lists of operations ...
StepPlaces(w, p) ==
    /\ k' = [k EXCEPT ![p] = Prefix(w[p]) \o Rest(w[p], call'[p])]
    /\ PlaceOK(w[p], p)'

\* ... the locks ...
StepHolders(z, w, p) ==
    \A s \in ISlot :
        /\ \/ icache'[s].holder = icache[s].holder /\ (Locks(w, p, s)' <=> Locks(z, p, s))
           \/ icache'[s].holder = NoFsProc /\ icache[s].holder = p /\ ~Locks(w, p, s)'
           \/ icache'[s].holder = p /\ icache[s].holder = NoFsProc /\ Locks(w, p, s)'
        /\ icache'[s].holder # NoFsProc => icache'[s].valid

\* ... the references ...
StepRefs(z, w, p) ==
    \A s \in ISlot : icache'[s].ref = icache[s].ref + RefCount(w, p, s)' - RefCount(z, p, s)

\* ... the entries of the cache ...
StepSlots ==
    \A s \in ISlot :
        /\ icache[s].ref > 0 => icache'[s].inum = icache[s].inum
        /\ icache'[s].ref > 0 =>
              \/ icache[s].ref > 0
              \/ /\ icache'[s].inum \in Inum
                 /\ \A t \in ISlot : icache'[t].ref > 0 /\ icache'[t].inum = icache'[s].inum => t = s

\* ... the inodes in use, by p and by the others ...
StepUses(z, w, p) ==
    /\ \A s \in ISlot : Uses(w, p, s)' => dinode'[icache'[s].inum].type # "none"
    /\ \A q \in FsProc \ {p}, s \in ISlot :
          Uses(z, q, s) => dinode'[icache[s].inum].type = dinode[icache[s].inum].type

\* ... those that are being freed ...
StepFreeing(z, w, p) ==
    /\ w[p].ph = "free" => /\ icache'[w[p].s].ref = 1
                           /\ dinode'[icache'[w[p].s].inum].nlink = 0
    /\ \A q \in FsProc \ {p} : z[q].ph = "free" => /\ icache'[z[q].s].ref = 1
                                                  /\ dinode'[icache[z[q].s].inum].nlink = 0

\* ... those that have just been allocated ...
FreshFor(w, p) ==
    /\ dinode[icache[ip[p]].inum].nlink = 0
    /\ dinode[icache[ip[p]].inum].type = IF call[p] = "mkdir" THEN "dir" ELSE "file"
    /\ \A q \in FsProc : HasCur(w, q) => cur[q] # ip[p]
    /\ \A q \in FsProc \ {p} : w[q].b \in FillB => ip[q] # ip[p]
    /\ EntryOf(p) = NoInum

StepFresh(z, w, p) ==
    /\ w[p].b \in FillB => FreshFor(w, p)'
    /\ \A q \in FsProc \ {p} : z[q].b \in FillB =>
          /\ dinode'[icache[ip[q]].inum].nlink = 0
          /\ HasCur(w, p)' => cur'[p] # ip[q]
          /\ w[p].b \in FillB => ip'[p] # ip[q]

\* ... and the directory entries that calls have looked up.
TargetFor(w, p) ==
    /\ w[p].b \in UnlinkB => EntryOf(p) = icache[ip[p]].inum
    /\ w[p].b = "unlinked" => cur[p] # ip[p]
    /\ w[p].b \in WalkB /\ call[p] = "linknew" => dinode[icache[ip[p]].inum].type # "dir"

StepTargets(z, w, p) ==
    /\ TargetFor(w, p)'
    /\ \A q \in FsProc \ {p} : z[q].b \in FillB \cup UnlinkB =>
          dirent'[icache[cur[q]].inum][Head(path[q])] = EntryOf(q)

\* The parts of the invariant for one process.
LEMMA FreshTargets ==
    ASSUME NEW z
    PROVE  /\ FreshAlone(z) <=> \A p \in FsProc : z[p].b \in FillB => FreshFor(z, p)
           /\ TargetsOK(z) <=> \A p \in FsProc : TargetFor(z, p)
  <1>1. FreshAlone(z) <=> \A p \in FsProc : z[p].b \in FillB => FreshFor(z, p)
    BY DEF FreshAlone, FreshFor
  <1>2. TargetsOK(z) <=> \A p \in FsProc : TargetFor(z, p)
    BY DEF TargetsOK, TargetFor
  <1> QED BY <1>1, <1>2

\* What p does not change for another process.
LEMMA OtherSame ==
    ASSUME NEW z, NEW w, NEW p \in FsProc, Moves(z, w, p), NEW q \in FsProc \ {p}
    PROVE  /\ HasCur(w, q)' <=> HasCur(z, q)
           /\ HasIp(w, q)' <=> HasIp(z, q)
           /\ Pend(w, q)' <=> Pend(z, q)
           /\ \A s : /\ RefCount(w, q, s)' = RefCount(z, q, s)
                     /\ Uses(w, q, s)' <=> Uses(z, q, s)
                     /\ Locks(w, q, s)' <=> Locks(z, q, s)
  <1>1. /\ w[q] = z[q] /\ call'[q] = call[q] /\ cur'[q] = cur[q] /\ ip'[q] = ip[q] /\ fd'[q] = fd[q]
    BY DEF Moves
  <1>2. HasCur(w, q)' <=> HasCur(z, q)
    BY <1>1 DEF HasCur
  <1>3. HasIp(w, q)' <=> HasIp(z, q)
    BY <1>1 DEF HasIp
  <1>4. Pend(w, q)' <=> Pend(z, q)
    BY <1>1 DEF Pend
  <1>5. ASSUME NEW s
        PROVE  /\ RefCount(w, q, s)' = RefCount(z, q, s)
               /\ Uses(w, q, s)' <=> Uses(z, q, s)
               /\ Locks(w, q, s)' <=> Locks(z, q, s)
    <2>1. RefCount(w, q, s)' = RefCount(z, q, s)
      BY <1>1, <1>2, <1>3 DEF RefCount, One, HasPut, HasLast
    <2>2. Uses(w, q, s)' <=> Uses(z, q, s)
      BY <1>1, <1>2, <1>3 DEF Uses, HasLast
    <2>3. Locks(w, q, s)' <=> Locks(z, q, s)
      BY <1>1 DEF Locks
    <2> QED BY <2>1, <2>2, <2>3
  <1> QED BY <1>2, <1>3, <1>4, <1>5

\* A step of p that leaves p's list as w says keeps every list as w says.
LEMMA PlacesStep ==
    ASSUME NEW z, FsIInvOf(z), NEW w, NEW p \in FsProc, Moves(z, w, p), StepPlaces(w, p)
    PROVE  Placed(w)'
  <1>1. k = [q \in FsProc |-> Prefix(z[q]) \o Rest(z[q], call[q])]
    BY DEF FsIInvOf, Placed
  <1>2. \A q \in FsProc \ {p} : w[q] = z[q] /\ call'[q] = call[q]
    BY DEF Moves
  <1>3. k' = [q \in FsProc |-> Prefix(w[q]) \o Rest(w[q], call'[q])]
    BY <1>1, <1>2 DEF StepPlaces
  <1>4. ASSUME NEW q \in FsProc \ {p} PROVE PlaceOK(w[q], q)'
    <2>1. PlaceOK(z[q], q)
      BY DEF FsIInvOf, Placed
    <2>2. /\ w[q] = z[q] /\ call'[q] = call[q] /\ path'[q] = path[q] /\ path2'[q] = path2[q]
          /\ cur'[q] = cur[q] /\ ip'[q] = ip[q] /\ fd'[q] = fd[q]
      BY DEF Moves
    <2> QED BY <2>1, <2>2 DEF PlaceOK, WantsParent
  <1>5. PlaceOK(w[p], p)'
    BY DEF StepPlaces
  <1>6. \A q \in FsProc : PlaceOK(w[q], q)'
    BY <1>4, <1>5
  <1> QED BY <1>3, <1>6 DEF Placed

\* A step that gives and takes sleep-locks for p alone keeps holders and ghosts in agreement.
LEMMA HoldersStep ==
    ASSUME NEW z, FsIInvOf(z), NEW w, NEW p \in FsProc, Moves(z, w, p), StepHolders(z, w, p)
    PROVE  HoldersOK(w)'
  <1> SUFFICES ASSUME NEW s \in ISlot
               PROVE  /\ \A q \in FsProc : icache'[s].holder = q <=> Locks(w, q, s)'
                      /\ icache'[s].holder # NoFsProc => icache'[s].valid
    BY DEF HoldersOK
  <1>1. \A q \in FsProc : icache[s].holder = q <=> Locks(z, q, s)
    BY DEF FsIInvOf, HoldersOK
  <1>2. \A q \in FsProc \ {p} : Locks(w, q, s)' <=> Locks(z, q, s)
    BY OtherSame
  <1>3. NoFsProc \notin FsProc
    BY InodeAssumption
  <1> QED BY <1>1, <1>2, <1>3 DEF StepHolders

\* A step that changes ref by as many references as p gains or drops keeps the counts exact.
LEMMA RefsStep ==
    ASSUME NEW z, FsIInvOf(z), NEW w, NEW p \in FsProc, Moves(z, w, p), StepRefs(z, w, p)
    PROVE  RefsExact(w)'
  <1> SUFFICES ASSUME NEW s \in ISlot
               PROVE  IsFiniteSet(References(w, s)') /\ icache'[s].ref = Cardinality(References(w, s)')
    BY DEF RefsExact
  <1>0. PICK f : f = [q \in FsProc |-> RefCount(z, q, s)]
    OBVIOUS
  <1>h. PICK h : h = [q \in FsProc |-> RefCount(w, q, s)']
    OBVIOUS
  <1>1. f \in [FsProc -> Nat]
    BY <1>0, RefCountNat
  <1>r. \A q \in FsProc : RefCount(w, q, s)' \in 0..5
    BY RefCountNat DEF RefCount, One
  <1>2. h \in [FsProc -> Nat]
    BY <1>h, <1>r
  <1>3. \A q \in FsProc \ {p} : f[q] = h[q]
    BY <1>0, <1>h, OtherSame
  <1>4. References(z, s) = Numbered(FsProc, f)
    BY <1>0, ReferencesNumbered
  <1>5. References(w, s)' = Numbered(FsProc, h)
    BY <1>h DEF References, Numbered
  <1>6. IsFiniteSet(Numbered(FsProc, f)) /\ icache[s].ref = Cardinality(Numbered(FsProc, f))
    BY <1>4 DEF FsIInvOf, RefsExact
  <1>7. /\ IsFiniteSet(Numbered(FsProc, h))
        /\ Cardinality(Numbered(FsProc, f)) \in Nat
        /\ Cardinality(Numbered(FsProc, h)) = Cardinality(Numbered(FsProc, f)) - f[p] + h[p]
    BY <1>1, <1>2, <1>3, <1>6, CountChange
  <1>8. icache'[s].ref = icache[s].ref + h[p] - f[p]
    BY <1>0, <1>h DEF StepRefs
  <1>9. f[p] \in Nat /\ h[p] \in Nat
    BY <1>1, <1>2
  <1> QED BY <1>5, <1>6, <1>7, <1>8, <1>9

\* A step that recycles only an unreferenced entry keeps one entry per inode.
LEMMA SlotsStep ==
    ASSUME NEW z, FsIInvOf(z), StepSlots
    PROVE  OneEntry'
  <1>1. /\ \A s \in ISlot : icache[s].ref > 0 => icache[s].inum \in Inum
        /\ \A s, t \in ISlot : icache[s].ref > 0 /\ icache[t].ref > 0 /\ icache[s].inum = icache[t].inum => s = t
    BY DEF FsIInvOf, OneEntry
  <1>2. \A s \in ISlot : icache'[s].ref > 0 => icache'[s].inum \in Inum
    BY <1>1 DEF StepSlots
  <1>3. \A s, t \in ISlot : icache'[s].ref > 0 /\ icache'[t].ref > 0 /\ icache'[s].inum = icache'[t].inum => s = t
    BY <1>1 DEF StepSlots
  <1> QED BY <1>2, <1>3 DEF OneEntry

\* An entry in use keeps its inode.
LEMMA UsedSlotKept ==
    ASSUME NEW z, FsIInvOf(z), StepSlots, NEW q \in FsProc, NEW s \in ISlot,
           RefCount(z, q, s) >= 1
    PROVE  icache'[s].inum = icache[s].inum /\ icache[s].inum \in Inum /\ icache[s].ref > 0
  <1>1. icache[s].ref > 0
    BY RefCounted
  <1> QED BY <1>1 DEF StepSlots, FsIInvOf, OneEntry

\* A step that frees no inode another process uses keeps the used inodes allocated.
LEMMA UsesStep ==
    ASSUME NEW z, FsIInvOf(z), NEW w, NEW p \in FsProc, Moves(z, w, p), StepSlots, StepUses(z, w, p)
    PROVE  UsedAllocated(w)'
  <1> SUFFICES ASSUME NEW q \in FsProc, NEW s \in ISlot, Uses(w, q, s)'
               PROVE  dinode'[icache'[s].inum].type # "none"
    BY DEF UsedAllocated
  <1>1. CASE q = p
    BY <1>1 DEF StepUses
  <1>2. CASE q # p
    <2>1. Uses(z, q, s)
      BY <1>2, OtherSame
    <2>2. icache'[s].inum = icache[s].inum
      BY <2>1, UsesCounted, UsedSlotKept
    <2>3. dinode[icache[s].inum].type # "none"
      BY <2>1 DEF FsIInvOf, UsedAllocated
    <2> QED BY <1>2, <2>1, <2>2, <2>3 DEF StepUses
  <1> QED BY <1>1, <1>2

\* A step that takes no reference to an inode without links leaves iput() its only user.
LEMMA FreeingStep ==
    ASSUME NEW z, FsIInvOf(z), NEW w, NEW p \in FsProc, Moves(z, w, p), StepSlots, StepFreeing(z, w, p)
    PROVE  FreeingAlone(w)'
  <1> SUFFICES ASSUME NEW q \in FsProc, w[q].ph = "free"
               PROVE  icache'[w[q].s].ref = 1 /\ dinode'[icache'[w[q].s].inum].nlink = 0
    BY DEF FreeingAlone
  <1>1. CASE q = p
    BY <1>1 DEF StepFreeing
  <1>2. CASE q # p
    <2>1. w[q] = z[q]
      BY <1>2 DEF Moves
    <2>2. z[q].s \in ISlot
      BY <2>1 DEF FsIInvOf, Placed, PlaceOK
    <2>3. icache'[z[q].s].inum = icache[z[q].s].inum
      BY <2>1, <2>2, UsesCounted, UsedSlotKept DEF HasPut
    <2> QED BY <1>2, <2>1, <2>3 DEF StepFreeing
  <1> QED BY <1>1, <1>2

\* The directory and the inode of a call in the middle of create() or unlink().
LEMMA PairKept ==
    ASSUME NEW z, FsIInvOf(z), NEW w, NEW p \in FsProc, Moves(z, w, p), StepSlots, StepTargets(z, w, p),
           NEW q \in FsProc \ {p}, z[q].b \in FillB \cup UnlinkB
    PROVE  /\ cur'[q] = cur[q] /\ ip'[q] = ip[q] /\ cur[q] \in ISlot /\ ip[q] \in ISlot
           /\ Uses(z, q, ip[q]) /\ Uses(z, q, cur[q])
           /\ icache'[cur[q]].inum = icache[cur[q]].inum
           /\ icache'[ip[q]].inum = icache[ip[q]].inum
           /\ EntryOf(q)' = EntryOf(q)
  <1>1. PlaceOK(z[q], q)
    BY DEF FsIInvOf, Placed
  <1>2. cur[q] \in ISlot /\ ip[q] \in ISlot
    BY <1>1 DEF PlaceOK
  <1>3. Uses(z, q, ip[q]) /\ Uses(z, q, cur[q])
    BY DEF Uses, HasCur, HasIp
  <1>4. icache'[cur[q]].inum = icache[cur[q]].inum /\ icache'[ip[q]].inum = icache[ip[q]].inum
    BY <1>2, <1>3, UsesCounted, UsedSlotKept
  <1>5. cur'[q] = cur[q] /\ ip'[q] = ip[q] /\ path'[q] = path[q]
    BY DEF Moves
  <1>6. EntryOf(q)' = dirent'[icache[cur[q]].inum][Head(path[q])]
    BY <1>4, <1>5 DEF EntryOf
  <1>7. dirent'[icache[cur[q]].inum][Head(path[q])] = EntryOf(q)
    BY DEF StepTargets
  <1> QED BY <1>2, <1>3, <1>4, <1>5, <1>6, <1>7

\* A step on other inodes leaves a new inode to the create() that allocated it.
LEMMA FreshStep ==
    ASSUME NEW z, FsIInvOf(z), NEW w, NEW p \in FsProc, Moves(z, w, p), StepSlots, StepUses(z, w, p),
           StepFresh(z, w, p), StepTargets(z, w, p)
    PROVE  FreshAlone(w)'
  <1> SUFFICES ASSUME NEW q \in FsProc, w[q].b \in FillB
               PROVE  FreshFor(w, q)'
    BY DEF FreshAlone, FreshFor
  <1>1. CASE q = p
    BY <1>1 DEF StepFresh
  <1>2. CASE q # p
    <2>1. w[q] = z[q] /\ call'[q] = call[q]
      BY <1>2 DEF Moves
    <2>2. FreshFor(z, q)
      BY <2>1, FreshTargets DEF FsIInvOf
    <2>3. /\ cur'[q] = cur[q] /\ ip'[q] = ip[q] /\ ip[q] \in ISlot
          /\ Uses(z, q, ip[q])
          /\ icache'[ip[q]].inum = icache[ip[q]].inum
          /\ EntryOf(q)' = EntryOf(q)
      BY <1>2, <2>1, PairKept
    <2>4. dinode'[icache[ip[q]].inum].nlink = 0
      BY <1>2, <2>1 DEF StepFresh
    <2>5. dinode'[icache[ip[q]].inum].type = dinode[icache[ip[q]].inum].type
      BY <1>2, <2>3 DEF StepUses
    <2>6. ASSUME NEW r \in FsProc, HasCur(w, r)' PROVE cur'[r] # ip[q]
      <3>1. CASE r = p
        BY <1>2, <2>1, <2>6, <3>1 DEF StepFresh
      <3>2. CASE r # p
        <4>1. HasCur(z, r)
          BY <2>6, <3>2, OtherSame
        <4>2. cur'[r] = cur[r]
          BY <3>2 DEF Moves
        <4> QED BY <2>2, <4>1, <4>2 DEF FreshFor
      <3> QED BY <3>1, <3>2
    <2>7. ASSUME NEW r \in FsProc \ {q}, w[r].b \in FillB PROVE ip'[r] # ip[q]
      <3>1. CASE r = p
        BY <1>2, <2>1, <2>7, <3>1 DEF StepFresh
      <3>2. CASE r # p
        <4>1. w[r] = z[r] /\ ip'[r] = ip[r]
          BY <3>2 DEF Moves
        <4> QED BY <2>2, <2>7, <4>1 DEF FreshFor
      <3> QED BY <3>1, <3>2
    <2> QED BY <2>1, <2>2, <2>3, <2>4, <2>5, <2>6, <2>7 DEF FreshFor
  <1> QED BY <1>1, <1>2

\* A step that keeps the inodes another process has found or made keeps what its call relies on.
LEMMA TargetsStep ==
    ASSUME NEW z, FsIInvOf(z), NEW w, NEW p \in FsProc, Moves(z, w, p), StepSlots, StepUses(z, w, p),
           StepTargets(z, w, p)
    PROVE  TargetsOK(w)'
  <1> SUFFICES ASSUME NEW q \in FsProc
               PROVE  TargetFor(w, q)'
    BY DEF TargetsOK, TargetFor
  <1>1. CASE q = p
    BY <1>1 DEF StepTargets
  <1>2. CASE q # p
    <2>1. w[q] = z[q] /\ call'[q] = call[q] /\ cur'[q] = cur[q] /\ ip'[q] = ip[q]
      BY <1>2 DEF Moves
    <2>2. TargetFor(z, q)
      BY FreshTargets DEF FsIInvOf
    <2>3. z[q].b \in UnlinkB => (EntryOf(q) = icache[ip[q]].inum)'
      <3>1. ASSUME z[q].b \in UnlinkB PROVE (EntryOf(q) = icache[ip[q]].inum)'
        <4>1. ip'[q] = ip[q] /\ icache'[ip[q]].inum = icache[ip[q]].inum /\ EntryOf(q)' = EntryOf(q)
          BY <1>2, <3>1, PairKept
        <4> QED BY <2>2, <3>1, <4>1 DEF TargetFor
      <3> QED BY <3>1
    <2>4. z[q].b \in WalkB /\ call[q] = "linknew" => dinode'[icache'[ip'[q]].inum].type # "dir"
      <3>1. ASSUME z[q].b \in WalkB /\ call[q] = "linknew"
            PROVE  dinode'[icache'[ip'[q]].inum].type # "dir"
        <4>1. Uses(z, q, ip[q])
          BY <3>1 DEF Uses, HasIp
        <4>2. ip[q] \in ISlot
          BY <3>1 DEF FsIInvOf, Placed, PlaceOK
        <4>3. icache'[ip[q]].inum = icache[ip[q]].inum
          BY <4>1, <4>2, UsesCounted, UsedSlotKept
        <4>4. dinode'[icache[ip[q]].inum].type = dinode[icache[ip[q]].inum].type
          BY <1>2, <4>1, <4>2 DEF StepUses
        <4> QED BY <2>1, <2>2, <3>1, <4>3, <4>4 DEF TargetFor
      <3> QED BY <3>1
    <2> QED BY <2>1, <2>2, <2>3, <2>4 DEF TargetFor
  <1> QED BY <1>1, <1>2

\* All of it.
LEMMA KeepsInv ==
    ASSUME NEW z, FsIInvOf(z), NEW w, NEW p \in FsProc, Moves(z, w, p), FsTyped',
           StepPlaces(w, p), StepHolders(z, w, p), StepRefs(z, w, p), StepSlots, Coherent(w)',
           StepUses(z, w, p), StepFreeing(z, w, p), LinksCover(w)', FreeUnlinked',
           StepFresh(z, w, p), StepTargets(z, w, p)
    PROVE  FsIInvOf(w)'
  <1>1. w \in [FsProc -> FsGhost]
    BY DEF Moves
  <1>2. Placed(w)'
    BY PlacesStep
  <1>3. HoldersOK(w)'
    BY HoldersStep
  <1>4. RefsExact(w)'
    BY RefsStep
  <1>5. OneEntry'
    BY SlotsStep
  <1>6. UsedAllocated(w)'
    BY UsesStep
  <1>7. FreeingAlone(w)'
    BY FreeingStep
  <1>8. FreshAlone(w)'
    BY FreshStep
  <1>9. TargetsOK(w)'
    BY TargetsStep
  <1> QED BY <1>1, <1>2, <1>3, <1>4, <1>5, <1>6, <1>7, <1>8, <1>9 DEF FsIInvOf

\* A pending link is one to an inode in use.
LEMMA PendUses ==
    ASSUME NEW z, FsIInvOf(z), NEW q \in FsProc, Pend(z, q)
    PROVE  HasIp(z, q) /\ ip[q] \in ISlot /\ Uses(z, q, ip[q]) /\ icache[ip[q]].inum \in Inum
  <1>1. HasIp(z, q)
    BY DEF Pend, HasIp
  <1>2. ip[q] \in ISlot
    BY <1>1 DEF HasIp, FsIInvOf, Placed, PlaceOK
  <1>3. Uses(z, q, ip[q])
    BY <1>1 DEF Uses
  <1>4. icache[ip[q]].inum \in Inum
    BY <1>2, <1>3, UsesCounted, RefCounted DEF FsIInvOf, OneEntry
  <1> QED BY <1>1, <1>2, <1>3, <1>4

\* A step of p leaves the pending links of the other processes alone.
LEMMA PendKept ==
    ASSUME NEW z, FsIInvOf(z), NEW w, NEW p \in FsProc, Moves(z, w, p), StepSlots,
           NEW q \in FsProc \ {p}, NEW i
    PROVE  q \in Pending(w, i)' <=> q \in Pending(z, i)
  <1>1. Pend(w, q)' <=> Pend(z, q)
    BY OtherSame
  <1>2. ip'[q] = ip[q]
    BY DEF Moves
  <1>3. Pend(z, q) => icache'[ip[q]].inum = icache[ip[q]].inum
    BY PendUses, UsesCounted, UsedSlotKept
  <1> QED BY <1>1, <1>2, <1>3 DEF Pending

\* The inodes' links when nothing is written to the disk.
LEMMA LinksSame ==
    ASSUME NEW z, FsIInvOf(z), NEW w, NEW p \in FsProc, Moves(z, w, p), StepSlots,
           dinode' = dinode, dirent' = dirent, Pend(w, p)' => Pend(z, p) /\ ip'[p] = ip[p]
    PROVE  LinksCover(w)' /\ FreeUnlinked'
  <1>1. ASSUME NEW i \in Inum
        PROVE  /\ IsFiniteSet(Parents(i)') /\ IsFiniteSet(Subdirs(i)') /\ IsFiniteSet(Pending(w, i)')
               /\ dinode'[i].nlink >= One(i = ROOTINO) + Cardinality(Parents(i)') + Cardinality(Subdirs(i)')
                                         + Cardinality(Pending(w, i)')
    <2>1. Parents(i)' = Parents(i) /\ Subdirs(i)' = Subdirs(i)
      BY DEF Parents, Subdirs
    <2>2. p \in Pending(w, i)' => p \in Pending(z, i)
      <3>1. Pend(w, p)' => icache'[ip[p]].inum = icache[ip[p]].inum
        BY PendUses, UsesCounted, UsedSlotKept
      <3> QED BY <3>1 DEF Pending
    <2>3. Pending(w, i)' \subseteq Pending(z, i)
      <3>1. Pending(w, i)' \subseteq FsProc
        BY DEF Pending
      <3> QED BY <2>2, <3>1, PendKept
    <2>4. /\ IsFiniteSet(Parents(i)) /\ IsFiniteSet(Subdirs(i)) /\ IsFiniteSet(Pending(z, i))
          /\ dinode[i].nlink >= One(i = ROOTINO) + Cardinality(Parents(i)) + Cardinality(Subdirs(i))
                                   + Cardinality(Pending(z, i))
      BY DEF FsIInvOf, LinksCover
    <2>5. IsFiniteSet(Pending(w, i)') /\ Cardinality(Pending(w, i)') <= Cardinality(Pending(z, i))
      BY <2>3, <2>4, FS_Subset
    <2>6. /\ Cardinality(Parents(i)) \in Nat /\ Cardinality(Subdirs(i)) \in Nat
          /\ Cardinality(Pending(z, i)) \in Nat /\ Cardinality(Pending(w, i)') \in Nat
      BY <2>4, <2>5, FS_CardinalityType
    <2>7. dinode[i].nlink \in Nat /\ One(i = ROOTINO) \in Nat
      BY DEF FsIInvOf, FsTyped, One
    <2> QED BY <2>1, <2>4, <2>5, <2>6, <2>7
  <1>2. LinksCover(w)'
    BY <1>1 DEF LinksCover
  <1>3. FreeUnlinked'
    BY DEF FsIInvOf, FreeUnlinked
  <1> QED BY <1>2, <1>3

\* Entries of directories when none changes.
LEMMA TargetsSame ==
    ASSUME NEW z, NEW w, NEW p \in FsProc, dirent' = dirent, TargetFor(w, p)'
    PROVE  StepTargets(z, w, p)
  BY DEF StepTargets, EntryOf

\* Other processes when nothing is written to the disk.
LEMMA OthersFree ==
    ASSUME NEW z, FsIInvOf(z), NEW q \in FsProc, z[q].ph = "free"
    PROVE  /\ z[q].s \in ISlot /\ icache[z[q].s].ref = 1 /\ dinode[icache[z[q].s].inum].nlink = 0
           /\ icache[z[q].s].inum \in Inum
           /\ RefCount(z, q, z[q].s) = 1
           /\ \A p \in FsProc \ {q} : RefCount(z, p, z[q].s) = 0
  <1>1. z[q].s \in ISlot
    BY DEF FsIInvOf, Placed, PlaceOK
  <1>2. icache[z[q].s].ref = 1 /\ dinode[icache[z[q].s].inum].nlink = 0
    BY DEF FsIInvOf, FreeingAlone
  <1>3. RefCount(z, q, z[q].s) >= 1
    BY <1>1, UsesCounted DEF HasPut
  <1>4. icache[z[q].s].inum \in Inum
    BY <1>1, <1>2 DEF FsIInvOf, OneEntry
  <1>5. RefCount(z, q, z[q].s) = 1 /\ \A p \in FsProc \ {q} : RefCount(z, p, z[q].s) = 0
    BY <1>1, <1>2, <1>3, RefCounted
  <1> QED BY <1>1, <1>2, <1>4, <1>5

-----------------------------------------------------------------------------
\* releasesleep() touches the lock alone.
LEMMA IunlockFields ==
    ASSUME NEW c \in IcacheType, NEW x \in ISlot
    PROVE  /\ iunlock(c, x) \in IcacheType
           /\ \A s \in ISlot :
                 /\ iunlock(c, x)[s].ref = c[s].ref /\ iunlock(c, x)[s].inum = c[s].inum
                 /\ iunlock(c, x)[s].valid = c[s].valid /\ iunlock(c, x)[s].type = c[s].type
                 /\ iunlock(c, x)[s].nlink = c[s].nlink
                 /\ iunlock(c, x)[s].holder = IF s = x THEN NoFsProc ELSE c[s].holder
  BY DEF IcacheType, iunlock

(* Steps that at most unlock an inode.                                     *)

\* A step that changes no inode, entry or register, and at most p's lock on one entry or
\* the references p holds itself, keeps the invariant.
LEMMA QuietStep ==
    ASSUME NEW z, FsIInvOf(z), NEW p \in FsProc, NEW g \in FsGhost, NEW w, w = [z EXCEPT ![p] = g],
           UNCHANGED <<dinode, dirent, regVars>>, StepPlaces(w, p),
           fd' \in [FsProc -> ISlot \cup {0}], \A q \in FsProc \ {p} : fd'[q] = fd[q],
           \/ icache' = icache /\ \A s \in ISlot : Locks(w, p, s)' <=> Locks(z, p, s)
           \/ \E x \in ISlot : /\ icache' = iunlock(icache, x) /\ icache[x].holder = p
                               /\ \A s \in ISlot : Locks(w, p, s)' <=> Locks(z, p, s) /\ s # x,
           \A s \in ISlot : RefCount(w, p, s)' = RefCount(z, p, s),
           \A s \in ISlot : Uses(w, p, s)' => Uses(z, p, s),
           z[p].ph = "none", g.ph \in {"none", "put"}, Pend(w, p)' => Pend(z, p),
           g.b \notin FillB \cup UnlinkB, g.b \in WalkB => z[p].b \in WalkB
    PROVE  FsIInvOf(w)'
  <1>1. /\ w[p] = g /\ w \in [FsProc -> FsGhost] /\ \A q \in FsProc \ {p} : w[q] = z[q]
    BY DEF FsIInvOf
  <1>2. /\ call' = call /\ path' = path /\ path2' = path2 /\ cur' = cur /\ ip' = ip
        /\ dinode' = dinode /\ dirent' = dirent
    BY DEF regVars
  <1>3. Moves(z, w, p)
    BY <1>1, <1>2 DEF Moves
  <1>4. /\ \A s \in ISlot : /\ icache'[s].ref = icache[s].ref /\ icache'[s].inum = icache[s].inum
                            /\ icache'[s].valid = icache[s].valid /\ icache'[s].type = icache[s].type
                            /\ icache'[s].nlink = icache[s].nlink
        /\ icache' \in IcacheType
    <2>1. icache \in IcacheType
      BY DEF FsIInvOf, FsTyped
    <2>2. icache' = icache \/ \E x \in ISlot : icache' = iunlock(icache, x)
      OBVIOUS
    <2> QED BY <2>1, <2>2, IunlockFields
  <1>5. StepHolders(z, w, p)
    <2> SUFFICES ASSUME NEW s \in ISlot
                 PROVE  /\ \/ icache'[s].holder = icache[s].holder /\ (Locks(w, p, s)' <=> Locks(z, p, s))
                           \/ icache'[s].holder = NoFsProc /\ icache[s].holder = p /\ ~Locks(w, p, s)'
                           \/ icache'[s].holder = p /\ icache[s].holder = NoFsProc /\ Locks(w, p, s)'
                        /\ icache'[s].holder # NoFsProc => icache'[s].valid
      BY DEF StepHolders
    <2>1. icache[s].holder # NoFsProc => icache[s].valid
      BY DEF FsIInvOf, HoldersOK
    <2>2. CASE icache' = icache /\ \A t \in ISlot : Locks(w, p, t)' <=> Locks(z, p, t)
      BY <2>1, <2>2
    <2>3. CASE \E x \in ISlot : /\ icache' = iunlock(icache, x) /\ icache[x].holder = p
                               /\ \A t \in ISlot : Locks(w, p, t)' <=> Locks(z, p, t) /\ t # x
      <3>1. PICK x \in ISlot : /\ icache' = iunlock(icache, x) /\ icache[x].holder = p
                               /\ \A t \in ISlot : Locks(w, p, t)' <=> Locks(z, p, t) /\ t # x
        BY <2>3
      <3>2. icache'[s].holder = IF s = x THEN NoFsProc ELSE icache[s].holder
        BY <3>1, IunlockFields DEF FsIInvOf, FsTyped
      <3> QED BY <1>4, <2>1, <3>1, <3>2
    <2> QED BY <2>2, <2>3
  <1>6. StepRefs(z, w, p)
    <2> SUFFICES ASSUME NEW s \in ISlot
                 PROVE  icache'[s].ref = icache[s].ref + RefCount(w, p, s)' - RefCount(z, p, s)
      BY DEF StepRefs
    <2>1. RefCount(z, p, s) \in 0..5 /\ icache[s].ref \in Nat
      BY RefCountNat, RefCounted
    <2>2. icache'[s].ref = icache[s].ref /\ RefCount(w, p, s)' = RefCount(z, p, s)
      BY <1>4
    <2> QED BY <2>1, <2>2
  <1>7. StepSlots
    BY <1>4 DEF StepSlots
  <1>8. Coherent(w)'
    <2> SUFFICES ASSUME NEW s \in ISlot, icache'[s].ref > 0, icache'[s].valid,
                        \A q \in FsProc : ~(w[q].ph = "freed" /\ w[q].s = s)
                 PROVE  /\ dinode'[icache'[s].inum] = [type |-> icache'[s].type, nlink |-> icache'[s].nlink]
                        /\ icache'[s].type # "none"
      BY DEF Coherent
    <2>1. \A q \in FsProc : ~(z[q].ph = "freed" /\ z[q].s = s)
      BY <1>1
    <2> QED BY <1>2, <1>4, <2>1 DEF FsIInvOf, Coherent
  <1>9. StepUses(z, w, p)
    BY <1>2, <1>4 DEF StepUses, FsIInvOf, UsedAllocated
  <1>10. StepFreeing(z, w, p)
    BY <1>1, <1>2, <1>4, OthersFree DEF StepFreeing
  <1>11. LinksCover(w)' /\ FreeUnlinked'
    BY <1>2, <1>3, <1>7, LinksSame
  <1>12. StepFresh(z, w, p)
    <2>1. HasCur(w, p)' => HasCur(z, p)
      BY <1>1 DEF HasCur
    <2> QED BY <1>1, <1>2, <2>1 DEF StepFresh, FsIInvOf, FreshAlone
  <1>13. StepTargets(z, w, p)
    <2>1. TargetFor(z, p)
      BY FreshTargets DEF FsIInvOf
    <2>2. g.b \in WalkB /\ call[p] = "linknew" => icache'[ip[p]].inum = icache[ip[p]].inum
      <3>1. z[p].b \in WalkB /\ call[p] = "linknew" => ip[p] \in ISlot
        BY DEF FsIInvOf, Placed, PlaceOK
      <3> QED BY <1>4, <3>1
    <2>3. TargetFor(w, p)'
      BY <1>1, <1>2, <2>1, <2>2 DEF TargetFor, UnlinkB
    <2> QED BY <1>2, <2>3, TargetsSame
  <1>14. FsTyped'
    BY <1>2, <1>4 DEF FsIInvOf, FsTyped
  <1> QED BY <1>3, <1>5, <1>6, <1>7, <1>8, <1>9, <1>10, <1>11, <1>12, <1>13, <1>14, KeepsInv

\* iunlock(dp) in unlink(): dp is still to be put.
LEMMA UnlockCurKeeps ==
    ASSUME NEW z, FsIInvOf(z), NEW p \in FsProc, UnlockCur(p)
    PROVE  FsIInv'
  <1>1. z[p].ph = "none" /\ z[p].b = "unlock" /\ Tail(k[p]) = <<put(z[p].t)>>
    BY AtPlace DEF UnlockCur
  <1>2. icache' = iunlock(icache, cur[p]) /\ Then(p, <<>>) /\ UNCHANGED <<dinode, dirent, regVars, fd>>
    BY DEF UnlockCur
  <1>3. PlaceOK(z[p], p) /\ z[p] \in FsGhost /\ FsTyped
    BY DEF FsIInvOf, Placed
  <1>4. cur[p] \in ISlot /\ z[p].t \in ISlot
    BY <1>1, <1>2, <1>3 DEF PlaceOK, FsTyped, PutB, FillB, UnlinkB, BadB, ExistB, WalkB
  <1>5. PICK g : g = [ph |-> "none", s |-> 0, b |-> "put", t |-> z[p].t]
    OBVIOUS
  <1>6. g \in FsGhost /\ g.ph = "none" /\ g.s = 0 /\ g.b = "put" /\ g.t = z[p].t
    BY <1>4, <1>5 DEF FsGhost, ISlot, PutPhase, FsPlace, WalkB, FillB, UnlinkB, BadB, PutB, ExistB
  <1>7. PICK w : w = [z EXCEPT ![p] = g]
    OBVIOUS
  <1>8. w[p] = g
    BY <1>7 DEF FsIInvOf
  <1>9. UNCHANGED <<dinode, dirent, call, path, path2, cur, ip>>
    BY <1>2 DEF regVars
  <1>10. fd' \in [FsProc -> ISlot \cup {0}] /\ fd' = fd
    BY <1>2, <1>3 DEF FsTyped
  <1>11. k' = [k EXCEPT ![p] = Prefix(g) \o Rest(g, call[p])]
    <2>1. Prefix(g) = <<>> /\ Rest(g, call[p]) = <<put(z[p].t)>>
      BY <1>6 DEF Prefix, Rest
    <2> QED BY <1>1, <1>2, <2>1 DEF Then
  <1>12. PlaceOK(w[p], p)'
    BY <1>4, <1>1, <1>3, <1>6, <1>8, <1>9, <1>10 DEF PlaceOK, WantsParent, WalkB, FillB, UnlinkB, BadB, PutB, ExistB
  <1>13. icache[cur[p]].holder = p
    <2>1. Locks(z, p, cur[p])
      BY <1>1 DEF Locks
    <2> QED BY <1>4, <2>1 DEF FsIInvOf, HoldersOK
  <1>14. \A s \in ISlot : Locks(w, p, s)' <=> Locks(z, p, s) /\ s # cur[p]
    BY <1>1, <1>6, <1>8, <1>9 DEF Locks
  <1>15. \A s \in ISlot : RefCount(w, p, s)' = RefCount(z, p, s)
    BY <1>4, <1>1, <1>6, <1>8, <1>9, <1>10
       DEF RefCount, One, HasCur, HasIp, HasPut, HasLast, ISlot, WalkB, FillB, UnlinkB, BadB, PutB, ExistB
  <1>16. \A s \in ISlot : Uses(w, p, s)' => Uses(z, p, s)
    BY <1>4, <1>1, <1>6, <1>8, <1>9, <1>10
       DEF Uses, HasCur, HasIp, HasLast, ISlot, WalkB, FillB, UnlinkB, BadB, PutB, ExistB
  <1>17. /\ Pend(w, p)' => Pend(z, p)
         /\ g.ph \in {"none", "put"} /\ g.b \notin FillB \cup UnlinkB /\ (g.b \in WalkB => z[p].b \in WalkB)
    BY <1>1, <1>6, <1>8, <1>9 DEF Pend, WalkB, FillB, UnlinkB, BadB, PutB, ExistB
  <1>18. StepPlaces(w, p)
    BY <1>8, <1>9, <1>11, <1>12 DEF StepPlaces
  <1>19. FsIInvOf(w)'
    <2>1. UNCHANGED <<dinode, dirent, regVars>> /\ z[p].ph = "none"
      BY <1>1, <1>2
    <2>2. fd' \in [FsProc -> ISlot \cup {0}] /\ \A q \in FsProc \ {p} : fd'[q] = fd[q]
      BY <1>10
    <2>3. \E x \in ISlot : /\ icache' = iunlock(icache, x) /\ icache[x].holder = p
                        /\ \A s \in ISlot : Locks(w, p, s)' <=> Locks(z, p, s) /\ s # x
      BY <1>2, <1>4, <1>13, <1>14
    <2> QED BY <1>6, <1>7, <1>15, <1>16, <1>17, <1>18, <2>1, <2>2, <2>3, QuietStep
  <1> QED BY <1>19 DEF FsIInv

\* nameiparent() stops.
LEMMA WalkParentKeeps ==
    ASSUME NEW z, FsIInvOf(z), NEW p \in FsProc, WalkParent(p)
    PROVE  FsIInv'
  <1>1. z[p].ph = "none" /\ z[p].b = "walk" /\ Tail(k[p]) = <<lock_cur, LastOp(call[p])>>
    BY AtPlace DEF WalkParent
  <1>2. icache' = iunlock(icache, cur[p]) /\ Then(p, <<>>) /\ UNCHANGED <<dinode, dirent, regVars, fd>>
    BY DEF WalkParent
  <1>3. PlaceOK(z[p], p) /\ z[p] \in FsGhost /\ FsTyped
    BY DEF FsIInvOf, Placed
  <1>4. cur[p] \in ISlot
    BY <1>1, <1>2, <1>3 DEF PlaceOK, FsTyped, PutB, FillB, UnlinkB, BadB, ExistB, WalkB
  <1>5. PICK g : g = [ph |-> "none", s |-> 0, b |-> "lockop", t |-> 0]
    OBVIOUS
  <1>6. g \in FsGhost /\ g.ph = "none" /\ g.s = 0 /\ g.b = "lockop" /\ g.t = 0
    BY <1>4, <1>5 DEF FsGhost, ISlot, PutPhase, FsPlace, WalkB, FillB, UnlinkB, BadB, PutB, ExistB
  <1>7. PICK w : w = [z EXCEPT ![p] = g]
    OBVIOUS
  <1>8. w[p] = g
    BY <1>7 DEF FsIInvOf
  <1>9. UNCHANGED <<dinode, dirent, call, path, path2, cur, ip>>
    BY <1>2 DEF regVars
  <1>10. fd' \in [FsProc -> ISlot \cup {0}] /\ fd' = fd
    BY <1>2, <1>3 DEF FsTyped
  <1>11. k' = [k EXCEPT ![p] = Prefix(g) \o Rest(g, call[p])]
    <2>1. Prefix(g) = <<>> /\ Rest(g, call[p]) = <<lock_cur, LastOp(call[p])>>
      BY <1>6 DEF Prefix, Rest
    <2> QED BY <1>1, <1>2, <2>1 DEF Then
  <1>12. PlaceOK(w[p], p)'
    BY <1>4, <1>1, <1>3, <1>6, <1>8, <1>9, <1>10 DEF PlaceOK, WantsParent, WalkB, FillB, UnlinkB, BadB, PutB, ExistB, WalkParent
  <1>13. icache[cur[p]].holder = p
    <2>1. Locks(z, p, cur[p])
      BY <1>1 DEF Locks
    <2> QED BY <1>4, <2>1 DEF FsIInvOf, HoldersOK
  <1>14. \A s \in ISlot : Locks(w, p, s)' <=> Locks(z, p, s) /\ s # cur[p]
    BY <1>1, <1>6, <1>8, <1>9 DEF Locks
  <1>15. \A s \in ISlot : RefCount(w, p, s)' = RefCount(z, p, s)
    BY <1>4, <1>1, <1>6, <1>8, <1>9, <1>10
       DEF RefCount, One, HasCur, HasIp, HasPut, HasLast, ISlot, WalkB, FillB, UnlinkB, BadB, PutB, ExistB
  <1>16. \A s \in ISlot : Uses(w, p, s)' => Uses(z, p, s)
    BY <1>4, <1>1, <1>6, <1>8, <1>9, <1>10
       DEF Uses, HasCur, HasIp, HasLast, ISlot, WalkB, FillB, UnlinkB, BadB, PutB, ExistB
  <1>17. /\ Pend(w, p)' => Pend(z, p)
         /\ g.ph \in {"none", "put"} /\ g.b \notin FillB \cup UnlinkB /\ (g.b \in WalkB => z[p].b \in WalkB)
    BY <1>1, <1>6, <1>8, <1>9 DEF Pend, WalkB, FillB, UnlinkB, BadB, PutB, ExistB
  <1>18. StepPlaces(w, p)
    BY <1>8, <1>9, <1>11, <1>12 DEF StepPlaces
  <1>19. FsIInvOf(w)'
    <2>1. UNCHANGED <<dinode, dirent, regVars>> /\ z[p].ph = "none"
      BY <1>1, <1>2
    <2>2. fd' \in [FsProc -> ISlot \cup {0}] /\ \A q \in FsProc \ {p} : fd'[q] = fd[q]
      BY <1>10
    <2>3. \E x \in ISlot : /\ icache' = iunlock(icache, x) /\ icache[x].holder = p
                        /\ \A s \in ISlot : Locks(w, p, s)' <=> Locks(z, p, s) /\ s # x
      BY <1>2, <1>4, <1>13, <1>14
    <2> QED BY <1>6, <1>7, <1>15, <1>16, <1>17, <1>18, <2>1, <2>2, <2>3, QuietStep
  <1> QED BY <1>19 DEF FsIInv

\* unlink() of a name that is not there.
LEMMA UnlinkMissingKeeps ==
    ASSUME NEW z, FsIInvOf(z), NEW p \in FsProc, UnlinkMissing(p)
    PROVE  FsIInv'
  <1>1. z[p].ph = "none" /\ z[p].b = "op" /\ Tail(k[p]) = <<>> /\ call[p] # "linknew"
    BY AtOp DEF UnlinkMissing
  <1>2. icache' = iunlock(icache, cur[p]) /\ Then(p, <<put(cur[p])>>) /\ UNCHANGED <<dinode, dirent, regVars, fd>>
    BY DEF UnlinkMissing
  <1>3. PlaceOK(z[p], p) /\ z[p] \in FsGhost /\ FsTyped
    BY DEF FsIInvOf, Placed
  <1>4. cur[p] \in ISlot
    BY <1>1, <1>2, <1>3 DEF PlaceOK, FsTyped, PutB, FillB, UnlinkB, BadB, ExistB, WalkB
  <1>5. PICK g : g = [ph |-> "put", s |-> cur[p], b |-> "idle", t |-> 0]
    OBVIOUS
  <1>6. g \in FsGhost /\ g.ph = "put" /\ g.s = cur[p] /\ g.b = "idle" /\ g.t = 0
    BY <1>4, <1>5 DEF FsGhost, ISlot, PutPhase, FsPlace, WalkB, FillB, UnlinkB, BadB, PutB, ExistB
  <1>7. PICK w : w = [z EXCEPT ![p] = g]
    OBVIOUS
  <1>8. w[p] = g
    BY <1>7 DEF FsIInvOf
  <1>9. UNCHANGED <<dinode, dirent, call, path, path2, cur, ip>>
    BY <1>2 DEF regVars
  <1>10. fd' \in [FsProc -> ISlot \cup {0}] /\ fd' = fd
    BY <1>2, <1>3 DEF FsTyped
  <1>11. k' = [k EXCEPT ![p] = Prefix(g) \o Rest(g, call[p])]
    <2>1. Prefix(g) = <<put(cur[p])>> /\ Rest(g, call[p]) = <<>>
      BY <1>6 DEF Prefix, Rest
    <2> QED BY <1>1, <1>2, <2>1 DEF Then
  <1>12. PlaceOK(w[p], p)'
    BY <1>4, <1>1, <1>3, <1>6, <1>8, <1>9, <1>10 DEF PlaceOK, WantsParent, WalkB, FillB, UnlinkB, BadB, PutB, ExistB
  <1>13. icache[cur[p]].holder = p
    <2>1. Locks(z, p, cur[p])
      BY <1>1 DEF Locks
    <2> QED BY <1>4, <2>1 DEF FsIInvOf, HoldersOK
  <1>14. \A s \in ISlot : Locks(w, p, s)' <=> Locks(z, p, s) /\ s # cur[p]
    BY <1>1, <1>6, <1>8, <1>9 DEF Locks
  <1>15. \A s \in ISlot : RefCount(w, p, s)' = RefCount(z, p, s)
    BY <1>4, <1>1, <1>6, <1>8, <1>9, <1>10
       DEF RefCount, One, HasCur, HasIp, HasPut, HasLast, ISlot, WalkB, FillB, UnlinkB, BadB, PutB, ExistB
  <1>16. \A s \in ISlot : Uses(w, p, s)' => Uses(z, p, s)
    BY <1>4, <1>1, <1>6, <1>8, <1>9, <1>10
       DEF Uses, HasCur, HasIp, HasLast, ISlot, WalkB, FillB, UnlinkB, BadB, PutB, ExistB
  <1>17. /\ Pend(w, p)' => Pend(z, p)
         /\ g.ph \in {"none", "put"} /\ g.b \notin FillB \cup UnlinkB /\ (g.b \in WalkB => z[p].b \in WalkB)
    BY <1>1, <1>6, <1>8, <1>9 DEF Pend, WalkB, FillB, UnlinkB, BadB, PutB, ExistB
  <1>18. StepPlaces(w, p)
    BY <1>8, <1>9, <1>11, <1>12 DEF StepPlaces
  <1>19. FsIInvOf(w)'
    <2>1. UNCHANGED <<dinode, dirent, regVars>> /\ z[p].ph = "none"
      BY <1>1, <1>2
    <2>2. fd' \in [FsProc -> ISlot \cup {0}] /\ \A q \in FsProc \ {p} : fd'[q] = fd[q]
      BY <1>10
    <2>3. \E x \in ISlot : /\ icache' = iunlock(icache, x) /\ icache[x].holder = p
                        /\ \A s \in ISlot : Locks(w, p, s)' <=> Locks(z, p, s) /\ s # x
      BY <1>2, <1>4, <1>13, <1>14
    <2> QED BY <1>6, <1>7, <1>15, <1>16, <1>17, <1>18, <2>1, <2>2, <2>3, QuietStep
  <1> QED BY <1>19 DEF FsIInv

\* link() of a directory.
LEMMA LinkDirKeeps ==
    ASSUME NEW z, FsIInvOf(z), NEW p \in FsProc, LinkDir(p)
    PROVE  FsIInv'
  <1>1. z[p].ph = "none" /\ z[p].b = "op" /\ Tail(k[p]) = <<>> /\ call[p] # "linknew"
    BY AtOp DEF LinkDir
  <1>2. icache' = iunlock(icache, cur[p]) /\ Then(p, <<put(cur[p])>>) /\ UNCHANGED <<dinode, dirent, regVars, fd>>
    BY DEF LinkDir
  <1>3. PlaceOK(z[p], p) /\ z[p] \in FsGhost /\ FsTyped
    BY DEF FsIInvOf, Placed
  <1>4. cur[p] \in ISlot
    BY <1>1, <1>2, <1>3 DEF PlaceOK, FsTyped, PutB, FillB, UnlinkB, BadB, ExistB, WalkB
  <1>5. PICK g : g = [ph |-> "put", s |-> cur[p], b |-> "idle", t |-> 0]
    OBVIOUS
  <1>6. g \in FsGhost /\ g.ph = "put" /\ g.s = cur[p] /\ g.b = "idle" /\ g.t = 0
    BY <1>4, <1>5 DEF FsGhost, ISlot, PutPhase, FsPlace, WalkB, FillB, UnlinkB, BadB, PutB, ExistB
  <1>7. PICK w : w = [z EXCEPT ![p] = g]
    OBVIOUS
  <1>8. w[p] = g
    BY <1>7 DEF FsIInvOf
  <1>9. UNCHANGED <<dinode, dirent, call, path, path2, cur, ip>>
    BY <1>2 DEF regVars
  <1>10. fd' \in [FsProc -> ISlot \cup {0}] /\ fd' = fd
    BY <1>2, <1>3 DEF FsTyped
  <1>11. k' = [k EXCEPT ![p] = Prefix(g) \o Rest(g, call[p])]
    <2>1. Prefix(g) = <<put(cur[p])>> /\ Rest(g, call[p]) = <<>>
      BY <1>6 DEF Prefix, Rest
    <2> QED BY <1>1, <1>2, <2>1 DEF Then
  <1>12. PlaceOK(w[p], p)'
    BY <1>4, <1>1, <1>3, <1>6, <1>8, <1>9, <1>10 DEF PlaceOK, WantsParent, WalkB, FillB, UnlinkB, BadB, PutB, ExistB
  <1>13. icache[cur[p]].holder = p
    <2>1. Locks(z, p, cur[p])
      BY <1>1 DEF Locks
    <2> QED BY <1>4, <2>1 DEF FsIInvOf, HoldersOK
  <1>14. \A s \in ISlot : Locks(w, p, s)' <=> Locks(z, p, s) /\ s # cur[p]
    BY <1>1, <1>6, <1>8, <1>9 DEF Locks
  <1>15. \A s \in ISlot : RefCount(w, p, s)' = RefCount(z, p, s)
    BY <1>4, <1>1, <1>6, <1>8, <1>9, <1>10
       DEF RefCount, One, HasCur, HasIp, HasPut, HasLast, ISlot, WalkB, FillB, UnlinkB, BadB, PutB, ExistB
  <1>16. \A s \in ISlot : Uses(w, p, s)' => Uses(z, p, s)
    BY <1>4, <1>1, <1>6, <1>8, <1>9, <1>10
       DEF Uses, HasCur, HasIp, HasLast, ISlot, WalkB, FillB, UnlinkB, BadB, PutB, ExistB
  <1>17. /\ Pend(w, p)' => Pend(z, p)
         /\ g.ph \in {"none", "put"} /\ g.b \notin FillB \cup UnlinkB /\ (g.b \in WalkB => z[p].b \in WalkB)
    BY <1>1, <1>6, <1>8, <1>9 DEF Pend, WalkB, FillB, UnlinkB, BadB, PutB, ExistB
  <1>18. StepPlaces(w, p)
    BY <1>8, <1>9, <1>11, <1>12 DEF StepPlaces
  <1>19. FsIInvOf(w)'
    <2>1. UNCHANGED <<dinode, dirent, regVars>> /\ z[p].ph = "none"
      BY <1>1, <1>2
    <2>2. fd' \in [FsProc -> ISlot \cup {0}] /\ \A q \in FsProc \ {p} : fd'[q] = fd[q]
      BY <1>10
    <2>3. \E x \in ISlot : /\ icache' = iunlock(icache, x) /\ icache[x].holder = p
                        /\ \A s \in ISlot : Locks(w, p, s)' <=> Locks(z, p, s) /\ s # x
      BY <1>2, <1>4, <1>13, <1>14
    <2> QED BY <1>6, <1>7, <1>15, <1>16, <1>17, <1>18, <2>1, <2>2, <2>3, QuietStep
  <1> QED BY <1>19 DEF FsIInv

\* open() finds no descriptor.
LEMMA OpenFailsKeeps ==
    ASSUME NEW z, FsIInvOf(z), NEW p \in FsProc, OpenFound(p), UNCHANGED fd /\ Then(p, <<put(cur[p])>>)
    PROVE  FsIInv'
  <1>1. z[p].ph = "none" /\ z[p].b = "op" /\ Tail(k[p]) = <<>> /\ call[p] # "linknew"
    BY AtOp DEF OpenFound
  <1>2. icache' = iunlock(icache, cur[p]) /\ Then(p, <<put(cur[p])>>) /\ UNCHANGED <<dinode, dirent, regVars, fd>>
    BY DEF OpenFound
  <1>3. PlaceOK(z[p], p) /\ z[p] \in FsGhost /\ FsTyped
    BY DEF FsIInvOf, Placed
  <1>4. cur[p] \in ISlot
    BY <1>1, <1>2, <1>3 DEF PlaceOK, FsTyped, PutB, FillB, UnlinkB, BadB, ExistB, WalkB
  <1>5. PICK g : g = [ph |-> "put", s |-> cur[p], b |-> "idle", t |-> 0]
    OBVIOUS
  <1>6. g \in FsGhost /\ g.ph = "put" /\ g.s = cur[p] /\ g.b = "idle" /\ g.t = 0
    BY <1>4, <1>5 DEF FsGhost, ISlot, PutPhase, FsPlace, WalkB, FillB, UnlinkB, BadB, PutB, ExistB
  <1>7. PICK w : w = [z EXCEPT ![p] = g]
    OBVIOUS
  <1>8. w[p] = g
    BY <1>7 DEF FsIInvOf
  <1>9. UNCHANGED <<dinode, dirent, call, path, path2, cur, ip>>
    BY <1>2 DEF regVars
  <1>10. fd' \in [FsProc -> ISlot \cup {0}] /\ fd' = fd
    BY <1>2, <1>3 DEF FsTyped
  <1>11. k' = [k EXCEPT ![p] = Prefix(g) \o Rest(g, call[p])]
    <2>1. Prefix(g) = <<put(cur[p])>> /\ Rest(g, call[p]) = <<>>
      BY <1>6 DEF Prefix, Rest
    <2> QED BY <1>1, <1>2, <2>1 DEF Then
  <1>12. PlaceOK(w[p], p)'
    BY <1>4, <1>1, <1>3, <1>6, <1>8, <1>9, <1>10 DEF PlaceOK, WantsParent, WalkB, FillB, UnlinkB, BadB, PutB, ExistB
  <1>13. icache[cur[p]].holder = p
    <2>1. Locks(z, p, cur[p])
      BY <1>1 DEF Locks
    <2> QED BY <1>4, <2>1 DEF FsIInvOf, HoldersOK
  <1>14. \A s \in ISlot : Locks(w, p, s)' <=> Locks(z, p, s) /\ s # cur[p]
    BY <1>1, <1>6, <1>8, <1>9 DEF Locks
  <1>15. \A s \in ISlot : RefCount(w, p, s)' = RefCount(z, p, s)
    BY <1>4, <1>1, <1>6, <1>8, <1>9, <1>10
       DEF RefCount, One, HasCur, HasIp, HasPut, HasLast, ISlot, WalkB, FillB, UnlinkB, BadB, PutB, ExistB
  <1>16. \A s \in ISlot : Uses(w, p, s)' => Uses(z, p, s)
    BY <1>4, <1>1, <1>6, <1>8, <1>9, <1>10
       DEF Uses, HasCur, HasIp, HasLast, ISlot, WalkB, FillB, UnlinkB, BadB, PutB, ExistB
  <1>17. /\ Pend(w, p)' => Pend(z, p)
         /\ g.ph \in {"none", "put"} /\ g.b \notin FillB \cup UnlinkB /\ (g.b \in WalkB => z[p].b \in WalkB)
    BY <1>1, <1>6, <1>8, <1>9 DEF Pend, WalkB, FillB, UnlinkB, BadB, PutB, ExistB
  <1>18. StepPlaces(w, p)
    BY <1>8, <1>9, <1>11, <1>12 DEF StepPlaces
  <1>19. FsIInvOf(w)'
    <2>1. UNCHANGED <<dinode, dirent, regVars>> /\ z[p].ph = "none"
      BY <1>1, <1>2
    <2>2. fd' \in [FsProc -> ISlot \cup {0}] /\ \A q \in FsProc \ {p} : fd'[q] = fd[q]
      BY <1>10
    <2>3. \E x \in ISlot : /\ icache' = iunlock(icache, x) /\ icache[x].holder = p
                        /\ \A s \in ISlot : Locks(w, p, s)' <=> Locks(z, p, s) /\ s # x
      BY <1>2, <1>4, <1>13, <1>14
    <2> QED BY <1>6, <1>7, <1>15, <1>16, <1>17, <1>18, <2>1, <2>2, <2>3, QuietStep
  <1> QED BY <1>19 DEF FsIInv

\* create() of what is there and is no file.
LEMMA ExistsFailsKeeps ==
    ASSUME NEW z, FsIInvOf(z), NEW p \in FsProc, CreateExists(p), Then(p, <<put(ip[p])>>) /\ icache' = iunlock(icache, ip[p])
    PROVE  FsIInv'
  <1>1. z[p].ph = "none" /\ z[p].b = "exists" /\ Tail(k[p]) = <<>>
    BY AtPlace DEF CreateExists
  <1>2. icache' = iunlock(icache, ip[p]) /\ Then(p, <<put(ip[p])>>) /\ UNCHANGED <<dinode, dirent, regVars, fd>>
    BY DEF CreateExists
  <1>3. PlaceOK(z[p], p) /\ z[p] \in FsGhost /\ FsTyped
    BY DEF FsIInvOf, Placed
  <1>4. ip[p] \in ISlot
    BY <1>1, <1>2, <1>3 DEF PlaceOK, FsTyped, PutB, FillB, UnlinkB, BadB, ExistB, WalkB
  <1>5. PICK g : g = [ph |-> "put", s |-> ip[p], b |-> "idle", t |-> 0]
    OBVIOUS
  <1>6. g \in FsGhost /\ g.ph = "put" /\ g.s = ip[p] /\ g.b = "idle" /\ g.t = 0
    BY <1>4, <1>5 DEF FsGhost, ISlot, PutPhase, FsPlace, WalkB, FillB, UnlinkB, BadB, PutB, ExistB
  <1>7. PICK w : w = [z EXCEPT ![p] = g]
    OBVIOUS
  <1>8. w[p] = g
    BY <1>7 DEF FsIInvOf
  <1>9. UNCHANGED <<dinode, dirent, call, path, path2, cur, ip>>
    BY <1>2 DEF regVars
  <1>10. fd' \in [FsProc -> ISlot \cup {0}] /\ fd' = fd
    BY <1>2, <1>3 DEF FsTyped
  <1>11. k' = [k EXCEPT ![p] = Prefix(g) \o Rest(g, call[p])]
    <2>1. Prefix(g) = <<put(ip[p])>> /\ Rest(g, call[p]) = <<>>
      BY <1>6 DEF Prefix, Rest
    <2> QED BY <1>1, <1>2, <2>1 DEF Then
  <1>12. PlaceOK(w[p], p)'
    BY <1>4, <1>1, <1>3, <1>6, <1>8, <1>9, <1>10 DEF PlaceOK, WantsParent, WalkB, FillB, UnlinkB, BadB, PutB, ExistB
  <1>13. icache[ip[p]].holder = p
    <2>1. Locks(z, p, ip[p])
      BY <1>1 DEF Locks
    <2> QED BY <1>4, <2>1 DEF FsIInvOf, HoldersOK
  <1>14. \A s \in ISlot : Locks(w, p, s)' <=> Locks(z, p, s) /\ s # ip[p]
    BY <1>1, <1>6, <1>8, <1>9 DEF Locks
  <1>15. \A s \in ISlot : RefCount(w, p, s)' = RefCount(z, p, s)
    BY <1>4, <1>1, <1>6, <1>8, <1>9, <1>10
       DEF RefCount, One, HasCur, HasIp, HasPut, HasLast, ISlot, WalkB, FillB, UnlinkB, BadB, PutB, ExistB
  <1>16. \A s \in ISlot : Uses(w, p, s)' => Uses(z, p, s)
    BY <1>4, <1>1, <1>6, <1>8, <1>9, <1>10
       DEF Uses, HasCur, HasIp, HasLast, ISlot, WalkB, FillB, UnlinkB, BadB, PutB, ExistB
  <1>17. /\ Pend(w, p)' => Pend(z, p)
         /\ g.ph \in {"none", "put"} /\ g.b \notin FillB \cup UnlinkB /\ (g.b \in WalkB => z[p].b \in WalkB)
    BY <1>1, <1>6, <1>8, <1>9 DEF Pend, WalkB, FillB, UnlinkB, BadB, PutB, ExistB
  <1>18. StepPlaces(w, p)
    BY <1>8, <1>9, <1>11, <1>12 DEF StepPlaces
  <1>19. FsIInvOf(w)'
    <2>1. UNCHANGED <<dinode, dirent, regVars>> /\ z[p].ph = "none"
      BY <1>1, <1>2
    <2>2. fd' \in [FsProc -> ISlot \cup {0}] /\ \A q \in FsProc \ {p} : fd'[q] = fd[q]
      BY <1>10
    <2>3. \E x \in ISlot : /\ icache' = iunlock(icache, x) /\ icache[x].holder = p
                        /\ \A s \in ISlot : Locks(w, p, s)' <=> Locks(z, p, s) /\ s # x
      BY <1>2, <1>4, <1>13, <1>14
    <2> QED BY <1>6, <1>7, <1>15, <1>16, <1>17, <1>18, <2>1, <2>2, <2>3, QuietStep
  <1> QED BY <1>19 DEF FsIInv

\* mkdir() is done, or open() finds no descriptor.
LEMMA OpenedFailsKeeps ==
    ASSUME NEW z, FsIInvOf(z), NEW p \in FsProc, Opened(p), UNCHANGED fd /\ Then(p, <<put(ip[p])>>)
    PROVE  FsIInv'
  <1>1. z[p].ph = "none" /\ z[p].b = "opened" /\ Tail(k[p]) = <<>>
    BY AtPlace DEF Opened
  <1>2. icache' = iunlock(icache, ip[p]) /\ Then(p, <<put(ip[p])>>) /\ UNCHANGED <<dinode, dirent, regVars, fd>>
    BY DEF Opened
  <1>3. PlaceOK(z[p], p) /\ z[p] \in FsGhost /\ FsTyped
    BY DEF FsIInvOf, Placed
  <1>4. ip[p] \in ISlot
    BY <1>1, <1>2, <1>3 DEF PlaceOK, FsTyped, PutB, FillB, UnlinkB, BadB, ExistB, WalkB
  <1>5. PICK g : g = [ph |-> "put", s |-> ip[p], b |-> "idle", t |-> 0]
    OBVIOUS
  <1>6. g \in FsGhost /\ g.ph = "put" /\ g.s = ip[p] /\ g.b = "idle" /\ g.t = 0
    BY <1>4, <1>5 DEF FsGhost, ISlot, PutPhase, FsPlace, WalkB, FillB, UnlinkB, BadB, PutB, ExistB
  <1>7. PICK w : w = [z EXCEPT ![p] = g]
    OBVIOUS
  <1>8. w[p] = g
    BY <1>7 DEF FsIInvOf
  <1>9. UNCHANGED <<dinode, dirent, call, path, path2, cur, ip>>
    BY <1>2 DEF regVars
  <1>10. fd' \in [FsProc -> ISlot \cup {0}] /\ fd' = fd
    BY <1>2, <1>3 DEF FsTyped
  <1>11. k' = [k EXCEPT ![p] = Prefix(g) \o Rest(g, call[p])]
    <2>1. Prefix(g) = <<put(ip[p])>> /\ Rest(g, call[p]) = <<>>
      BY <1>6 DEF Prefix, Rest
    <2> QED BY <1>1, <1>2, <2>1 DEF Then
  <1>12. PlaceOK(w[p], p)'
    BY <1>4, <1>1, <1>3, <1>6, <1>8, <1>9, <1>10 DEF PlaceOK, WantsParent, WalkB, FillB, UnlinkB, BadB, PutB, ExistB
  <1>13. icache[ip[p]].holder = p
    <2>1. Locks(z, p, ip[p])
      BY <1>1 DEF Locks
    <2> QED BY <1>4, <2>1 DEF FsIInvOf, HoldersOK
  <1>14. \A s \in ISlot : Locks(w, p, s)' <=> Locks(z, p, s) /\ s # ip[p]
    BY <1>1, <1>6, <1>8, <1>9 DEF Locks
  <1>15. \A s \in ISlot : RefCount(w, p, s)' = RefCount(z, p, s)
    BY <1>4, <1>1, <1>6, <1>8, <1>9, <1>10
       DEF RefCount, One, HasCur, HasIp, HasPut, HasLast, ISlot, WalkB, FillB, UnlinkB, BadB, PutB, ExistB
  <1>16. \A s \in ISlot : Uses(w, p, s)' => Uses(z, p, s)
    BY <1>4, <1>1, <1>6, <1>8, <1>9, <1>10
       DEF Uses, HasCur, HasIp, HasLast, ISlot, WalkB, FillB, UnlinkB, BadB, PutB, ExistB
  <1>17. /\ Pend(w, p)' => Pend(z, p)
         /\ g.ph \in {"none", "put"} /\ g.b \notin FillB \cup UnlinkB /\ (g.b \in WalkB => z[p].b \in WalkB)
    BY <1>1, <1>6, <1>8, <1>9 DEF Pend, WalkB, FillB, UnlinkB, BadB, PutB, ExistB
  <1>18. StepPlaces(w, p)
    BY <1>8, <1>9, <1>11, <1>12 DEF StepPlaces
  <1>19. FsIInvOf(w)'
    <2>1. UNCHANGED <<dinode, dirent, regVars>> /\ z[p].ph = "none"
      BY <1>1, <1>2
    <2>2. fd' \in [FsProc -> ISlot \cup {0}] /\ \A q \in FsProc \ {p} : fd'[q] = fd[q]
      BY <1>10
    <2>3. \E x \in ISlot : /\ icache' = iunlock(icache, x) /\ icache[x].holder = p
                        /\ \A s \in ISlot : Locks(w, p, s)' <=> Locks(z, p, s) /\ s # x
      BY <1>2, <1>4, <1>13, <1>14
    <2> QED BY <1>6, <1>7, <1>15, <1>16, <1>17, <1>18, <2>1, <2>2, <2>3, QuietStep
  <1> QED BY <1>19 DEF FsIInv

\* unlink() of a directory that is not empty.
LEMMA UnlinkNotEmptyKeeps ==
    ASSUME NEW z, FsIInvOf(z), NEW p \in FsProc, UnlinkNotEmpty(p)
    PROVE  FsIInv'
  <1>1. z[p].ph = "none" /\ z[p].b = "unlinked" /\ Tail(k[p]) = <<>>
    BY AtPlace DEF UnlinkNotEmpty
  <1>2. icache' = iunlock(icache, ip[p]) /\ Then(p, <<put(ip[p]), <<"unlock", 0>>, put(cur[p])>>) /\ UNCHANGED <<dinode, dirent, regVars, fd>>
    BY DEF UnlinkNotEmpty
  <1>3. PlaceOK(z[p], p) /\ z[p] \in FsGhost /\ FsTyped
    BY DEF FsIInvOf, Placed
  <1>4. cur[p] \in ISlot /\ ip[p] \in ISlot
    BY <1>1, <1>2, <1>3 DEF PlaceOK, FsTyped, PutB, FillB, UnlinkB, BadB, ExistB, WalkB
  <1>5. PICK g : g = [ph |-> "put", s |-> ip[p], b |-> "unlock", t |-> cur[p]]
    OBVIOUS
  <1>6. g \in FsGhost /\ g.ph = "put" /\ g.s = ip[p] /\ g.b = "unlock" /\ g.t = cur[p]
    BY <1>4, <1>5 DEF FsGhost, ISlot, PutPhase, FsPlace, WalkB, FillB, UnlinkB, BadB, PutB, ExistB
  <1>7. PICK w : w = [z EXCEPT ![p] = g]
    OBVIOUS
  <1>8. w[p] = g
    BY <1>7 DEF FsIInvOf
  <1>9. UNCHANGED <<dinode, dirent, call, path, path2, cur, ip>>
    BY <1>2 DEF regVars
  <1>10. fd' \in [FsProc -> ISlot \cup {0}] /\ fd' = fd
    BY <1>2, <1>3 DEF FsTyped
  <1>11. k' = [k EXCEPT ![p] = Prefix(g) \o Rest(g, call[p])]
    <2>1. Prefix(g) = <<put(ip[p])>> /\ Rest(g, call[p]) = << <<"unlock", 0>>, put(cur[p])>>
      BY <1>6 DEF Prefix, Rest
    <2>2. <<put(ip[p]), <<"unlock", 0>>, put(cur[p])>> \o <<>> = <<put(ip[p])>> \o << <<"unlock", 0>>, put(cur[p])>>
      <3>1. put(ip[p]) \in FsOp /\ <<"unlock", 0>> \in FsOp /\ put(cur[p]) \in FsOp
        BY <1>4 DEF FsOp, FsOpName, put, ISlot
      <3> QED BY <3>1, OpLists
    <2> QED BY <1>1, <1>2, <2>1, <2>2 DEF Then
  <1>12. PlaceOK(w[p], p)'
    BY <1>4, <1>1, <1>3, <1>6, <1>8, <1>9, <1>10 DEF PlaceOK, WantsParent, WalkB, FillB, UnlinkB, BadB, PutB, ExistB
  <1>13. icache[ip[p]].holder = p
    <2>1. Locks(z, p, ip[p])
      BY <1>1 DEF Locks
    <2> QED BY <1>4, <2>1 DEF FsIInvOf, HoldersOK
  <1>14. \A s \in ISlot : Locks(w, p, s)' <=> Locks(z, p, s) /\ s # ip[p]
    <2>1. cur[p] # ip[p]
      BY <1>1 DEF FsIInvOf, TargetsOK
    <2> QED BY <1>1, <1>6, <1>8, <1>9, <2>1 DEF Locks
  <1>15. \A s \in ISlot : RefCount(w, p, s)' = RefCount(z, p, s)
    BY <1>4, <1>1, <1>6, <1>8, <1>9, <1>10
       DEF RefCount, One, HasCur, HasIp, HasPut, HasLast, ISlot, WalkB, FillB, UnlinkB, BadB, PutB, ExistB
  <1>16. \A s \in ISlot : Uses(w, p, s)' => Uses(z, p, s)
    BY <1>4, <1>1, <1>6, <1>8, <1>9, <1>10
       DEF Uses, HasCur, HasIp, HasLast, ISlot, WalkB, FillB, UnlinkB, BadB, PutB, ExistB
  <1>17. /\ Pend(w, p)' => Pend(z, p)
         /\ g.ph \in {"none", "put"} /\ g.b \notin FillB \cup UnlinkB /\ (g.b \in WalkB => z[p].b \in WalkB)
    BY <1>1, <1>6, <1>8, <1>9 DEF Pend, WalkB, FillB, UnlinkB, BadB, PutB, ExistB
  <1>18. StepPlaces(w, p)
    BY <1>8, <1>9, <1>11, <1>12 DEF StepPlaces
  <1>19. FsIInvOf(w)'
    <2>1. UNCHANGED <<dinode, dirent, regVars>> /\ z[p].ph = "none"
      BY <1>1, <1>2
    <2>2. fd' \in [FsProc -> ISlot \cup {0}] /\ \A q \in FsProc \ {p} : fd'[q] = fd[q]
      BY <1>10
    <2>3. \E x \in ISlot : /\ icache' = iunlock(icache, x) /\ icache[x].holder = p
                        /\ \A s \in ISlot : Locks(w, p, s)' <=> Locks(z, p, s) /\ s # x
      BY <1>2, <1>4, <1>13, <1>14
    <2> QED BY <1>6, <1>7, <1>15, <1>16, <1>17, <1>18, <2>1, <2>2, <2>3, QuietStep
  <1> QED BY <1>19 DEF FsIInv

\* link() to a name that is there.
LEMMA LinkExistsKeeps ==
    ASSUME NEW z, FsIInvOf(z), NEW p \in FsProc, LinkExists(p)
    PROVE  FsIInv'
  <1>1. z[p].ph = "none" /\ z[p].b = "op" /\ Tail(k[p]) = <<>> /\ call[p] = "linknew"
    BY AtOp DEF LinkExists
  <1>2. icache' = iunlock(icache, cur[p]) /\ k' = [k EXCEPT ![p] = (<<put(cur[p])>> \o OnFail(p)) \o Tail(k[p])] /\ UNCHANGED <<dinode, dirent, regVars, fd>>
    BY DEF LinkExists, Then
  <1>3. PlaceOK(z[p], p) /\ z[p] \in FsGhost /\ FsTyped
    BY DEF FsIInvOf, Placed
  <1>4. cur[p] \in ISlot
    BY <1>1, <1>2, <1>3 DEF PlaceOK, FsTyped, PutB, FillB, UnlinkB, BadB, ExistB, WalkB
  <1>5. PICK g : g = [ph |-> "put", s |-> cur[p], b |-> "locklinkbad", t |-> 0]
    OBVIOUS
  <1>6. g \in FsGhost /\ g.ph = "put" /\ g.s = cur[p] /\ g.b = "locklinkbad" /\ g.t = 0
    BY <1>4, <1>5 DEF FsGhost, ISlot, PutPhase, FsPlace, WalkB, FillB, UnlinkB, BadB, PutB, ExistB
  <1>7. PICK w : w = [z EXCEPT ![p] = g]
    OBVIOUS
  <1>8. w[p] = g
    BY <1>7 DEF FsIInvOf
  <1>9. UNCHANGED <<dinode, dirent, call, path, path2, cur, ip>>
    BY <1>2 DEF regVars
  <1>10. fd' \in [FsProc -> ISlot \cup {0}] /\ fd' = fd
    BY <1>2, <1>3 DEF FsTyped
  <1>11. k' = [k EXCEPT ![p] = Prefix(g) \o Rest(g, call[p])]
    <2>1. Prefix(g) = <<put(cur[p])>> /\ Rest(g, call[p]) = <<lock_ip, <<"linkbad", 0>> >>
      BY <1>6 DEF Prefix, Rest
    <2>2. (<<put(cur[p])>> \o <<lock_ip, <<"linkbad", 0>> >>) \o <<>> = <<put(cur[p])>> \o <<lock_ip, <<"linkbad", 0>> >>
      <3>1. put(cur[p]) \in FsOp /\ lock_ip \in FsOp /\ <<"linkbad", 0>> \in FsOp
        BY <1>4 DEF FsOp, FsOpName, put, ISlot, lock_ip
      <3>2. <<put(cur[p])>> \o <<lock_ip, <<"linkbad", 0>> >> \in Seq(FsOp)
        BY <3>1
      <3> QED BY <3>2, ConcatEmptySeq
    <2>3. OnFail(p) = <<lock_ip, <<"linkbad", 0>> >>
      BY <1>1 DEF OnFail
    <2> QED BY <1>1, <1>2, <2>1, <2>2, <2>3
  <1>12. PlaceOK(w[p], p)'
    BY <1>4, <1>1, <1>3, <1>6, <1>8, <1>9, <1>10 DEF PlaceOK, WantsParent, WalkB, FillB, UnlinkB, BadB, PutB, ExistB
  <1>13. icache[cur[p]].holder = p
    <2>1. Locks(z, p, cur[p])
      BY <1>1 DEF Locks
    <2> QED BY <1>4, <2>1 DEF FsIInvOf, HoldersOK
  <1>14. \A s \in ISlot : Locks(w, p, s)' <=> Locks(z, p, s) /\ s # cur[p]
    BY <1>1, <1>6, <1>8, <1>9 DEF Locks
  <1>15. \A s \in ISlot : RefCount(w, p, s)' = RefCount(z, p, s)
    BY <1>4, <1>1, <1>6, <1>8, <1>9, <1>10
       DEF RefCount, One, HasCur, HasIp, HasPut, HasLast, ISlot, WalkB, FillB, UnlinkB, BadB, PutB, ExistB
  <1>16. \A s \in ISlot : Uses(w, p, s)' => Uses(z, p, s)
    BY <1>4, <1>1, <1>6, <1>8, <1>9, <1>10
       DEF Uses, HasCur, HasIp, HasLast, ISlot, WalkB, FillB, UnlinkB, BadB, PutB, ExistB
  <1>17. /\ Pend(w, p)' => Pend(z, p)
         /\ g.ph \in {"none", "put"} /\ g.b \notin FillB \cup UnlinkB /\ (g.b \in WalkB => z[p].b \in WalkB)
    BY <1>1, <1>6, <1>8, <1>9 DEF Pend, WalkB, FillB, UnlinkB, BadB, PutB, ExistB
  <1>18. StepPlaces(w, p)
    BY <1>8, <1>9, <1>11, <1>12 DEF StepPlaces
  <1>19. FsIInvOf(w)'
    <2>1. UNCHANGED <<dinode, dirent, regVars>> /\ z[p].ph = "none"
      BY <1>1, <1>2
    <2>2. fd' \in [FsProc -> ISlot \cup {0}] /\ \A q \in FsProc \ {p} : fd'[q] = fd[q]
      BY <1>10
    <2>3. \E x \in ISlot : /\ icache' = iunlock(icache, x) /\ icache[x].holder = p
                        /\ \A s \in ISlot : Locks(w, p, s)' <=> Locks(z, p, s) /\ s # x
      BY <1>2, <1>4, <1>13, <1>14
    <2> QED BY <1>6, <1>7, <1>15, <1>16, <1>17, <1>18, <2>1, <2>2, <2>3, QuietStep
  <1> QED BY <1>19 DEF FsIInv

\* namex() fails.
LEMMA WalkFailsKeeps ==
    ASSUME NEW z, FsIInvOf(z), NEW p \in FsProc, WalkFails(p), call[p] # "linknew"
    PROVE  FsIInv'
  <1>1. z[p].ph = "none" /\ z[p].b = "walk" /\ call[p] # "linknew"
    BY AtPlace DEF WalkFails
  <1>2. icache' = iunlock(icache, cur[p]) /\ k' = [k EXCEPT ![p] = <<put(cur[p])>> \o OnFail(p)] /\ UNCHANGED <<dinode, dirent, regVars, fd>>
    BY DEF WalkFails
  <1>3. PlaceOK(z[p], p) /\ z[p] \in FsGhost /\ FsTyped
    BY DEF FsIInvOf, Placed
  <1>4. cur[p] \in ISlot
    BY <1>1, <1>2, <1>3 DEF PlaceOK, FsTyped, PutB, FillB, UnlinkB, BadB, ExistB, WalkB
  <1>5. PICK g : g = [ph |-> "put", s |-> cur[p], b |-> "idle", t |-> 0]
    OBVIOUS
  <1>6. g \in FsGhost /\ g.ph = "put" /\ g.s = cur[p] /\ g.b = "idle" /\ g.t = 0
    BY <1>4, <1>5 DEF FsGhost, ISlot, PutPhase, FsPlace, WalkB, FillB, UnlinkB, BadB, PutB, ExistB
  <1>7. PICK w : w = [z EXCEPT ![p] = g]
    OBVIOUS
  <1>8. w[p] = g
    BY <1>7 DEF FsIInvOf
  <1>9. UNCHANGED <<dinode, dirent, call, path, path2, cur, ip>>
    BY <1>2 DEF regVars
  <1>10. fd' \in [FsProc -> ISlot \cup {0}] /\ fd' = fd
    BY <1>2, <1>3 DEF FsTyped
  <1>11. k' = [k EXCEPT ![p] = Prefix(g) \o Rest(g, call[p])]
    <2>1. Prefix(g) = <<put(cur[p])>> /\ Rest(g, call[p]) = <<>>
      BY <1>6 DEF Prefix, Rest
    <2>2. OnFail(p) = <<>>
      BY <1>1 DEF OnFail
    <2> QED BY <1>2, <2>1, <2>2
  <1>12. PlaceOK(w[p], p)'
    BY <1>4, <1>1, <1>3, <1>6, <1>8, <1>9, <1>10 DEF PlaceOK, WantsParent, WalkB, FillB, UnlinkB, BadB, PutB, ExistB
  <1>13. icache[cur[p]].holder = p
    <2>1. Locks(z, p, cur[p])
      BY <1>1 DEF Locks
    <2> QED BY <1>4, <2>1 DEF FsIInvOf, HoldersOK
  <1>14. \A s \in ISlot : Locks(w, p, s)' <=> Locks(z, p, s) /\ s # cur[p]
    BY <1>1, <1>6, <1>8, <1>9 DEF Locks
  <1>15. \A s \in ISlot : RefCount(w, p, s)' = RefCount(z, p, s)
    BY <1>4, <1>1, <1>6, <1>8, <1>9, <1>10
       DEF RefCount, One, HasCur, HasIp, HasPut, HasLast, ISlot, WalkB, FillB, UnlinkB, BadB, PutB, ExistB
  <1>16. \A s \in ISlot : Uses(w, p, s)' => Uses(z, p, s)
    BY <1>4, <1>1, <1>6, <1>8, <1>9, <1>10
       DEF Uses, HasCur, HasIp, HasLast, ISlot, WalkB, FillB, UnlinkB, BadB, PutB, ExistB
  <1>17. /\ Pend(w, p)' => Pend(z, p)
         /\ g.ph \in {"none", "put"} /\ g.b \notin FillB \cup UnlinkB /\ (g.b \in WalkB => z[p].b \in WalkB)
    BY <1>1, <1>6, <1>8, <1>9 DEF Pend, WalkB, FillB, UnlinkB, BadB, PutB, ExistB
  <1>18. StepPlaces(w, p)
    BY <1>8, <1>9, <1>11, <1>12 DEF StepPlaces
  <1>19. FsIInvOf(w)'
    <2>1. UNCHANGED <<dinode, dirent, regVars>> /\ z[p].ph = "none"
      BY <1>1, <1>2
    <2>2. fd' \in [FsProc -> ISlot \cup {0}] /\ \A q \in FsProc \ {p} : fd'[q] = fd[q]
      BY <1>10
    <2>3. \E x \in ISlot : /\ icache' = iunlock(icache, x) /\ icache[x].holder = p
                        /\ \A s \in ISlot : Locks(w, p, s)' <=> Locks(z, p, s) /\ s # x
      BY <1>2, <1>4, <1>13, <1>14
    <2> QED BY <1>6, <1>7, <1>15, <1>16, <1>17, <1>18, <2>1, <2>2, <2>3, QuietStep
  <1> QED BY <1>19 DEF FsIInv

\* namex() fails in link(), which has counted a link.
LEMMA WalkFailsLinkKeeps ==
    ASSUME NEW z, FsIInvOf(z), NEW p \in FsProc, WalkFails(p), call[p] = "linknew"
    PROVE  FsIInv'
  <1>1. z[p].ph = "none" /\ z[p].b = "walk" /\ call[p] = "linknew"
    BY AtPlace DEF WalkFails
  <1>2. icache' = iunlock(icache, cur[p]) /\ k' = [k EXCEPT ![p] = <<put(cur[p])>> \o OnFail(p)] /\ UNCHANGED <<dinode, dirent, regVars, fd>>
    BY DEF WalkFails
  <1>3. PlaceOK(z[p], p) /\ z[p] \in FsGhost /\ FsTyped
    BY DEF FsIInvOf, Placed
  <1>4. cur[p] \in ISlot
    BY <1>1, <1>2, <1>3 DEF PlaceOK, FsTyped, PutB, FillB, UnlinkB, BadB, ExistB, WalkB
  <1>5. PICK g : g = [ph |-> "put", s |-> cur[p], b |-> "locklinkbad", t |-> 0]
    OBVIOUS
  <1>6. g \in FsGhost /\ g.ph = "put" /\ g.s = cur[p] /\ g.b = "locklinkbad" /\ g.t = 0
    BY <1>4, <1>5 DEF FsGhost, ISlot, PutPhase, FsPlace, WalkB, FillB, UnlinkB, BadB, PutB, ExistB
  <1>7. PICK w : w = [z EXCEPT ![p] = g]
    OBVIOUS
  <1>8. w[p] = g
    BY <1>7 DEF FsIInvOf
  <1>9. UNCHANGED <<dinode, dirent, call, path, path2, cur, ip>>
    BY <1>2 DEF regVars
  <1>10. fd' \in [FsProc -> ISlot \cup {0}] /\ fd' = fd
    BY <1>2, <1>3 DEF FsTyped
  <1>11. k' = [k EXCEPT ![p] = Prefix(g) \o Rest(g, call[p])]
    <2>1. Prefix(g) = <<put(cur[p])>> /\ Rest(g, call[p]) = <<lock_ip, <<"linkbad", 0>> >>
      BY <1>6 DEF Prefix, Rest
    <2>2. OnFail(p) = <<lock_ip, <<"linkbad", 0>> >>
      BY <1>1 DEF OnFail
    <2> QED BY <1>2, <2>1, <2>2
  <1>12. PlaceOK(w[p], p)'
    BY <1>4, <1>1, <1>3, <1>6, <1>8, <1>9, <1>10 DEF PlaceOK, WantsParent, WalkB, FillB, UnlinkB, BadB, PutB, ExistB
  <1>13. icache[cur[p]].holder = p
    <2>1. Locks(z, p, cur[p])
      BY <1>1 DEF Locks
    <2> QED BY <1>4, <2>1 DEF FsIInvOf, HoldersOK
  <1>14. \A s \in ISlot : Locks(w, p, s)' <=> Locks(z, p, s) /\ s # cur[p]
    BY <1>1, <1>6, <1>8, <1>9 DEF Locks
  <1>15. \A s \in ISlot : RefCount(w, p, s)' = RefCount(z, p, s)
    BY <1>4, <1>1, <1>6, <1>8, <1>9, <1>10
       DEF RefCount, One, HasCur, HasIp, HasPut, HasLast, ISlot, WalkB, FillB, UnlinkB, BadB, PutB, ExistB
  <1>16. \A s \in ISlot : Uses(w, p, s)' => Uses(z, p, s)
    BY <1>4, <1>1, <1>6, <1>8, <1>9, <1>10
       DEF Uses, HasCur, HasIp, HasLast, ISlot, WalkB, FillB, UnlinkB, BadB, PutB, ExistB
  <1>17. /\ Pend(w, p)' => Pend(z, p)
         /\ g.ph \in {"none", "put"} /\ g.b \notin FillB \cup UnlinkB /\ (g.b \in WalkB => z[p].b \in WalkB)
    BY <1>1, <1>6, <1>8, <1>9 DEF Pend, WalkB, FillB, UnlinkB, BadB, PutB, ExistB
  <1>18. StepPlaces(w, p)
    BY <1>8, <1>9, <1>11, <1>12 DEF StepPlaces
  <1>19. FsIInvOf(w)'
    <2>1. UNCHANGED <<dinode, dirent, regVars>> /\ z[p].ph = "none"
      BY <1>1, <1>2
    <2>2. fd' \in [FsProc -> ISlot \cup {0}] /\ \A q \in FsProc \ {p} : fd'[q] = fd[q]
      BY <1>10
    <2>3. \E x \in ISlot : /\ icache' = iunlock(icache, x) /\ icache[x].holder = p
                        /\ \A s \in ISlot : Locks(w, p, s)' <=> Locks(z, p, s) /\ s # x
      BY <1>2, <1>4, <1>13, <1>14
    <2> QED BY <1>6, <1>7, <1>15, <1>16, <1>17, <1>18, <2>1, <2>2, <2>3, QuietStep
  <1> QED BY <1>19 DEF FsIInv

\* open() of an existing file.
LEMMA OpenKeeps ==
    ASSUME NEW z, FsIInvOf(z), NEW p \in FsProc, OpenFound(p), fd' = [fd EXCEPT ![p] = cur[p]] /\ Then(p, <<>>)
    PROVE  FsIInv'
  <1>1. z[p].ph = "none" /\ z[p].b = "op" /\ Tail(k[p]) = <<>> /\ call[p] = "open"
    BY AtOp DEF OpenFound
  <1>2. icache' = iunlock(icache, cur[p]) /\ Then(p, <<>>) /\ UNCHANGED <<dinode, dirent, regVars>> /\ fd' = [fd EXCEPT ![p] = cur[p]]
    BY DEF OpenFound
  <1>3. PlaceOK(z[p], p) /\ z[p] \in FsGhost /\ FsTyped
    BY DEF FsIInvOf, Placed
  <1>4. cur[p] \in ISlot
    BY <1>1, <1>2, <1>3 DEF PlaceOK, FsTyped, PutB, FillB, UnlinkB, BadB, ExistB, WalkB
  <1>5. PICK g : g = [ph |-> "none", s |-> 0, b |-> "idle", t |-> 0]
    OBVIOUS
  <1>6. g \in FsGhost /\ g.ph = "none" /\ g.s = 0 /\ g.b = "idle" /\ g.t = 0
    BY <1>4, <1>5 DEF FsGhost, ISlot, PutPhase, FsPlace, WalkB, FillB, UnlinkB, BadB, PutB, ExistB
  <1>7. PICK w : w = [z EXCEPT ![p] = g]
    OBVIOUS
  <1>8. w[p] = g
    BY <1>7 DEF FsIInvOf
  <1>9. UNCHANGED <<dinode, dirent, call, path, path2, cur, ip>>
    BY <1>2 DEF regVars
  <1>10. fd' \in [FsProc -> ISlot \cup {0}] /\ fd'[p] = cur[p] /\ \A q \in FsProc \ {p} : fd'[q] = fd[q]
    BY <1>2, <1>3, <1>4 DEF FsTyped
  <1>11. k' = [k EXCEPT ![p] = Prefix(g) \o Rest(g, call[p])]
    <2>1. Prefix(g) = <<>> /\ Rest(g, call[p]) = <<>>
      BY <1>6 DEF Prefix, Rest
    <2> QED BY <1>1, <1>2, <2>1 DEF Then
  <1>12. PlaceOK(w[p], p)'
    BY <1>4, <1>1, <1>3, <1>6, <1>8, <1>9, <1>10 DEF PlaceOK, WantsParent, WalkB, FillB, UnlinkB, BadB, PutB, ExistB
  <1>13. icache[cur[p]].holder = p
    <2>1. Locks(z, p, cur[p])
      BY <1>1 DEF Locks
    <2> QED BY <1>4, <2>1 DEF FsIInvOf, HoldersOK
  <1>14. \A s \in ISlot : Locks(w, p, s)' <=> Locks(z, p, s) /\ s # cur[p]
    BY <1>1, <1>6, <1>8, <1>9 DEF Locks
  <1>0. fd[p] = 0
    BY <1>1, <1>3 DEF PlaceOK
  <1>15. \A s \in ISlot : RefCount(w, p, s)' = RefCount(z, p, s)
    BY <1>0, <1>4, <1>1, <1>6, <1>8, <1>9, <1>10
       DEF RefCount, One, HasCur, HasIp, HasPut, HasLast, ISlot, WalkB, FillB, UnlinkB, BadB, PutB, ExistB
  <1>16. \A s \in ISlot : Uses(w, p, s)' => Uses(z, p, s)
    BY <1>0, <1>4, <1>1, <1>6, <1>8, <1>9, <1>10
       DEF Uses, HasCur, HasIp, HasLast, ISlot, WalkB, FillB, UnlinkB, BadB, PutB, ExistB
  <1>17. /\ Pend(w, p)' => Pend(z, p)
         /\ g.ph \in {"none", "put"} /\ g.b \notin FillB \cup UnlinkB /\ (g.b \in WalkB => z[p].b \in WalkB)
    BY <1>1, <1>6, <1>8, <1>9 DEF Pend, WalkB, FillB, UnlinkB, BadB, PutB, ExistB
  <1>18. StepPlaces(w, p)
    BY <1>8, <1>9, <1>11, <1>12 DEF StepPlaces
  <1>19. FsIInvOf(w)'
    <2>1. UNCHANGED <<dinode, dirent, regVars>> /\ z[p].ph = "none"
      BY <1>1, <1>2
    <2>2. fd' \in [FsProc -> ISlot \cup {0}] /\ \A q \in FsProc \ {p} : fd'[q] = fd[q]
      BY <1>10
    <2>3. \E x \in ISlot : /\ icache' = iunlock(icache, x) /\ icache[x].holder = p
                        /\ \A s \in ISlot : Locks(w, p, s)' <=> Locks(z, p, s) /\ s # x
      BY <1>2, <1>4, <1>13, <1>14
    <2> QED BY <1>6, <1>7, <1>15, <1>16, <1>17, <1>18, <2>1, <2>2, <2>3, QuietStep
  <1> QED BY <1>19 DEF FsIInv

\* open() of a file it created.
LEMMA OpenedKeeps ==
    ASSUME NEW z, FsIInvOf(z), NEW p \in FsProc, Opened(p), call[p] = "create" /\ fd' = [fd EXCEPT ![p] = ip[p]] /\ Then(p, <<>>)
    PROVE  FsIInv'
  <1>1. z[p].ph = "none" /\ z[p].b = "opened" /\ Tail(k[p]) = <<>> /\ call[p] = "create"
    BY AtPlace DEF Opened
  <1>2. icache' = iunlock(icache, ip[p]) /\ Then(p, <<>>) /\ UNCHANGED <<dinode, dirent, regVars>> /\ fd' = [fd EXCEPT ![p] = ip[p]]
    BY DEF Opened
  <1>3. PlaceOK(z[p], p) /\ z[p] \in FsGhost /\ FsTyped
    BY DEF FsIInvOf, Placed
  <1>4. ip[p] \in ISlot
    BY <1>1, <1>2, <1>3 DEF PlaceOK, FsTyped, PutB, FillB, UnlinkB, BadB, ExistB, WalkB
  <1>5. PICK g : g = [ph |-> "none", s |-> 0, b |-> "idle", t |-> 0]
    OBVIOUS
  <1>6. g \in FsGhost /\ g.ph = "none" /\ g.s = 0 /\ g.b = "idle" /\ g.t = 0
    BY <1>4, <1>5 DEF FsGhost, ISlot, PutPhase, FsPlace, WalkB, FillB, UnlinkB, BadB, PutB, ExistB
  <1>7. PICK w : w = [z EXCEPT ![p] = g]
    OBVIOUS
  <1>8. w[p] = g
    BY <1>7 DEF FsIInvOf
  <1>9. UNCHANGED <<dinode, dirent, call, path, path2, cur, ip>>
    BY <1>2 DEF regVars
  <1>10. fd' \in [FsProc -> ISlot \cup {0}] /\ fd'[p] = ip[p] /\ \A q \in FsProc \ {p} : fd'[q] = fd[q]
    BY <1>2, <1>3, <1>4 DEF FsTyped
  <1>11. k' = [k EXCEPT ![p] = Prefix(g) \o Rest(g, call[p])]
    <2>1. Prefix(g) = <<>> /\ Rest(g, call[p]) = <<>>
      BY <1>6 DEF Prefix, Rest
    <2> QED BY <1>1, <1>2, <2>1 DEF Then
  <1>12. PlaceOK(w[p], p)'
    BY <1>4, <1>1, <1>3, <1>6, <1>8, <1>9, <1>10 DEF PlaceOK, WantsParent, WalkB, FillB, UnlinkB, BadB, PutB, ExistB
  <1>13. icache[ip[p]].holder = p
    <2>1. Locks(z, p, ip[p])
      BY <1>1 DEF Locks
    <2> QED BY <1>4, <2>1 DEF FsIInvOf, HoldersOK
  <1>14. \A s \in ISlot : Locks(w, p, s)' <=> Locks(z, p, s) /\ s # ip[p]
    BY <1>1, <1>6, <1>8, <1>9 DEF Locks
  <1>0. fd[p] = 0
    BY <1>1, <1>3 DEF PlaceOK
  <1>15. \A s \in ISlot : RefCount(w, p, s)' = RefCount(z, p, s)
    BY <1>0, <1>4, <1>1, <1>6, <1>8, <1>9, <1>10
       DEF RefCount, One, HasCur, HasIp, HasPut, HasLast, ISlot, WalkB, FillB, UnlinkB, BadB, PutB, ExistB
  <1>16. \A s \in ISlot : Uses(w, p, s)' => Uses(z, p, s)
    BY <1>0, <1>4, <1>1, <1>6, <1>8, <1>9, <1>10
       DEF Uses, HasCur, HasIp, HasLast, ISlot, WalkB, FillB, UnlinkB, BadB, PutB, ExistB
  <1>17. /\ Pend(w, p)' => Pend(z, p)
         /\ g.ph \in {"none", "put"} /\ g.b \notin FillB \cup UnlinkB /\ (g.b \in WalkB => z[p].b \in WalkB)
    BY <1>1, <1>6, <1>8, <1>9 DEF Pend, WalkB, FillB, UnlinkB, BadB, PutB, ExistB
  <1>18. StepPlaces(w, p)
    BY <1>8, <1>9, <1>11, <1>12 DEF StepPlaces
  <1>19. FsIInvOf(w)'
    <2>1. UNCHANGED <<dinode, dirent, regVars>> /\ z[p].ph = "none"
      BY <1>1, <1>2
    <2>2. fd' \in [FsProc -> ISlot \cup {0}] /\ \A q \in FsProc \ {p} : fd'[q] = fd[q]
      BY <1>10
    <2>3. \E x \in ISlot : /\ icache' = iunlock(icache, x) /\ icache[x].holder = p
                        /\ \A s \in ISlot : Locks(w, p, s)' <=> Locks(z, p, s) /\ s # x
      BY <1>2, <1>4, <1>13, <1>14
    <2> QED BY <1>6, <1>7, <1>15, <1>16, <1>17, <1>18, <2>1, <2>2, <2>3, QuietStep
  <1> QED BY <1>19 DEF FsIInv

\* create() of an existing file is an open().
LEMMA ExistsOpensKeeps ==
    ASSUME NEW z, FsIInvOf(z), NEW p \in FsProc, CreateExists(p), Then(p, << <<"opened", 0>> >>) /\ UNCHANGED icache
    PROVE  FsIInv'
  <1>1. z[p].ph = "none" /\ z[p].b = "exists" /\ Tail(k[p]) = <<>>
    BY AtPlace DEF CreateExists
  <1>2. icache' = icache /\ Then(p, << <<"opened", 0>> >>) /\ UNCHANGED <<dinode, dirent, regVars, fd>>
    BY DEF CreateExists
  <1>3. PlaceOK(z[p], p) /\ z[p] \in FsGhost /\ FsTyped
    BY DEF FsIInvOf, Placed
  <1>5. PICK g : g = [ph |-> "none", s |-> 0, b |-> "opened", t |-> 0]
    OBVIOUS
  <1>6. g \in FsGhost /\ g.ph = "none" /\ g.s = 0 /\ g.b = "opened" /\ g.t = 0
    BY <1>5 DEF FsGhost, ISlot, PutPhase, FsPlace, WalkB, FillB, UnlinkB, BadB, PutB, ExistB
  <1>7. PICK w : w = [z EXCEPT ![p] = g]
    OBVIOUS
  <1>8. w[p] = g
    BY <1>7 DEF FsIInvOf
  <1>9. UNCHANGED <<dinode, dirent, call, path, path2, cur, ip>>
    BY <1>2 DEF regVars
  <1>10. fd' \in [FsProc -> ISlot \cup {0}] /\ fd' = fd
    BY <1>2, <1>3 DEF FsTyped
  <1>11. k' = [k EXCEPT ![p] = Prefix(g) \o Rest(g, call[p])]
    <2>1. Prefix(g) = <<>> /\ Rest(g, call[p]) = << <<"opened", 0>> >>
      BY <1>6 DEF Prefix, Rest
    <2>2. << <<"opened", 0>> >> \o <<>> = <<>> \o << <<"opened", 0>> >>
      <3>1. <<"opened", 0>> \in FsOp
        BY DEF FsOp, FsOpName
      <3>2. << <<"opened", 0>> >> = << <<"opened", 0>> >> \o <<>> /\ << <<"opened", 0>> >> = <<>> \o << <<"opened", 0>> >>
        BY <3>1, OpLists
      <3> QED BY <3>2
    <2> QED BY <1>1, <1>2, <2>1, <2>2 DEF Then
  <1>12. PlaceOK(w[p], p)'
    BY <1>1, <1>3, <1>6, <1>8, <1>9, <1>10 DEF PlaceOK, WantsParent, WalkB, FillB, UnlinkB, BadB, PutB, ExistB
  <1>14. \A s \in ISlot : Locks(w, p, s)' <=> Locks(z, p, s)
    BY <1>1, <1>6, <1>8, <1>9 DEF Locks
  <1>15. \A s \in ISlot : RefCount(w, p, s)' = RefCount(z, p, s)
    BY <1>1, <1>6, <1>8, <1>9, <1>10
       DEF RefCount, One, HasCur, HasIp, HasPut, HasLast, ISlot, WalkB, FillB, UnlinkB, BadB, PutB, ExistB
  <1>16. \A s \in ISlot : Uses(w, p, s)' => Uses(z, p, s)
    BY <1>1, <1>6, <1>8, <1>9, <1>10
       DEF Uses, HasCur, HasIp, HasLast, ISlot, WalkB, FillB, UnlinkB, BadB, PutB, ExistB
  <1>17. /\ Pend(w, p)' => Pend(z, p)
         /\ g.ph \in {"none", "put"} /\ g.b \notin FillB \cup UnlinkB /\ (g.b \in WalkB => z[p].b \in WalkB)
    BY <1>1, <1>6, <1>8, <1>9 DEF Pend, WalkB, FillB, UnlinkB, BadB, PutB, ExistB
  <1>18. StepPlaces(w, p)
    BY <1>8, <1>9, <1>11, <1>12 DEF StepPlaces
  <1>19. FsIInvOf(w)'
    <2>1. UNCHANGED <<dinode, dirent, regVars>> /\ z[p].ph = "none"
      BY <1>1, <1>2
    <2>2. fd' \in [FsProc -> ISlot \cup {0}] /\ \A q \in FsProc \ {p} : fd'[q] = fd[q]
      BY <1>10
    <2>3. icache' = icache /\ \A s \in ISlot : Locks(w, p, s)' <=> Locks(z, p, s)
      BY <1>2, <1>14
    <2> QED BY <1>6, <1>7, <1>15, <1>16, <1>17, <1>18, <2>1, <2>2, <2>3, QuietStep
  <1> QED BY <1>19 DEF FsIInv

\* close().
LEMMA SysCloseKeeps ==
    ASSUME NEW z, FsIInvOf(z), NEW p \in FsProc, SysClose(p)
    PROVE  FsIInv'
  <1>1. z[p].ph = "none" /\ z[p].b = "idle"
    BY NextOp DEF SysClose
  <1>2. icache' = icache /\ k' = [k EXCEPT ![p] = <<put(fd[p])>>] /\ UNCHANGED <<dinode, dirent, regVars>> /\ fd' = [fd EXCEPT ![p] = 0] /\ fd[p] # 0
    BY DEF SysClose
  <1>3. PlaceOK(z[p], p) /\ z[p] \in FsGhost /\ FsTyped
    BY DEF FsIInvOf, Placed
  <1>4. fd[p] \in ISlot
    BY <1>1, <1>2, <1>3 DEF PlaceOK, FsTyped, PutB, FillB, UnlinkB, BadB, ExistB, WalkB
  <1>5. PICK g : g = [ph |-> "put", s |-> fd[p], b |-> "idle", t |-> 0]
    OBVIOUS
  <1>6. g \in FsGhost /\ g.ph = "put" /\ g.s = fd[p] /\ g.b = "idle" /\ g.t = 0
    BY <1>4, <1>5 DEF FsGhost, ISlot, PutPhase, FsPlace, WalkB, FillB, UnlinkB, BadB, PutB, ExistB
  <1>7. PICK w : w = [z EXCEPT ![p] = g]
    OBVIOUS
  <1>8. w[p] = g
    BY <1>7 DEF FsIInvOf
  <1>9. UNCHANGED <<dinode, dirent, call, path, path2, cur, ip>>
    BY <1>2 DEF regVars
  <1>10. fd' \in [FsProc -> ISlot \cup {0}] /\ fd'[p] = 0 /\ \A q \in FsProc \ {p} : fd'[q] = fd[q]
    BY <1>2, <1>3, <1>4 DEF FsTyped
  <1>11. k' = [k EXCEPT ![p] = Prefix(g) \o Rest(g, call[p])]
    <2>1. Prefix(g) = <<put(fd[p])>> /\ Rest(g, call[p]) = <<>>
      BY <1>6 DEF Prefix, Rest
    <2>2. <<put(fd[p])>> = <<put(fd[p])>> \o <<>>
      <3>1. put(fd[p]) \in FsOp
        BY <1>4 DEF FsOp, FsOpName, put, ISlot
      <3> QED BY <3>1, OpLists
    <2> QED BY <1>2, <2>1, <2>2
  <1>12. PlaceOK(w[p], p)'
    BY <1>4, <1>1, <1>3, <1>6, <1>8, <1>9, <1>10 DEF PlaceOK, WantsParent, WalkB, FillB, UnlinkB, BadB, PutB, ExistB
  <1>14. \A s \in ISlot : Locks(w, p, s)' <=> Locks(z, p, s)
    BY <1>1, <1>6, <1>8, <1>9 DEF Locks
  <1>15. \A s \in ISlot : RefCount(w, p, s)' = RefCount(z, p, s)
    BY <1>2, <1>4, <1>1, <1>6, <1>8, <1>9, <1>10
       DEF RefCount, One, HasCur, HasIp, HasPut, HasLast, ISlot, WalkB, FillB, UnlinkB, BadB, PutB, ExistB
  <1>16. \A s \in ISlot : Uses(w, p, s)' => Uses(z, p, s)
    BY <1>2, <1>4, <1>1, <1>6, <1>8, <1>9, <1>10
       DEF Uses, HasCur, HasIp, HasLast, ISlot, WalkB, FillB, UnlinkB, BadB, PutB, ExistB
  <1>17. /\ Pend(w, p)' => Pend(z, p)
         /\ g.ph \in {"none", "put"} /\ g.b \notin FillB \cup UnlinkB /\ (g.b \in WalkB => z[p].b \in WalkB)
    BY <1>1, <1>6, <1>8, <1>9 DEF Pend, WalkB, FillB, UnlinkB, BadB, PutB, ExistB
  <1>18. StepPlaces(w, p)
    BY <1>8, <1>9, <1>11, <1>12 DEF StepPlaces
  <1>19. FsIInvOf(w)'
    <2>1. UNCHANGED <<dinode, dirent, regVars>> /\ z[p].ph = "none"
      BY <1>1, <1>2
    <2>2. fd' \in [FsProc -> ISlot \cup {0}] /\ \A q \in FsProc \ {p} : fd'[q] = fd[q]
      BY <1>10
    <2>3. icache' = icache /\ \A s \in ISlot : Locks(w, p, s)' <=> Locks(z, p, s)
      BY <1>2, <1>14
    <2> QED BY <1>6, <1>7, <1>15, <1>16, <1>17, <1>18, <2>1, <2>2, <2>3, QuietStep
  <1> QED BY <1>19 DEF FsIInv

-----------------------------------------------------------------------------
(* iget().                                                                 *)

\* What iget(i) makes of a cache c that differs from icache in its locks only.
IgetTakes(c, d, i, s) ==
    /\ s \in ISlot
    /\ d \in IcacheType
    /\ \A t \in ISlot : t # s => d[t] = c[t]
    /\ d[s].inum = i /\ d[s].ref = c[s].ref + 1
    /\ d[s].holder = c[s].holder /\ d[s].type = c[s].type /\ d[s].nlink = c[s].nlink
    /\ \/ c[s].ref > 0 /\ c[s].inum = i /\ d[s].valid = c[s].valid
       \/ c[s].ref = 0 /\ d[s].valid = FALSE /\ \A t \in ISlot : ~(c[t].ref > 0 /\ c[t].inum = i)

\* iget() takes one more reference, to the entry it finds or to an unused one.
LEMMA IgetEffect ==
    ASSUME icache \in IcacheType, NEW i \in Inum, CanIget(i), NEW c \in IcacheType,
           \A s \in ISlot : c[s].ref = icache[s].ref /\ c[s].inum = icache[s].inum
    PROVE  IgetTakes(c, iget(c, i), i, IgetSlot(i))
  <1>1. CASE Cached(i) # {}
    <2>1. PICK s : s = CHOOSE t \in Cached(i) : TRUE
      OBVIOUS
    <2>2. s \in Cached(i)
      BY <1>1, <2>1
    <2>3. IgetSlot(i) = s
      BY <1>1, <2>1 DEF IgetSlot
    <2>4. s \in ISlot /\ icache[s].ref > 0 /\ icache[s].inum = i
      BY <2>2 DEF Cached
    <2>5. iget(c, i) = [c EXCEPT ![s].ref = @ + 1]
      BY <1>1, <2>3 DEF iget
    <2>6. /\ [c EXCEPT ![s].ref = @ + 1] \in IcacheType
          /\ \A t \in ISlot : t # s => [c EXCEPT ![s].ref = @ + 1][t] = c[t]
          /\ [c EXCEPT ![s].ref = @ + 1][s].ref = c[s].ref + 1
          /\ [c EXCEPT ![s].ref = @ + 1][s].inum = c[s].inum
          /\ [c EXCEPT ![s].ref = @ + 1][s].holder = c[s].holder
          /\ [c EXCEPT ![s].ref = @ + 1][s].type = c[s].type
          /\ [c EXCEPT ![s].ref = @ + 1][s].nlink = c[s].nlink
          /\ [c EXCEPT ![s].ref = @ + 1][s].valid = c[s].valid
      BY <2>4 DEF IcacheType
    <2> QED BY <2>3, <2>4, <2>5, <2>6 DEF IgetTakes
  <1>2. CASE Cached(i) = {}
    <2>1. Empty # {} /\ Empty \in SUBSET Nat
      BY <1>2 DEF CanIget, Empty, ISlot
    <2>2. PICK s : s = CHOOSE t \in Empty : \A u \in Empty : t <= u
      OBVIOUS
    <2>3. s \in Empty
      BY <2>1, <2>2, Least
    <2>4. IgetSlot(i) = s
      BY <1>2, <2>2 DEF IgetSlot
    <2>5. s \in ISlot /\ icache[s].ref = 0
      BY <2>3 DEF Empty
    <2>6. iget(c, i) = [c EXCEPT ![s].inum = i, ![s].ref = 1, ![s].valid = FALSE]
      BY <1>2, <2>4 DEF iget
    <2>7. PICK d : d = [c EXCEPT ![s].inum = i, ![s].ref = 1, ![s].valid = FALSE]
      OBVIOUS
    <2>8. /\ d \in IcacheType
          /\ \A t \in ISlot : t # s => d[t] = c[t]
          /\ d[s].ref = 1 /\ d[s].inum = i /\ d[s].valid = FALSE
          /\ d[s].holder = c[s].holder /\ d[s].type = c[s].type /\ d[s].nlink = c[s].nlink
      BY <2>5, <2>7 DEF IcacheType
    <2>9. \A t \in ISlot : ~(c[t].ref > 0 /\ c[t].inum = i)
      BY <1>2 DEF Cached
    <2>10. c[s].ref = 0
      BY <2>5
    <2>11. IgetTakes(c, d, i, s)
      BY <2>5, <2>8, <2>9, <2>10 DEF IgetTakes
    <2> QED BY <2>4, <2>6, <2>7, <2>11
  <1> QED BY <1>1, <1>2

\* An entry without references is not locked.
LEMMA EmptyUnlocked ==
    ASSUME NEW z, FsIInvOf(z), NEW s \in ISlot, icache[s].ref = 0
    PROVE  icache[s].holder = NoFsProc
  <1>1. icache[s].holder \in FsProc \cup {NoFsProc}
    BY DEF FsIInvOf, FsTyped, IcacheType
  <1>2. ASSUME icache[s].holder \in FsProc PROVE FALSE
    <2>1. PICK q \in FsProc : icache[s].holder = q
      BY <1>2
    <2>2. Locks(z, q, s)
      BY <2>1 DEF FsIInvOf, HoldersOK
    <2>3. RefCount(z, q, s) >= 1
      BY <2>2, UsesCounted
    <2>4. RefCount(z, q, s) = 0
      BY RefCounted
    <2> QED BY <2>3, <2>4
  <1> QED BY <1>1, <1>2

\* A step that takes a reference to inode i, which has a link, and may unlock
\* what p has locked.
LEMMA IgetStep ==
    ASSUME NEW z, FsIInvOf(z), NEW w, NEW p \in FsProc, Moves(z, w, p), FsTyped', StepPlaces(w, p),
           NEW i \in Inum, dinode[i].type # "none", dinode[i].nlink # 0, NEW s0,
           UNCHANGED <<dinode, dirent>>, NEW c, IgetTakes(c, icache', i, s0),
           \/ c = icache /\ \A s \in ISlot : Locks(w, p, s)' <=> Locks(z, p, s)
           \/ \E x \in ISlot : /\ c = iunlock(icache, x) /\ icache[x].holder = p
                               /\ \A s \in ISlot : Locks(w, p, s)' <=> Locks(z, p, s) /\ s # x,
           \A s \in ISlot : RefCount(w, p, s)' = RefCount(z, p, s) + One(s = s0),
           \A s \in ISlot : Uses(w, p, s)' => Uses(z, p, s) \/ s = s0,
           z[p].ph = "none", w[p].ph \in {"none", "put"}, Pend(w, p)' => Pend(z, p) /\ ip'[p] = ip[p],
           HasCur(w, p)' => (HasCur(z, p) /\ cur'[p] = cur[p]) \/ cur'[p] = s0,
           w[p].b \notin FillB, TargetFor(w, p)'
    PROVE  FsIInvOf(w)'
  <1>0. icache \in IcacheType
    BY DEF FsIInvOf, FsTyped
  <1>1. /\ \A s \in ISlot : /\ c[s].ref = icache[s].ref /\ c[s].inum = icache[s].inum
                            /\ c[s].valid = icache[s].valid /\ c[s].type = icache[s].type
                            /\ c[s].nlink = icache[s].nlink
    BY <1>0, IunlockFields
  <1>2. /\ s0 \in ISlot
        /\ \A t \in ISlot : t # s0 => icache'[t] = c[t]
        /\ icache'[s0].inum = i /\ icache'[s0].ref = icache[s0].ref + 1
        /\ icache'[s0].holder = c[s0].holder
        /\ icache'[s0].type = icache[s0].type /\ icache'[s0].nlink = icache[s0].nlink
    BY <1>1 DEF IgetTakes
  <1>3. \/ icache[s0].ref > 0 /\ icache[s0].inum = i /\ icache'[s0].valid = icache[s0].valid
        \/ icache[s0].ref = 0 /\ icache'[s0].valid = FALSE
           /\ \A t \in ISlot : ~(icache[t].ref > 0 /\ icache[t].inum = i)
    BY <1>1, <1>2 DEF IgetTakes
  <1>4. \A s \in ISlot : s # s0 =>
            /\ icache'[s].ref = icache[s].ref /\ icache'[s].inum = icache[s].inum
            /\ icache'[s].valid = icache[s].valid /\ icache'[s].type = icache[s].type
            /\ icache'[s].nlink = icache[s].nlink /\ icache'[s].holder = c[s].holder
    BY <1>1, <1>2
  <1>5. StepHolders(z, w, p)
    <2> SUFFICES ASSUME NEW s \in ISlot
                 PROVE  /\ \/ icache'[s].holder = icache[s].holder /\ (Locks(w, p, s)' <=> Locks(z, p, s))
                           \/ icache'[s].holder = NoFsProc /\ icache[s].holder = p /\ ~Locks(w, p, s)'
                           \/ icache'[s].holder = p /\ icache[s].holder = NoFsProc /\ Locks(w, p, s)'
                        /\ icache'[s].holder # NoFsProc => icache'[s].valid
      BY DEF StepHolders
    <2>0. icache'[s].holder = c[s].holder
      BY <1>2, <1>4
    <2>1. icache[s].holder # NoFsProc => icache[s].valid
      BY DEF FsIInvOf, HoldersOK
    <2>2. \/ c[s].holder = icache[s].holder /\ (Locks(w, p, s)' <=> Locks(z, p, s))
          \/ c[s].holder = NoFsProc /\ icache[s].holder = p /\ ~Locks(w, p, s)'
      <3>1. CASE c = icache /\ \A t \in ISlot : Locks(w, p, t)' <=> Locks(z, p, t)
        BY <3>1
      <3>2. CASE \E x \in ISlot : /\ c = iunlock(icache, x) /\ icache[x].holder = p
                               /\ \A t \in ISlot : Locks(w, p, t)' <=> Locks(z, p, t) /\ t # x
        <4>1. PICK x \in ISlot : /\ c = iunlock(icache, x) /\ icache[x].holder = p
                               /\ \A t \in ISlot : Locks(w, p, t)' <=> Locks(z, p, t) /\ t # x
          BY <3>2
        <4>2. c[s].holder = IF s = x THEN NoFsProc ELSE icache[s].holder
          BY <1>0, <4>1, IunlockFields
        <4> QED BY <4>1, <4>2
      <3> QED BY <3>1, <3>2
    <2>3. c[s].holder # NoFsProc => icache[s].holder # NoFsProc
      BY <2>2
    <2>4. icache'[s].holder # NoFsProc => icache'[s].valid
      <3>1. CASE s # s0
        BY <1>4, <2>0, <2>1, <2>3, <3>1
      <3>2. CASE s = s0
        BY <1>3, <2>0, <2>1, <2>3, <3>2, EmptyUnlocked
      <3> QED BY <3>1, <3>2
    <2> QED BY <2>0, <2>2, <2>4
  <1>6. StepRefs(z, w, p)
    <2> SUFFICES ASSUME NEW s \in ISlot
                 PROVE  icache'[s].ref = icache[s].ref + RefCount(w, p, s)' - RefCount(z, p, s)
      BY DEF StepRefs
    <2>1. RefCount(z, p, s) \in 0..5 /\ icache[s].ref \in Nat
      BY RefCountNat, RefCounted
    <2>2. icache'[s].ref = icache[s].ref + One(s = s0)
      BY <1>2, <1>4, <2>1 DEF One
    <2>3. RefCount(w, p, s)' = RefCount(z, p, s) + One(s = s0) /\ One(s = s0) \in Nat
      BY DEF One
    <2> QED BY <2>1, <2>2, <2>3
  <1>7. StepSlots
    <2> SUFFICES ASSUME NEW s \in ISlot
                 PROVE  /\ icache[s].ref > 0 => icache'[s].inum = icache[s].inum
                        /\ icache'[s].ref > 0 =>
                              \/ icache[s].ref > 0
                              \/ /\ icache'[s].inum \in Inum
                                 /\ \A t \in ISlot : icache'[t].ref > 0 /\ icache'[t].inum = icache'[s].inum => t = s
      BY DEF StepSlots
    <2>1. CASE s # s0
      BY <1>4, <2>1
    <2>2. CASE s = s0
      BY <1>2, <1>3, <1>4, <2>2
    <2> QED BY <2>1, <2>2
  <1>8. Coherent(w)'
    <2> SUFFICES ASSUME NEW s \in ISlot, icache'[s].ref > 0, icache'[s].valid,
                        \A q \in FsProc : ~(w[q].ph = "freed" /\ w[q].s = s)
                 PROVE  /\ dinode'[icache'[s].inum] = [type |-> icache'[s].type, nlink |-> icache'[s].nlink]
                        /\ icache'[s].type # "none"
      BY DEF Coherent
    <2>1. \A q \in FsProc : ~(z[q].ph = "freed" /\ z[q].s = s)
      BY DEF Moves
    <2>2. /\ icache[s].ref > 0 /\ icache[s].valid /\ icache'[s].inum = icache[s].inum
          /\ icache'[s].type = icache[s].type /\ icache'[s].nlink = icache[s].nlink
      BY <1>2, <1>3, <1>4
    <2> QED BY <2>1, <2>2 DEF FsIInvOf, Coherent
  <1>9. StepUses(z, w, p)
    <2>1. ASSUME NEW s \in ISlot, Uses(w, p, s)' PROVE dinode'[icache'[s].inum].type # "none"
      <3>1. CASE s = s0
        BY <1>2, <3>1
      <3>2. CASE s # s0
        <4>1. Uses(z, p, s)
          BY <2>1, <3>2
        <4> QED BY <1>4, <3>2, <4>1 DEF FsIInvOf, UsedAllocated
      <3> QED BY <3>1, <3>2
    <2> QED BY <2>1 DEF StepUses
  <1>10. StepFreeing(z, w, p)
    <2>1. ASSUME NEW q \in FsProc \ {p}, z[q].ph = "free"
          PROVE  icache'[z[q].s].ref = 1 /\ dinode'[icache[z[q].s].inum].nlink = 0
      <3>1. /\ z[q].s \in ISlot /\ icache[z[q].s].ref = 1 /\ dinode[icache[z[q].s].inum].nlink = 0
        BY <2>1, OthersFree
      <3>2. z[q].s # s0
        BY <1>3, <3>1
      <3> QED BY <1>4, <3>1, <3>2
    <2> QED BY <2>1 DEF StepFreeing
  <1>11. LinksCover(w)' /\ FreeUnlinked'
    BY <1>7, LinksSame
  <1>12. StepFresh(z, w, p)
    <2>1. ASSUME NEW q \in FsProc \ {p}, z[q].b \in FillB
          PROVE  /\ dinode'[icache[ip[q]].inum].nlink = 0
                 /\ HasCur(w, p)' => cur'[p] # ip[q]
      <3>1. FreshFor(z, q)
        BY <2>1, FreshTargets DEF FsIInvOf
      <3>2. ip[q] \in ISlot /\ Uses(z, q, ip[q])
        BY <2>1 DEF FsIInvOf, Placed, PlaceOK, Uses, HasIp
      <3>3. icache[ip[q]].ref >= 1 /\ icache[ip[q]].ref \in Nat
        BY <3>2, UsesCounted, RefCounted
      <3>4. ip[q] # s0
        BY <1>3, <3>1, <3>3 DEF FreshFor
      <3> QED BY <3>1, <3>4 DEF FreshFor
    <2> QED BY <2>1 DEF StepFresh
  <1>13. StepTargets(z, w, p)
    BY TargetsSame
  <1> QED BY <1>5, <1>6, <1>7, <1>8, <1>9, <1>10, <1>11, <1>12, <1>13, KeepsInv

\* An inode that a directory names has a link, and so has the root.
LEMMA NamedLinked ==
    ASSUME NEW z, FsIInvOf(z)
    PROVE  /\ \A d \in Inum, n \in FsName : dirent[d][n] # NoInum =>
                 /\ dirent[d][n] \in Inum
                 /\ dinode[dirent[d][n]].nlink # 0 /\ dinode[dirent[d][n]].nlink >= 1
                 /\ dinode[dirent[d][n]].type # "none"
           /\ ROOTINO \in Inum /\ dinode[ROOTINO].nlink # 0 /\ dinode[ROOTINO].type # "none"
  <1>1. ASSUME NEW i \in Inum
        PROVE  /\ IsFiniteSet(Parents(i)) /\ Cardinality(Parents(i)) \in Nat
               /\ dinode[i].nlink \in Nat /\ dinode[i].nlink >= One(i = ROOTINO) + Cardinality(Parents(i))
    <2>1. /\ IsFiniteSet(Parents(i)) /\ IsFiniteSet(Subdirs(i)) /\ IsFiniteSet(Pending(z, i))
          /\ dinode[i].nlink >= One(i = ROOTINO) + Cardinality(Parents(i)) + Cardinality(Subdirs(i))
                                   + Cardinality(Pending(z, i))
      BY DEF FsIInvOf, LinksCover
    <2>2. /\ Cardinality(Parents(i)) \in Nat /\ Cardinality(Subdirs(i)) \in Nat
          /\ Cardinality(Pending(z, i)) \in Nat
      BY <2>1, FS_CardinalityType
    <2>3. dinode[i].nlink \in Nat /\ One(i = ROOTINO) \in Nat
      BY DEF FsIInvOf, FsTyped, One
    <2> QED BY <2>1, <2>2, <2>3
  <1>2. ASSUME NEW d \in Inum, NEW n \in FsName, dirent[d][n] # NoInum
        PROVE  /\ dirent[d][n] \in Inum
               /\ dinode[dirent[d][n]].nlink # 0 /\ dinode[dirent[d][n]].nlink >= 1
               /\ dinode[dirent[d][n]].type # "none"
    <2>1. dirent[d][n] \in Inum
      BY <1>2 DEF FsIInvOf, FsTyped
    <2>2. <<d, n>> \in Parents(dirent[d][n])
      BY DEF Parents
    <2>3. Cardinality(Parents(dirent[d][n])) # 0
      BY <1>1, <2>1, <2>2, FS_EmptySet
    <2>4. dinode[dirent[d][n]].nlink >= 1
      BY <1>1, <2>1, <2>3 DEF One
    <2> QED BY <2>1, <2>4 DEF FsIInvOf, FreeUnlinked
  <1>3. ROOTINO \in Inum
    BY InodeAssumption DEF ROOTINO, Inum
  <1>4. dinode[ROOTINO].nlink # 0
    BY <1>1, <1>3 DEF One
  <1> QED BY <1>2, <1>3, <1>4 DEF FsIInvOf, FreeUnlinked

\* The inode that the next name of the path leads to.
LEMMA EntryInode ==
    ASSUME NEW z, FsIInvOf(z), NEW p \in FsProc, HasCur(z, p), path[p] # <<>>
    PROVE  /\ cur[p] \in ISlot /\ icache[cur[p]].inum \in Inum /\ Head(path[p]) \in FsName
           /\ EntryOf(p) \in Inum \cup {NoInum}
           /\ EntryOf(p) # NoInum => /\ EntryOf(p) \in Inum /\ dinode[EntryOf(p)].nlink # 0
                                     /\ dinode[EntryOf(p)].nlink >= 1
                                     /\ dinode[EntryOf(p)].type # "none"
  <1>1. cur[p] \in ISlot
    BY DEF HasCur, FsIInvOf, Placed, PlaceOK
  <1>2. Uses(z, p, cur[p])
    BY DEF Uses
  <1>3. icache[cur[p]].inum \in Inum
    BY <1>1, <1>2, UsesCounted, RefCounted DEF FsIInvOf, OneEntry
  <1>4. Head(path[p]) \in FsName
    <2>1. path[p] \in Seq(FsName)
      BY DEF FsIInvOf, FsTyped
    <2> QED BY <2>1
  <1>5. dirent[icache[cur[p]].inum][Head(path[p])] \in Inum \cup {NoInum}
    BY <1>3, <1>4 DEF FsIInvOf, FsTyped
  <1> QED BY <1>1, <1>3, <1>4, <1>5, NamedLinked DEF EntryOf

\* A path is a sequence of at least one name.
LEMMA PathNames == \A q \in FsPath : q \in Seq(FsName) /\ q # <<>>
  <1>1. FsDir \in FsName /\ FsFile \in FsName
    BY InodeAssumption
  <1>2. <<FsDir>> \in Seq(FsName) /\ <<FsDir>> # <<>>
    BY <1>1
  <1>3. <<FsFile>> \in Seq(FsName) /\ <<FsFile>> # <<>>
    BY <1>1
  <1>4. <<FsDir, FsFile>> \in Seq(FsName) /\ <<FsDir, FsFile>> # <<>>
    BY <1>1
  <1> QED BY <1>2, <1>3, <1>4 DEF FsPath

\* The start of a path walk.
LEMMA NamexKeeps ==
    ASSUME NEW z, FsIInvOf(z), NEW p \in FsProc, k[p] = <<>>,
           NEW c \in {"open", "create", "mkdir", "unlink", "link"}, c \in {"open", "create"} => fd[p] = 0,
           NEW q \in FsPath, Namex(p, c, q, <<LastOp(c)>>), icache' = iget(icache, ROOTINO),
           UNCHANGED <<dinode, dirent, ip, fd>>,
           path2' \in [FsProc -> Seq(FsName)], \A r \in FsProc \ {p} : path2'[r] = path2[r],
           c = "link" => path2'[p] # <<>>
    PROVE  FsIInv'
  <1>1. z[p].ph = "none" /\ z[p].b = "idle"
    BY NextOp
  <1>2. PICK s0 : s0 = IgetSlot(ROOTINO)
    OBVIOUS
  <1>3. icache \in IcacheType /\ FsTyped
    BY DEF FsIInvOf, FsTyped
  <1>4. ROOTINO \in Inum /\ dinode[ROOTINO].nlink # 0 /\ dinode[ROOTINO].type # "none"
    BY NamedLinked
  <1>5. IgetTakes(icache, icache', ROOTINO, s0)
    <2>1. CanIget(ROOTINO)
      BY DEF Namex
    <2>2. IgetTakes(icache, iget(icache, ROOTINO), ROOTINO, IgetSlot(ROOTINO))
      BY <1>3, <1>4, <2>1, IgetEffect
    <2> QED BY <1>2, <2>2
  <1>6. s0 \in ISlot /\ icache' \in IcacheType
    BY <1>5 DEF IgetTakes
  <1>7. PICK g : g = [ph |-> "none", s |-> 0, b |-> "lockwalk", t |-> 0]
    OBVIOUS
  <1>8. g \in FsGhost /\ g.ph = "none" /\ g.s = 0 /\ g.b = "lockwalk" /\ g.t = 0
    BY <1>7 DEF FsGhost, PutPhase, FsPlace, WalkB
  <1>9. PICK w : w = [z EXCEPT ![p] = g]
    OBVIOUS
  <1>10. w[p] = g /\ w \in [FsProc -> FsGhost] /\ \A r \in FsProc \ {p} : w[r] = z[r]
    BY <1>8, <1>9 DEF FsIInvOf
  <1>11. /\ cur' = [cur EXCEPT ![p] = s0] /\ path' = [path EXCEPT ![p] = q] /\ call' = [call EXCEPT ![p] = c]
    BY <1>2 DEF Namex
  <1>12. /\ cur'[p] = s0 /\ path'[p] = q /\ call'[p] = c /\ ip' = ip /\ fd' = fd
         /\ dinode' = dinode /\ dirent' = dirent
    BY <1>3, <1>11 DEF FsTyped
  <1>13. Moves(z, w, p)
    BY <1>3, <1>10, <1>11, <1>12 DEF Moves, FsTyped
  <1>14. FsTyped'
    <2>1. q \in Seq(FsName)
      BY PathNames
    <2>2. cur' \in [FsProc -> ISlot \cup {0}] /\ path' \in [FsProc -> Seq(FsName)] /\ call' \in [FsProc -> FsCall]
      BY <1>3, <1>6, <1>11, <2>1 DEF FsTyped, FsCall
    <2> QED BY <1>3, <1>6, <1>12, <2>2 DEF FsTyped
  <1>15. StepPlaces(w, p)
    <2>1. k' = [k EXCEPT ![p] = Prefix(g) \o Rest(g, c)]
      <3>1. k' = [k EXCEPT ![p] = <<lock_cur, <<"walk", 0>>, lock_cur>> \o <<LastOp(c)>>]
        BY DEF Namex
      <3>2. lock_cur \in FsOp /\ <<"walk", 0>> \in FsOp /\ LastOp(c) \in FsOp
        BY DEF FsOp, FsOpName, lock_cur, LastOp
      <3>3. <<lock_cur, <<"walk", 0>>, lock_cur>> \o <<LastOp(c)>> = <<>> \o <<lock_cur, <<"walk", 0>>, lock_cur, LastOp(c)>>
        BY <3>2, FourOps
      <3>4. Prefix(g) = <<>> /\ Rest(g, c) = <<lock_cur, <<"walk", 0>>, lock_cur, LastOp(c)>>
        BY <1>8 DEF Prefix, Rest
      <3> QED BY <3>1, <3>3, <3>4
    <2>2. q # <<>>
      BY PathNames
    <2>3. PlaceOK(w[p], p)'
      BY <1>6, <1>8, <1>10, <1>12, <2>2 DEF PlaceOK, WantsParent, WalkB, FillB, UnlinkB, BadB, ExistB, PutB
    <2> QED BY <1>10, <1>12, <2>1, <2>3 DEF StepPlaces
  <1>16. \A s \in ISlot : Locks(w, p, s)' <=> Locks(z, p, s)
    BY <1>1, <1>8, <1>10 DEF Locks
  <1>17. \A s \in ISlot : RefCount(w, p, s)' = RefCount(z, p, s) + One(s = s0)
    BY <1>1, <1>6, <1>8, <1>10, <1>12
       DEF RefCount, One, HasCur, HasIp, HasPut, HasLast, WalkB, FillB, UnlinkB, BadB, PutB, ExistB
  <1>18. \A s \in ISlot : Uses(w, p, s)' => Uses(z, p, s) \/ s = s0
    BY <1>1, <1>6, <1>8, <1>10, <1>12
       DEF Uses, HasCur, HasIp, HasLast, WalkB, FillB, UnlinkB, BadB, PutB, ExistB
  <1>19. /\ ~Pend(w, p)'
         /\ w[p].b \notin FillB /\ TargetFor(w, p)'
    BY <1>8, <1>10, <1>12 DEF Pend, TargetFor, WalkB, BadB, FillB, UnlinkB
  <1>20. FsIInvOf(w)'
    <2>1. w[p].ph \in {"none", "put"} /\ cur'[p] = s0
      BY <1>8, <1>10, <1>12
    <2> QED BY <1>1, <1>4, <1>5, <1>13, <1>14, <1>15, <1>16, <1>17, <1>18, <1>19, <2>1, IgetStep
  <1> QED BY <1>20 DEF FsIInv

\* open(), mkdir(), unlink() and create() start with iget() of the root and a walk.
LEMMA SysPathKeeps ==
    ASSUME NEW z, FsIInvOf(z), NEW p \in FsProc, SysPath(p)
    PROVE  FsIInv'
  <1>1. k[p] = <<>> /\ icache' = iget(icache, ROOTINO) /\ UNCHANGED <<dinode, dirent, path2, ip, fd>>
    BY DEF SysPath, Enter
  <1>2. PICK q \in FsPath :
            \/ fd[p] = 0 /\ Namex(p, "open", q, << <<"open", 0>> >>)
            \/ fd[p] = 0 /\ Namex(p, "create", q, << <<"create", 0>> >>)
            \/ Namex(p, "mkdir", q, << <<"create", 0>> >>)
            \/ Namex(p, "unlink", q, << <<"unlink", 0>> >>)
    BY DEF SysPath
  <1>3. PICK c \in {"open", "create", "mkdir", "unlink"} :
            (c \in {"open", "create"} => fd[p] = 0) /\ Namex(p, c, q, <<LastOp(c)>>)
    BY <1>2 DEF LastOp
  <1>4. path2' \in [FsProc -> Seq(FsName)] /\ \A r \in FsProc \ {p} : path2'[r] = path2[r]
    BY <1>1 DEF FsIInvOf, FsTyped
  <1> QED BY <1>1, <1>3, <1>4, NamexKeeps

\* link() starts the walk of its old path and keeps the new one for later.
LEMMA SysLinkKeeps ==
    ASSUME NEW z, FsIInvOf(z), NEW p \in FsProc, SysLink(p)
    PROVE  FsIInv'
  <1>1. k[p] = <<>> /\ icache' = iget(icache, ROOTINO) /\ UNCHANGED <<dinode, dirent, ip, fd>>
    BY DEF SysLink, Enter
  <1>2. PICK q \in FsPath, r \in FsPath : Namex(p, "link", q, << <<"link", 0>> >>) /\ path2' = [path2 EXCEPT ![p] = r]
    BY DEF SysLink
  <1>3. Namex(p, "link", q, <<LastOp("link")>>)
    BY <1>2 DEF LastOp
  <1>4. /\ path2' \in [FsProc -> Seq(FsName)] /\ \A t \in FsProc \ {p} : path2'[t] = path2[t]
        /\ path2'[p] # <<>>
    BY <1>2, PathNames DEF FsIInvOf, FsTyped
  <1> QED BY <1>1, <1>3, <1>4, NamexKeeps

\* What a process has locked.
LEMMA LockedFacts ==
    ASSUME NEW z, FsIInvOf(z), NEW p \in FsProc, NEW s \in ISlot, Locks(z, p, s)
    PROVE  /\ icache[s].holder = p /\ icache[s].valid /\ icache[s].ref \in Nat /\ icache[s].ref >= 1
           /\ icache[s].inum \in Inum
  <1>1. icache[s].holder = p
    BY DEF FsIInvOf, HoldersOK
  <1>2. icache[s].holder # NoFsProc
    BY <1>1, InodeAssumption
  <1>3. icache[s].valid
    BY <1>2 DEF FsIInvOf, HoldersOK
  <1>4. icache[s].ref \in Nat /\ icache[s].ref >= 1
    BY UsesCounted, RefCounted
  <1> QED BY <1>1, <1>3, <1>4 DEF FsIInvOf, OneEntry

\* What skipelem() leaves of a path is a path, and empty only after the last name.
LEMMA TailPath ==
    ASSUME NEW q \in Seq(FsName), q # <<>>
    PROVE  Tail(q) \in Seq(FsName) /\ (Len(q) # 1 => Tail(q) # <<>>)
  <1>1. Tail(q) \in Seq(FsName) /\ Len(Tail(q)) = Len(q) - 1 /\ Len(q) \in Nat
    OBVIOUS
  <1>2. PICK t : t = Tail(q)
    OBVIOUS
  <1>3. t = <<>> => Len(t) = 0
    OBVIOUS
  <1>4. Len(t) = Len(q) - 1 /\ Len(q) \in Nat
    BY <1>1, <1>2
  <1>5. Len(q) # 1 => t # <<>>
    BY <1>3, <1>4
  <1> QED BY <1>1, <1>2, <1>5

\* The next name of the path.
LEMMA WalkDownKeeps ==
    ASSUME NEW z, FsIInvOf(z), NEW p \in FsProc, WalkDown(p)
    PROVE  FsIInv'
  <1>1. z[p].ph = "none" /\ z[p].b = "walk" /\ Tail(k[p]) = <<lock_cur, LastOp(call[p])>>
    BY AtPlace DEF WalkDown
  <1>2. FsTyped /\ PlaceOK(z[p], p) /\ icache \in IcacheType
    BY DEF FsIInvOf, Placed, FsTyped
  <1>3. HasCur(z, p) /\ path[p] # <<>> /\ path[p] \in Seq(FsName) /\ call[p] # "none" /\ cur[p] \in ISlot
    BY <1>1, <1>2 DEF HasCur, PlaceOK, FsTyped, WalkB
  <1>4. PICK i : i = EntryOf(p)
    OBVIOUS
  <1>5. PICK s0 : s0 = IgetSlot(i)
    OBVIOUS
  <1>6. i \in Inum /\ dinode[i].nlink # 0 /\ dinode[i].type # "none" /\ CanIget(i)
    BY <1>3, <1>4, EntryInode DEF WalkDown
  <1>7. PICK c : c = iunlock(icache, cur[p])
    OBVIOUS
  <1>8. c \in IcacheType /\ \A s \in ISlot : c[s].ref = icache[s].ref /\ c[s].inum = icache[s].inum
    BY <1>2, <1>3, <1>7, IunlockFields
  <1>9. IgetTakes(c, icache', i, s0)
    <2>1. IgetTakes(c, iget(c, i), i, IgetSlot(i))
      BY <1>2, <1>6, <1>8, IgetEffect
    <2> QED BY <1>4, <1>5, <1>7, <2>1 DEF WalkDown
  <1>10. s0 \in ISlot /\ icache' \in IcacheType
    BY <1>9 DEF IgetTakes
  <1>11. PICK b : b = IF Len(path[p]) = 1 THEN "lockop" ELSE "lockwalk"
    OBVIOUS
  <1>12. PICK g : g = [ph |-> "put", s |-> cur[p], b |-> b, t |-> 0]
    OBVIOUS
  <1>13. g \in FsGhost /\ g.ph = "put" /\ g.s = cur[p] /\ g.b = b /\ g.t = 0 /\ b \in {"lockop", "lockwalk"}
    BY <1>3, <1>11, <1>12 DEF FsGhost, PutPhase, FsPlace, WalkB, ISlot
  <1>14. PICK w : w = [z EXCEPT ![p] = g]
    OBVIOUS
  <1>15. w[p] = g /\ w \in [FsProc -> FsGhost] /\ \A r \in FsProc \ {p} : w[r] = z[r]
    BY <1>13, <1>14 DEF FsIInvOf
  <1>16. /\ cur' = [cur EXCEPT ![p] = s0] /\ path' = [path EXCEPT ![p] = Tail(path[p])]
         /\ UNCHANGED <<dinode, dirent, call, path2, ip, fd>>
    BY <1>4, <1>5 DEF WalkDown
  <1>17. cur'[p] = s0 /\ path'[p] = Tail(path[p])
    BY <1>2, <1>16 DEF FsTyped
  <1>18. Moves(z, w, p)
    BY <1>2, <1>15, <1>16 DEF Moves, FsTyped
  <1>19. FsTyped'
    <2>1. cur' \in [FsProc -> ISlot \cup {0}] /\ path' \in [FsProc -> Seq(FsName)]
      BY <1>2, <1>3, <1>10, <1>16, TailPath DEF FsTyped
    <2> QED BY <1>2, <1>10, <1>16, <2>1 DEF FsTyped
  <1>20. StepPlaces(w, p)
    <2>1. k' = [k EXCEPT ![p] = Prefix(g) \o Rest(g, call[p])]
      <3>1. CASE Len(path[p]) = 1
        <4>1. k' = [k EXCEPT ![p] = <<put(cur[p])>> \o <<lock_cur, LastOp(call[p])>>]
          BY <1>1, <3>1 DEF WalkDown, Then
        <4>2. Prefix(g) = <<put(cur[p])>> /\ Rest(g, call[p]) = <<lock_cur, LastOp(call[p])>>
          BY <1>11, <1>13, <3>1 DEF Prefix, Rest
        <4> QED BY <4>1, <4>2
      <3>2. CASE Len(path[p]) # 1
        <4>1. k' = [k EXCEPT ![p] = <<put(cur[p]), lock_cur, <<"walk", 0>> >> \o <<lock_cur, LastOp(call[p])>>]
          BY <1>1, <3>2 DEF WalkDown, Then
        <4>2. Prefix(g) = <<put(cur[p])>> /\ Rest(g, call[p]) = <<lock_cur, <<"walk", 0>>, lock_cur, LastOp(call[p])>>
          BY <1>11, <1>13, <3>2 DEF Prefix, Rest
        <4>3. put(cur[p]) \in FsOp /\ lock_cur \in FsOp /\ <<"walk", 0>> \in FsOp
          BY <1>3 DEF FsOp, FsOpName, put, lock_cur, ISlot
        <4>4. LastOp(call[p]) \in FsOp
          <5>1. (IF call[p] = "mkdir" THEN "create" ELSE call[p]) \in FsOpName
            BY <1>2 DEF FsTyped, FsCall, FsOpName
          <5> QED BY <5>1 DEF FsOp, LastOp
        <4>5. <<put(cur[p]), lock_cur, <<"walk", 0>> >> \o <<lock_cur, LastOp(call[p])>>
                = <<put(cur[p])>> \o <<lock_cur, <<"walk", 0>>, lock_cur, LastOp(call[p])>>
          <5>1. PICK a \in FsOp, b1 \in FsOp, c1 \in FsOp, e \in FsOp :
                    a = put(cur[p]) /\ b1 = lock_cur /\ c1 = <<"walk", 0>> /\ e = LastOp(call[p])
            BY <4>3, <4>4
          <5>2. <<a, b1, c1>> \o <<b1, e>> = <<a>> \o <<b1, c1, b1, e>>
            OBVIOUS
          <5> QED BY <5>1, <5>2
        <4> QED BY <4>1, <4>2, <4>5
      <3> QED BY <3>1, <3>2
    <2>2. Len(path[p]) # 1 => Tail(path[p]) # <<>>
      BY <1>3, TailPath
    <2>3. ~(WantsParent(p) /\ Len(path[p]) = 1) /\ call' = call /\ path2' = path2 /\ ip' = ip /\ fd' = fd
      BY <1>16 DEF WalkDown
    <2>4. PlaceOK(w[p], p)'
      BY <1>1, <1>2, <1>3, <1>10, <1>11, <1>13, <1>15, <1>17, <2>2, <2>3
         DEF PlaceOK, WantsParent, WalkB, FillB, UnlinkB, BadB, ExistB, PutB
    <2> QED BY <1>15, <2>1, <2>3, <2>4 DEF StepPlaces
  <1>21. icache[cur[p]].holder = p /\ \A s \in ISlot : Locks(w, p, s)' <=> Locks(z, p, s) /\ s # cur[p]
    <2>1. Locks(z, p, cur[p])
      BY <1>1 DEF Locks
    <2>2. icache[cur[p]].holder = p
      BY <1>3, <2>1, LockedFacts
    <2>3. \A s \in ISlot : Locks(w, p, s)' <=> Locks(z, p, s) /\ s # cur[p]
      BY <1>1, <1>13, <1>15 DEF Locks
    <2> QED BY <2>2, <2>3
  <1>22. \A s \in ISlot : RefCount(w, p, s)' = RefCount(z, p, s) + One(s = s0)
    BY <1>1, <1>3, <1>10, <1>13, <1>15, <1>16, <1>17
       DEF RefCount, One, HasCur, HasIp, HasPut, HasLast, WalkB, FillB, UnlinkB, BadB, PutB, ExistB
  <1>23. \A s \in ISlot : Uses(w, p, s)' => Uses(z, p, s) \/ s = s0
    BY <1>1, <1>3, <1>10, <1>13, <1>15, <1>16, <1>17
       DEF Uses, HasCur, HasIp, HasLast, WalkB, FillB, UnlinkB, BadB, PutB, ExistB
  <1>24. (Pend(w, p)' => Pend(z, p) /\ ip'[p] = ip[p]) /\ w[p].b \notin FillB
    BY <1>1, <1>13, <1>15, <1>16 DEF Pend, WalkB, BadB, FillB
  <1>25. TargetFor(w, p)'
    <2>1. ASSUME call[p] = "linknew"
          PROVE  dinode[icache'[ip[p]].inum].type # "dir"
      <3>1. Uses(z, p, ip[p]) /\ ip[p] \in ISlot
        BY <1>1, <1>2, <2>1 DEF Uses, HasIp, PlaceOK, WalkB
      <3>2. icache[ip[p]].ref > 0
        BY <3>1, UsesCounted, RefCounted
      <3>3. icache'[ip[p]].inum = icache[ip[p]].inum
        BY <1>8, <1>9, <3>1, <3>2 DEF IgetTakes
      <3> QED BY <1>1, <2>1, <3>3 DEF FsIInvOf, TargetsOK, WalkB
    <2> QED BY <1>13, <1>15, <1>16, <2>1 DEF TargetFor, UnlinkB
  <1>26. FsIInvOf(w)'
    <2>1. w[p].ph \in {"none", "put"} /\ cur'[p] = s0 /\ UNCHANGED <<dinode, dirent>>
      BY <1>13, <1>15, <1>16, <1>17
    <2>2. \E x \in ISlot : /\ c = iunlock(icache, x) /\ icache[x].holder = p
                           /\ \A s \in ISlot : Locks(w, p, s)' <=> Locks(z, p, s) /\ s # x
      BY <1>3, <1>7, <1>21
    <2> QED BY <1>1, <1>6, <1>9, <1>18, <1>19, <1>20, <1>22, <1>23, <1>24, <1>25, <2>1, <2>2, IgetStep
  <1> QED BY <1>26 DEF FsIInv

\* create() of a name that is there: it gets hold of the inode and lets dp go.
LEMMA CreateFoundKeeps ==
    ASSUME NEW z, FsIInvOf(z), NEW p \in FsProc, CreateFound(p)
    PROVE  FsIInv'
  <1>1. z[p].ph = "none" /\ z[p].b = "op" /\ Tail(k[p]) = <<>> /\ call[p] \in {"create", "mkdir"}
    BY AtOp DEF CreateFound
  <1>2. FsTyped /\ PlaceOK(z[p], p) /\ icache \in IcacheType
    BY DEF FsIInvOf, Placed, FsTyped
  <1>3. /\ HasCur(z, p) /\ path[p] # <<>> /\ cur[p] \in ISlot
        /\ call[p] = "create" => fd[p] = 0
    BY <1>1, <1>2 DEF HasCur, PlaceOK, WalkB, WantsParent
  <1>4. PICK i : i = EntryOf(p)
    OBVIOUS
  <1>5. PICK s0 : s0 = IgetSlot(i)
    OBVIOUS
  <1>6. i \in Inum /\ dinode[i].nlink # 0 /\ dinode[i].type # "none" /\ CanIget(i)
    BY <1>3, <1>4, EntryInode DEF CreateFound
  <1>7. PICK c : c = iunlock(icache, cur[p])
    OBVIOUS
  <1>8. c \in IcacheType /\ \A s \in ISlot : c[s].ref = icache[s].ref /\ c[s].inum = icache[s].inum
    BY <1>2, <1>3, <1>7, IunlockFields
  <1>9. IgetTakes(c, icache', i, s0)
    <2>1. IgetTakes(c, iget(c, i), i, IgetSlot(i))
      BY <1>2, <1>6, <1>8, IgetEffect
    <2> QED BY <1>4, <1>5, <1>7, <2>1 DEF CreateFound
  <1>10. s0 \in ISlot /\ icache' \in IcacheType
    BY <1>9 DEF IgetTakes
  <1>11. PICK g : g = [ph |-> "put", s |-> cur[p], b |-> "lockexists", t |-> 0]
    OBVIOUS
  <1>12. g \in FsGhost /\ g.ph = "put" /\ g.s = cur[p] /\ g.b = "lockexists" /\ g.t = 0
    BY <1>3, <1>11 DEF FsGhost, PutPhase, FsPlace, ExistB, ISlot
  <1>13. PICK w : w = [z EXCEPT ![p] = g]
    OBVIOUS
  <1>14. w[p] = g /\ w \in [FsProc -> FsGhost] /\ \A r \in FsProc \ {p} : w[r] = z[r]
    BY <1>12, <1>13 DEF FsIInvOf
  <1>15. ip' = [ip EXCEPT ![p] = s0] /\ UNCHANGED <<dinode, dirent, call, path, path2, cur, fd>>
    BY <1>4, <1>5 DEF CreateFound
  <1>16. ip'[p] = s0
    BY <1>2, <1>15 DEF FsTyped
  <1>17. Moves(z, w, p)
    BY <1>2, <1>14, <1>15 DEF Moves, FsTyped
  <1>18. FsTyped'
    <2>1. ip' \in [FsProc -> ISlot \cup {0}]
      BY <1>2, <1>10, <1>15 DEF FsTyped
    <2> QED BY <1>2, <1>10, <1>15, <2>1 DEF FsTyped
  <1>19. StepPlaces(w, p)
    <2>1. k' = [k EXCEPT ![p] = Prefix(g) \o Rest(g, call[p])]
      <3>1. k' = [k EXCEPT ![p] = <<put(cur[p]), lock_ip, <<"exists", 0>> >> \o <<>>]
        BY <1>1 DEF CreateFound, Then
      <3>2. Prefix(g) = <<put(cur[p])>> /\ Rest(g, call[p]) = <<lock_ip, <<"exists", 0>> >>
        BY <1>12 DEF Prefix, Rest
      <3>3. put(cur[p]) \in FsOp /\ lock_ip \in FsOp /\ <<"exists", 0>> \in FsOp
        BY <1>3 DEF FsOp, FsOpName, put, lock_ip, ISlot
      <3>4. <<put(cur[p]), lock_ip, <<"exists", 0>> >> \o <<>> = <<put(cur[p])>> \o <<lock_ip, <<"exists", 0>> >>
        BY <3>3, OpLists
      <3> QED BY <3>1, <3>2, <3>4
    <2>2. PlaceOK(w[p], p)'
      BY <1>1, <1>2, <1>3, <1>10, <1>12, <1>14, <1>15, <1>16
         DEF PlaceOK, WantsParent, WalkB, FillB, UnlinkB, BadB, ExistB, PutB
    <2> QED BY <1>14, <1>15, <2>1, <2>2 DEF StepPlaces
  <1>20. icache[cur[p]].holder = p /\ \A s \in ISlot : Locks(w, p, s)' <=> Locks(z, p, s) /\ s # cur[p]
    <2>1. Locks(z, p, cur[p])
      BY <1>1 DEF Locks
    <2>2. icache[cur[p]].holder = p
      BY <1>3, <2>1, LockedFacts
    <2>3. \A s \in ISlot : Locks(w, p, s)' <=> Locks(z, p, s) /\ s # cur[p]
      BY <1>1, <1>12, <1>14 DEF Locks
    <2> QED BY <2>2, <2>3
  <1>21. \A s \in ISlot : RefCount(w, p, s)' = RefCount(z, p, s) + One(s = s0)
    BY <1>1, <1>3, <1>10, <1>12, <1>14, <1>15, <1>16
       DEF RefCount, One, HasCur, HasIp, HasPut, HasLast, WalkB, FillB, UnlinkB, BadB, PutB, ExistB
  <1>22. \A s \in ISlot : Uses(w, p, s)' => Uses(z, p, s) \/ s = s0
    BY <1>1, <1>3, <1>10, <1>12, <1>14, <1>15, <1>16
       DEF Uses, HasCur, HasIp, HasLast, WalkB, FillB, UnlinkB, BadB, PutB, ExistB
  <1>23. ~Pend(w, p)' /\ ~HasCur(w, p)' /\ w[p].b \notin FillB /\ TargetFor(w, p)'
    BY <1>12, <1>14 DEF Pend, HasCur, TargetFor, WalkB, BadB, FillB, UnlinkB
  <1>24. FsIInvOf(w)'
    <2>1. w[p].ph \in {"none", "put"} /\ UNCHANGED <<dinode, dirent>>
      BY <1>12, <1>14, <1>15
    <2>2. \E x \in ISlot : /\ c = iunlock(icache, x) /\ icache[x].holder = p
                           /\ \A s \in ISlot : Locks(w, p, s)' <=> Locks(z, p, s) /\ s # x
      BY <1>3, <1>7, <1>20
    <2> QED BY <1>1, <1>6, <1>9, <1>17, <1>18, <1>19, <1>21, <1>22, <1>23, <2>1, <2>2, IgetStep
  <1> QED BY <1>24 DEF FsIInv

\* unlink() of a name that is there.
LEMMA UnlinkFoundKeeps ==
    ASSUME NEW z, FsIInvOf(z), NEW p \in FsProc, UnlinkFound(p)
    PROVE  FsIInv'
  <1>1. z[p].ph = "none" /\ z[p].b = "op" /\ Tail(k[p]) = <<>> /\ call[p] = "unlink"
    BY AtOp DEF UnlinkFound
  <1>2. FsTyped /\ PlaceOK(z[p], p) /\ icache \in IcacheType
    BY DEF FsIInvOf, Placed, FsTyped
  <1>3. HasCur(z, p) /\ path[p] # <<>> /\ cur[p] \in ISlot
    BY <1>1, <1>2 DEF HasCur, PlaceOK, WalkB, WantsParent
  <1>4. PICK i : i = EntryOf(p)
    OBVIOUS
  <1>5. PICK s0 : s0 = IgetSlot(i)
    OBVIOUS
  <1>6. i \in Inum /\ dinode[i].nlink # 0 /\ dinode[i].type # "none" /\ CanIget(i)
    BY <1>3, <1>4, EntryInode DEF UnlinkFound
  <1>7. IgetTakes(icache, icache', i, s0)
    <2>1. IgetTakes(icache, iget(icache, i), i, IgetSlot(i))
      BY <1>2, <1>6, IgetEffect
    <2> QED BY <1>4, <1>5, <2>1 DEF UnlinkFound
  <1>8. s0 \in ISlot /\ icache' \in IcacheType /\ icache'[s0].inum = i
    BY <1>7 DEF IgetTakes
  <1>9. PICK g : g = [ph |-> "none", s |-> 0, b |-> "lockunlinked", t |-> 0]
    OBVIOUS
  <1>10. g \in FsGhost /\ g.ph = "none" /\ g.s = 0 /\ g.b = "lockunlinked" /\ g.t = 0
    BY <1>9 DEF FsGhost, PutPhase, FsPlace, UnlinkB
  <1>11. PICK w : w = [z EXCEPT ![p] = g]
    OBVIOUS
  <1>12. w[p] = g /\ w \in [FsProc -> FsGhost] /\ \A r \in FsProc \ {p} : w[r] = z[r]
    BY <1>10, <1>11 DEF FsIInvOf
  <1>13. ip' = [ip EXCEPT ![p] = s0] /\ UNCHANGED <<dinode, dirent, call, path, path2, cur, fd>>
    BY <1>4, <1>5 DEF UnlinkFound
  <1>14. ip'[p] = s0
    BY <1>2, <1>13 DEF FsTyped
  <1>15. Moves(z, w, p)
    BY <1>2, <1>12, <1>13 DEF Moves, FsTyped
  <1>16. FsTyped'
    <2>1. ip' \in [FsProc -> ISlot \cup {0}]
      BY <1>2, <1>8, <1>13 DEF FsTyped
    <2> QED BY <1>2, <1>8, <1>13, <2>1 DEF FsTyped
  <1>17. StepPlaces(w, p)
    <2>1. k' = [k EXCEPT ![p] = Prefix(g) \o Rest(g, call[p])]
      <3>1. k' = [k EXCEPT ![p] = <<lock_ip, <<"unlinked", 0>> >> \o <<>>]
        BY <1>1 DEF UnlinkFound, Then
      <3>2. Prefix(g) = <<>> /\ Rest(g, call[p]) = <<lock_ip, <<"unlinked", 0>> >>
        BY <1>10 DEF Prefix, Rest
      <3>3. lock_ip \in FsOp /\ <<"unlinked", 0>> \in FsOp
        BY DEF FsOp, FsOpName, lock_ip
      <3>4. <<lock_ip, <<"unlinked", 0>> >> \o <<>> = <<>> \o <<lock_ip, <<"unlinked", 0>> >>
        BY <3>3, OpLists
      <3> QED BY <3>1, <3>2, <3>4
    <2>2. PlaceOK(w[p], p)'
      BY <1>1, <1>2, <1>3, <1>8, <1>10, <1>12, <1>13, <1>14
         DEF PlaceOK, WantsParent, WalkB, FillB, UnlinkB, BadB, ExistB, PutB
    <2> QED BY <1>12, <1>13, <2>1, <2>2 DEF StepPlaces
  <1>18. \A s \in ISlot : Locks(w, p, s)' <=> Locks(z, p, s)
    BY <1>1, <1>10, <1>12, <1>13 DEF Locks
  <1>19. \A s \in ISlot : RefCount(w, p, s)' = RefCount(z, p, s) + One(s = s0)
    BY <1>1, <1>3, <1>8, <1>10, <1>12, <1>13, <1>14
       DEF RefCount, One, HasCur, HasIp, HasPut, HasLast, WalkB, FillB, UnlinkB, BadB, PutB, ExistB
  <1>20. \A s \in ISlot : Uses(w, p, s)' => Uses(z, p, s) \/ s = s0
    BY <1>1, <1>3, <1>8, <1>10, <1>12, <1>13, <1>14
       DEF Uses, HasCur, HasIp, HasLast, WalkB, FillB, UnlinkB, BadB, PutB, ExistB
  <1>21. ~Pend(w, p)' /\ HasCur(z, p) /\ cur'[p] = cur[p] /\ w[p].b \notin FillB
    BY <1>3, <1>10, <1>12, <1>13 DEF Pend, WalkB, BadB, FillB
  <1>22. TargetFor(w, p)'
    <2>1. icache'[cur[p]].inum = icache[cur[p]].inum
      <3>1. Uses(z, p, cur[p])
        BY <1>3 DEF Uses
      <3>2. icache[cur[p]].ref > 0
        BY <1>3, <3>1, UsesCounted, RefCounted
      <3> QED BY <1>3, <1>7, <3>2 DEF IgetTakes
    <2>2. EntryOf(p)' = EntryOf(p)
      BY <1>13, <2>1 DEF EntryOf
    <2> QED BY <1>4, <1>8, <1>10, <1>12, <1>14, <2>2 DEF TargetFor, UnlinkB, WalkB
  <1>23. FsIInvOf(w)'
    <2>1. w[p].ph \in {"none", "put"} /\ UNCHANGED <<dinode, dirent>>
      BY <1>10, <1>12, <1>13
    <2> QED BY <1>1, <1>6, <1>7, <1>15, <1>16, <1>17, <1>18, <1>19, <1>20, <1>21, <1>22, <2>1, IgetStep
  <1> QED BY <1>23 DEF FsIInv

-----------------------------------------------------------------------------
(* ilock() and iput(): steps that change one entry of the cache.           *)

\* The entry x alone changes, and stays that of its inode.
OneSlot(x) ==
    /\ icache' \in IcacheType
    /\ \A s \in ISlot : s # x => icache'[s] = icache[s]
    /\ icache'[x].inum = icache[x].inum
    /\ icache'[x].ref <= icache[x].ref

\* Process p gets no further than where it was.
Onward(z, w, p) ==
    /\ HasCur(w, p)' => HasCur(z, p)
    /\ w[p].b \in FillB => z[p].b \in FillB
    /\ w[p].b \in UnlinkB => z[p].b \in UnlinkB
    /\ w[p].b = "unlinked" => cur[p] # ip[p]
    /\ w[p].b \in WalkB => z[p].b \in WalkB
    /\ Pend(w, p)' => Pend(z, p)

\* The changed entry holds what is on the disk.
CoherentAt(w, x) ==
    icache[x].ref > 0 /\ icache[x].valid /\ (\A q \in FsProc : ~(w[q].ph = "freed" /\ w[q].s = x))
    => /\ dinode[icache[x].inum] = [type |-> icache[x].type, nlink |-> icache[x].nlink]
       /\ icache[x].type # "none"

\* A step that changes one entry of the inode cache, and nothing on disk, keeps the
\* invariant when p holds a reference to that entry.
LEMMA SlotStep ==
    ASSUME NEW z, FsIInvOf(z), NEW p \in FsProc, NEW g \in FsGhost, NEW w, w = [z EXCEPT ![p] = g],
           UNCHANGED <<dinode, dirent, regVars, fd>>, StepPlaces(w, p), NEW x \in ISlot, OneSlot(x),
           RefCount(z, p, x) >= 1, StepHolders(z, w, p), StepRefs(z, w, p), CoherentAt(w, x)',
           z[p].ph = "freed" => z[p].s = x,
           \A s \in ISlot : Uses(w, p, s)' => Uses(z, p, s),
           w[p].ph = "free" => icache'[w[p].s].ref = 1 /\ dinode[icache[w[p].s].inum].nlink = 0 /\ w[p].s = x,
           Onward(z, w, p)
    PROVE  FsIInvOf(w)'
  <1>1. /\ w[p] = g /\ w \in [FsProc -> FsGhost] /\ \A q \in FsProc \ {p} : w[q] = z[q]
    BY DEF FsIInvOf
  <1>2. /\ call' = call /\ path' = path /\ path2' = path2 /\ cur' = cur /\ ip' = ip /\ fd' = fd
        /\ dinode' = dinode /\ dirent' = dirent
    BY DEF regVars
  <1>3. Moves(z, w, p)
    BY <1>1, <1>2 DEF Moves
  <1>4. /\ \A s \in ISlot : icache'[s].inum = icache[s].inum
        /\ \A s \in ISlot : s # x => icache'[s] = icache[s]
        /\ icache'[x].ref <= icache[x].ref /\ icache[x].ref \in Nat /\ icache[x].ref >= 1
        /\ icache'[x].ref \in Nat
    BY RefCounted DEF OneSlot, IcacheType
  <1>5. StepSlots
    BY <1>4 DEF StepSlots
  <1>6. Coherent(w)'
    <2> SUFFICES ASSUME NEW s \in ISlot, icache'[s].ref > 0, icache'[s].valid,
                        \A q \in FsProc : ~(w[q].ph = "freed" /\ w[q].s = s)
                 PROVE  /\ dinode'[icache'[s].inum] = [type |-> icache'[s].type, nlink |-> icache'[s].nlink]
                        /\ icache'[s].type # "none"
      BY DEF Coherent
    <2>1. CASE s = x
      BY <2>1 DEF CoherentAt
    <2>2. CASE s # x
      <3>1. \A q \in FsProc : ~(z[q].ph = "freed" /\ z[q].s = s)
        BY <1>1, <2>2
      <3> QED BY <1>2, <1>4, <2>2, <3>1 DEF FsIInvOf, Coherent
    <2> QED BY <2>1, <2>2
  <1>7. StepUses(z, w, p)
    <2>1. ASSUME NEW s \in ISlot, Uses(w, p, s)' PROVE dinode'[icache'[s].inum].type # "none"
      <3>1. Uses(z, p, s)
        BY <2>1
      <3> QED BY <1>2, <1>4, <3>1 DEF FsIInvOf, UsedAllocated
    <2> QED BY <1>2, <2>1 DEF StepUses
  <1>8. StepFreeing(z, w, p)
    <2>1. ASSUME NEW q \in FsProc \ {p}, z[q].ph = "free"
          PROVE  icache'[z[q].s].ref = 1 /\ dinode'[icache[z[q].s].inum].nlink = 0
      <3>1. /\ z[q].s \in ISlot /\ icache[z[q].s].ref = 1 /\ dinode[icache[z[q].s].inum].nlink = 0
            /\ RefCount(z, p, z[q].s) = 0
        BY <2>1, OthersFree
      <3>2. z[q].s # x
        BY <3>1
      <3> QED BY <1>2, <1>4, <3>1, <3>2
    <2> QED BY <1>2, <1>4, <2>1 DEF StepFreeing
  <1>9. LinksCover(w)' /\ FreeUnlinked'
    <2>1. Pend(w, p)' => Pend(z, p) /\ ip'[p] = ip[p]
      BY <1>2 DEF Onward
    <2> QED BY <1>2, <1>3, <1>5, <2>1, LinksSame
  <1>10. StepFresh(z, w, p)
    <2>1. ASSUME w[p].b \in FillB PROVE FreshFor(w, p)'
      <3>1. FreshFor(z, p) /\ ip[p] \in ISlot /\ cur[p] \in ISlot
        BY <2>1, FreshTargets DEF FsIInvOf, Onward, Placed, PlaceOK
      <3>2. \A q \in FsProc : HasCur(w, q)' => HasCur(z, q)
        BY <1>3, OtherSame DEF Onward
      <3>3. EntryOf(p)' = EntryOf(p)
        BY <1>2, <1>4, <3>1 DEF EntryOf
      <3> QED BY <1>1, <1>2, <1>4, <3>1, <3>2, <3>3 DEF FreshFor
    <2>2. ASSUME NEW q \in FsProc \ {p}, z[q].b \in FillB
          PROVE  /\ dinode'[icache[ip[q]].inum].nlink = 0
                 /\ HasCur(w, p)' => cur'[p] # ip[q]
                 /\ w[p].b \in FillB => ip'[p] # ip[q]
      <3>1. FreshFor(z, q)
        BY <2>2, FreshTargets DEF FsIInvOf
      <3> QED BY <1>2, <3>1 DEF FreshFor, Onward
    <2> QED BY <2>1, <2>2 DEF StepFresh
  <1>11. StepTargets(z, w, p)
    <2>1. TargetFor(z, p) /\ PlaceOK(z[p], p)
      BY FreshTargets DEF FsIInvOf, Placed
    <2>2. w[p].b \in UnlinkB => EntryOf(p)' = icache'[ip[p]].inum
      <3>1. ASSUME w[p].b \in UnlinkB PROVE EntryOf(p)' = icache'[ip[p]].inum
        <4>1. cur[p] \in ISlot /\ ip[p] \in ISlot /\ EntryOf(p) = icache[ip[p]].inum
          BY <2>1, <3>1 DEF PlaceOK, TargetFor, Onward
        <4> QED BY <1>2, <1>4, <4>1 DEF EntryOf
      <3> QED BY <3>1
    <2>3. w[p].b \in WalkB /\ call[p] = "linknew" => dinode[icache'[ip[p]].inum].type # "dir"
      BY <1>4, <2>1 DEF PlaceOK, TargetFor, Onward
    <2>4. TargetFor(w, p)'
      BY <1>2, <2>2, <2>3 DEF TargetFor, Onward
    <2> QED BY <1>2, <2>4, TargetsSame
  <1>12. FsTyped'
    BY <1>2 DEF FsIInvOf, FsTyped, OneSlot
  <1> QED BY <1>3, <1>5, <1>6, <1>7, <1>8, <1>9, <1>10, <1>11, <1>12, KeepsInv

\* An inode that nobody has locked is not being freed.
LEMMA UnlockedFacts ==
    ASSUME NEW z, FsIInvOf(z), NEW s \in ISlot, icache[s].holder = NoFsProc
    PROVE  \A q \in FsProc : ~Locks(z, q, s) /\ ~(z[q].ph = "freed" /\ z[q].s = s)
  <1>1. \A q \in FsProc : ~Locks(z, q, s)
    BY InodeAssumption DEF FsIInvOf, HoldersOK
  <1> QED BY <1>1 DEF Locks

\* ilock(): what is locked is used, and holds what the disk holds.
LEMMA IlockKeeps ==
    ASSUME NEW z, FsIInvOf(z), NEW p \in FsProc, ilock(p)
    PROVE  FsIInv'
  <1>1. /\ z[p].ph = "none"
        /\ z[p].b \in {"lockwalk", "lockop", "lockexists", "lockfill", "lockunlinked", "locklinkbad"}
        /\ Arg(p) = "cur" <=> z[p].b \in {"lockwalk", "lockop"}
        /\ Tail(k[p]) = Rest([z[p] EXCEPT !.b = AfterLock(z[p].b)], call[p])
    BY AtLock DEF ilock
  <1>2. FsTyped /\ PlaceOK(z[p], p) /\ icache \in IcacheType /\ z[p] \in FsGhost /\ call[p] \in FsCall
    BY DEF FsIInvOf, Placed, FsTyped
  <1>3. PICK x : x = IF Arg(p) = "cur" THEN cur[p] ELSE ip[p]
    OBVIOUS
  <1>4. PICK d : d = dinode[icache[x].inum]
    OBVIOUS
  <1>5. x \in ISlot
    BY <1>1, <1>2, <1>3 DEF PlaceOK, WalkB, FillB, UnlinkB, BadB, ExistB
  <1>6. /\ icache[x].holder = NoFsProc
        /\ icache' = [icache EXCEPT ![x] =
              IF @.valid THEN [@ EXCEPT !.holder = p]
              ELSE [@ EXCEPT !.holder = p, !.valid = TRUE, !.type = d.type, !.nlink = d.nlink]]
        /\ Then(p, <<>>)
        /\ UNCHANGED <<dinode, dirent, regVars, fd>>
    BY <1>3, <1>4 DEF ilock
  <1>7. PICK b : b = AfterLock(z[p].b)
    OBVIOUS
  <1>8. PICK g : g = [z[p] EXCEPT !.b = b]
    OBVIOUS
  <1>9. /\ b \in {"walk", "op", "exists", "fill", "unlinked", "linkbad"}
        /\ z[p].b = "lockwalk" => b = "walk"
        /\ z[p].b = "lockop" => b = "op"
        /\ z[p].b = "lockexists" => b = "exists"
        /\ z[p].b = "lockfill" => b = "fill"
        /\ z[p].b = "lockunlinked" => b = "unlinked"
        /\ z[p].b = "locklinkbad" => b = "linkbad"
    BY <1>1, <1>7 DEF AfterLock
  <1>10. g \in FsGhost /\ g.ph = "none" /\ g.s = z[p].s /\ g.b = b /\ g.t = z[p].t
    <2>1. b \in FsPlace
      BY <1>9 DEF FsPlace, WalkB, ExistB, FillB, UnlinkB, BadB
    <2> QED BY <1>1, <1>2, <1>8, <2>1 DEF FsGhost
  <1>11. PICK w : w = [z EXCEPT ![p] = g]
    OBVIOUS
  <1>12. w[p] = g
    BY <1>11 DEF FsIInvOf
  <1>13. UNCHANGED <<dinode, dirent, call, path, path2, cur, ip, fd>>
    BY <1>6 DEF regVars
  <1>14. Uses(z, p, x) /\ RefCount(z, p, x) >= 1
    <2>1. Uses(z, p, x)
      BY <1>1, <1>3 DEF Uses, HasCur, HasIp, WalkB, FillB, UnlinkB, BadB, ExistB
    <2> QED BY <1>5, <2>1, UsesCounted
  <1>15. icache[x].inum \in Inum /\ d \in [type : {"none", "file", "dir"}, nlink : Nat] /\ d.type # "none"
    <2>1. icache[x].inum \in Inum
      BY <1>5, <1>14, RefCounted DEF FsIInvOf, OneEntry
    <2>2. d.type # "none"
      BY <1>4, <1>5, <1>14 DEF FsIInvOf, UsedAllocated
    <2> QED BY <1>2, <1>4, <2>1, <2>2 DEF FsTyped
  <1>16. /\ \A s \in ISlot : s # x => icache'[s] = icache[s]
         /\ icache'[x].inum = icache[x].inum /\ icache'[x].ref = icache[x].ref
         /\ icache'[x].holder = p /\ icache'[x].valid = TRUE
         /\ icache[x].valid => icache'[x].type = icache[x].type /\ icache'[x].nlink = icache[x].nlink
         /\ ~icache[x].valid => icache'[x].type = d.type /\ icache'[x].nlink = d.nlink
         /\ icache' \in IcacheType
    <2>1. PICK e : e = IF icache[x].valid THEN [icache[x] EXCEPT !.holder = p]
              ELSE [icache[x] EXCEPT !.holder = p, !.valid = TRUE, !.type = d.type, !.nlink = d.nlink]
      OBVIOUS
    <2>2. icache' = [icache EXCEPT ![x] = e]
      BY <1>6, <2>1
    <2>3. /\ e \in [inum : Inum \cup {NoInum}, ref : Nat, valid : BOOLEAN, holder : FsProc \cup {NoFsProc},
                    type : {"none", "file", "dir"}, nlink : Nat]
          /\ e.inum = icache[x].inum /\ e.ref = icache[x].ref /\ e.holder = p /\ e.valid = TRUE
          /\ icache[x].valid => e.type = icache[x].type /\ e.nlink = icache[x].nlink
          /\ ~icache[x].valid => e.type = d.type /\ e.nlink = d.nlink
      BY <1>2, <1>5, <1>15, <2>1 DEF IcacheType
    <2> QED BY <1>2, <1>5, <2>2, <2>3 DEF IcacheType
  <1>17. OneSlot(x)
    BY <1>2, <1>5, <1>16 DEF OneSlot, IcacheType
  <1>18. StepPlaces(w, p)
    <2>1. k' = [k EXCEPT ![p] = Prefix(g) \o Rest(g, call[p])]
      <3>1. Prefix(g) = <<>>
        BY <1>10 DEF Prefix
      <3> QED BY <1>1, <1>6, <1>7, <1>8, <3>1 DEF Then
    <2>2. PlaceOK(w[p], p)'
      BY <1>1, <1>2, <1>9, <1>10, <1>12, <1>13
         DEF PlaceOK, WantsParent, WalkB, FillB, UnlinkB, BadB, PutB, ExistB
    <2> QED BY <1>12, <1>13, <2>1, <2>2 DEF StepPlaces
  <1>19. \A s \in ISlot : Locks(w, p, s)' <=> Locks(z, p, s) \/ s = x
    BY <1>1, <1>3, <1>9, <1>10, <1>12, <1>13 DEF Locks
  <1>20. StepHolders(z, w, p)
    <2>1. \A s \in ISlot : icache[s].holder # NoFsProc => icache[s].valid
      BY DEF FsIInvOf, HoldersOK
    <2> QED BY <1>6, <1>16, <1>19, <2>1 DEF StepHolders
  <1>21. \A s \in ISlot : RefCount(w, p, s)' = RefCount(z, p, s) /\ (Uses(w, p, s)' <=> Uses(z, p, s))
    BY <1>1, <1>9, <1>10, <1>12, <1>13
       DEF RefCount, Uses, HasCur, HasIp, HasPut, HasLast, WalkB, FillB, UnlinkB, BadB, PutB, ExistB
  <1>22. StepRefs(z, w, p)
    <2>1. \A s \in ISlot : icache'[s].ref = icache[s].ref /\ icache[s].ref \in Nat
      BY <1>2, <1>16 DEF IcacheType
    <2>2. \A s \in ISlot : RefCount(z, p, s) \in 0..5
      BY RefCountNat
    <2> QED BY <1>21, <2>1, <2>2 DEF StepRefs
  <1>23. CoherentAt(w, x)'
    <2>1. CASE icache[x].valid
      <3>1. \A q \in FsProc : ~(z[q].ph = "freed" /\ z[q].s = x)
        BY <1>5, <1>6, UnlockedFacts
      <3>2. icache[x].ref > 0
        BY <1>5, <1>14, RefCounted
      <3> QED BY <1>5, <1>13, <1>16, <2>1, <3>1, <3>2 DEF CoherentAt, FsIInvOf, Coherent
    <2>2. CASE ~icache[x].valid
      BY <1>4, <1>13, <1>15, <1>16, <2>2 DEF CoherentAt
    <2> QED BY <2>1, <2>2
  <1>24. Onward(z, w, p)
    <2>1. w[p].b = "unlinked" => cur[p] # ip[p]
      <3>1. ASSUME z[p].b = "lockunlinked" PROVE cur[p] # ip[p]
        <4>1. Locks(z, p, cur[p]) /\ cur[p] \in ISlot
          BY <1>2, <3>1 DEF Locks, PlaceOK, UnlinkB
        <4>2. icache[cur[p]].holder = p
          BY <4>1, LockedFacts
        <4>3. x = ip[p]
          BY <1>1, <1>3, <3>1
        <4> QED BY <1>6, <4>2, <4>3, InodeAssumption
      <3> QED BY <1>1, <1>9, <1>10, <1>12, <3>1
    <2>2. /\ HasCur(w, p)' => HasCur(z, p)
          /\ w[p].b \in FillB => z[p].b \in FillB
          /\ w[p].b \in UnlinkB => z[p].b \in UnlinkB
          /\ w[p].b \in WalkB => z[p].b \in WalkB
          /\ Pend(w, p)' => Pend(z, p)
      BY <1>1, <1>9, <1>10, <1>12, <1>13 DEF HasCur, Pend, WalkB, FillB, UnlinkB, BadB
    <2> QED BY <2>1, <2>2 DEF Onward
  <1>25. FsIInvOf(w)'
    <2>1. z[p].ph # "freed" /\ w[p].ph # "free"
      BY <1>1, <1>10, <1>12
    <2>2. \A s \in ISlot : Uses(w, p, s)' => Uses(z, p, s)
      BY <1>21
    <2> QED BY <1>5, <1>6, <1>10, <1>11, <1>14, <1>17, <1>18, <1>20, <1>22, <1>23, <1>24, <2>1, <2>2, SlotStep
  <1> QED BY <1>25 DEF FsIInv

\* The end of iput(): a reference less.
LEMMA PutEnds ==
    ASSUME NEW z, FsIInvOf(z), NEW p \in FsProc, NEW x,
           \/ z[p].ph \in {"put", "drop"} /\ x = z[p].s /\ Tail(k[p]) = Rest(z[p], call[p])
           \/ z[p].ph = "none" /\ z[p].b = "put" /\ x = z[p].t /\ Tail(k[p]) = <<>>,
           icache' = [icache EXCEPT ![x].ref = @ - 1], Then(p, <<>>),
           UNCHANGED <<dinode, dirent, regVars, fd>>
    PROVE  FsIInv'
  <1>1. FsTyped /\ PlaceOK(z[p], p) /\ icache \in IcacheType /\ z[p] \in FsGhost /\ call[p] \in FsCall
    BY DEF FsIInvOf, Placed, FsTyped
  <1>2. PICK g : g = IF z[p].ph = "none" THEN [ph |-> "none", s |-> 0, b |-> "idle", t |-> 0]
                     ELSE [z[p] EXCEPT !.ph = "none"]
    OBVIOUS
  <1>3. /\ g \in FsGhost /\ g.ph = "none"
        /\ z[p].ph = "none" => g.b = "idle"
        /\ z[p].ph # "none" => g.b = z[p].b /\ g.s = z[p].s /\ g.t = z[p].t
    BY <1>1, <1>2 DEF FsGhost, FsPlace, PutPhase
  <1>4. x \in ISlot
    BY <1>1 DEF PlaceOK, PutB
  <1>5. PICK w : w = [z EXCEPT ![p] = g]
    OBVIOUS
  <1>6. w[p] = g /\ \A q \in FsProc \ {p} : w[q] = z[q]
    BY <1>5 DEF FsIInvOf
  <1>7. UNCHANGED <<dinode, dirent, call, path, path2, cur, ip, fd>>
    BY DEF regVars
  <1>8. RefCount(z, p, x) >= 1 /\ icache[x].ref \in Nat /\ icache[x].ref >= 1
    <2>1. RefCount(z, p, x) >= 1
      BY <1>4, UsesCounted DEF HasPut, Uses, HasLast, PutB
    <2> QED BY <1>4, <2>1, RefCounted
  <1>9. /\ \A s \in ISlot : s # x => icache'[s] = icache[s]
        /\ icache'[x].inum = icache[x].inum /\ icache'[x].ref = icache[x].ref - 1
        /\ icache'[x].holder = icache[x].holder /\ icache'[x].valid = icache[x].valid
        /\ icache'[x].type = icache[x].type /\ icache'[x].nlink = icache[x].nlink
        /\ icache' \in IcacheType
    BY <1>1, <1>4, <1>8 DEF IcacheType
  <1>10. OneSlot(x)
    BY <1>8, <1>9 DEF OneSlot
  <1>11. StepPlaces(w, p)
    <2>1. k' = [k EXCEPT ![p] = Prefix(g) \o Rest(g, call[p])]
      <3>1. Prefix(g) = <<>>
        BY <1>3 DEF Prefix
      <3>2. Tail(k[p]) = Rest(g, call[p])
        BY <1>2, <1>3 DEF Rest
      <3> QED BY <3>1, <3>2 DEF Then
    <2>2. PlaceOK(w[p], p)'
      BY <1>1, <1>3, <1>6, <1>7 DEF PlaceOK, WantsParent, WalkB, FillB, UnlinkB, BadB, PutB, ExistB
    <2> QED BY <1>6, <1>7, <2>1, <2>2 DEF StepPlaces
  <1>12. StepHolders(z, w, p)
    <2>1. \A s \in ISlot : Locks(w, p, s)' <=> Locks(z, p, s)
      BY <1>3, <1>6, <1>7 DEF Locks
    <2>2. \A s \in ISlot : icache'[s].holder = icache[s].holder /\ icache'[s].valid = icache[s].valid
      BY <1>9
    <2>3. \A s \in ISlot : icache[s].holder # NoFsProc => icache[s].valid
      BY DEF FsIInvOf, HoldersOK
    <2> QED BY <2>1, <2>2, <2>3 DEF StepHolders
  <1>13. \A s \in ISlot : RefCount(w, p, s)' = RefCount(z, p, s) - One(s = x)
    BY <1>3, <1>4, <1>6, <1>7
       DEF RefCount, One, HasCur, HasIp, HasPut, HasLast, WalkB, FillB, UnlinkB, BadB, PutB, ExistB
  <1>14. StepRefs(z, w, p)
    <2>1. \A s \in ISlot : icache'[s].ref = icache[s].ref - One(s = x) /\ icache[s].ref \in Nat
      BY <1>1, <1>9 DEF IcacheType, One
    <2>2. \A s \in ISlot : RefCount(z, p, s) \in 0..5 /\ One(s = x) \in Nat
      BY RefCountNat DEF One
    <2> QED BY <1>13, <2>1, <2>2 DEF StepRefs
  <1>15. CoherentAt(w, x)'
    <2>1. ASSUME \A q \in FsProc : ~(w[q].ph = "freed" /\ w[q].s = x)
          PROVE  \A q \in FsProc : ~(z[q].ph = "freed" /\ z[q].s = x)
      BY <1>6, <2>1
    <2> QED BY <1>4, <1>7, <1>8, <1>9, <2>1 DEF CoherentAt, FsIInvOf, Coherent
  <1>16. \A s \in ISlot : Uses(w, p, s)' => Uses(z, p, s)
    BY <1>3, <1>6, <1>7 DEF Uses, HasCur, HasIp, HasLast, WalkB, FillB, UnlinkB, BadB, PutB, ExistB
  <1>17. Onward(z, w, p)
    <2>1. w[p].b = "unlinked" => cur[p] # ip[p]
      BY <1>3, <1>6 DEF FsIInvOf, TargetsOK
    <2>2. /\ HasCur(w, p)' => HasCur(z, p)
          /\ w[p].b \in FillB => z[p].b \in FillB
          /\ w[p].b \in UnlinkB => z[p].b \in UnlinkB
          /\ w[p].b \in WalkB => z[p].b \in WalkB
          /\ Pend(w, p)' => Pend(z, p)
      BY <1>3, <1>6, <1>7 DEF HasCur, Pend, WalkB, FillB, UnlinkB, BadB
    <2> QED BY <2>1, <2>2 DEF Onward
  <1>18. FsIInvOf(w)'
    <2>1. z[p].ph # "freed" /\ w[p].ph # "free"
      BY <1>3, <1>6
    <2> QED BY <1>3, <1>4, <1>5, <1>8, <1>10, <1>11, <1>12, <1>14, <1>15, <1>16, <1>17, <2>1, SlotStep
  <1> QED BY <1>18 DEF FsIInv

\* iput() of an inode that stays: one reference less.
LEMMA IputDropKeeps ==
    ASSUME NEW z, FsIInvOf(z), NEW p \in FsProc, IputDrop(p)
    PROVE  FsIInv'
  <1>1. PICK x : x = Arg(p)
    OBVIOUS
  <1>2. icache' = [icache EXCEPT ![x].ref = @ - 1] /\ Then(p, <<>>) /\ UNCHANGED <<dinode, dirent, regVars, fd>>
    BY <1>1 DEF IputDrop
  <1>3. \/ z[p].ph \in {"put", "drop"} /\ x = z[p].s /\ Tail(k[p]) = Rest(z[p], call[p])
        \/ z[p].ph = "none" /\ z[p].b = "put" /\ x = z[p].t /\ Tail(k[p]) = <<>>
    BY <1>1, AtPut DEF IputDrop
  <1> QED BY <1>2, <1>3, PutEnds

\* iput() after it has freed the inode: the last reference goes.
LEMMA IputDropFreedKeeps ==
    ASSUME NEW z, FsIInvOf(z), NEW p \in FsProc, IputDropFreed(p)
    PROVE  FsIInv'
  <1>1. PICK x : x = Arg(p)
    OBVIOUS
  <1>2. icache' = [icache EXCEPT ![x].ref = @ - 1] /\ Then(p, <<>>) /\ UNCHANGED <<dinode, dirent, regVars, fd>>
    BY <1>1 DEF IputDropFreed
  <1>3. z[p].ph = "drop" /\ x = z[p].s /\ PrefixHead(z[p], call[p], Head(k[p]), Tail(k[p]))
    BY <1>1, AtPrefix DEF IputDropFreed
  <1>4. Tail(k[p]) = Rest(z[p], call[p])
    BY <1>3 DEF PrefixHead
  <1> QED BY <1>2, <1>3, <1>4, PutEnds

\* iput() begins to free the inode: it has no link, and nobody has it locked.
LEMMA IputLastKeeps ==
    ASSUME NEW z, FsIInvOf(z), NEW p \in FsProc, IputLast(p)
    PROVE  FsIInv'
  <1>1. PICK x : x = Arg(p)
    OBVIOUS
  <1>2. /\ icache[x].ref = 1 /\ icache[x].valid /\ icache[x].nlink = 0 /\ icache[x].holder = NoFsProc
        /\ icache' = [icache EXCEPT ![x].holder = p]
        /\ Then(p, << <<"free", x>>, <<"freed", x>>, <<"drop", x>> >>)
        /\ UNCHANGED <<dinode, dirent, regVars, fd>>
    BY <1>1 DEF IputLast, LastUse
  <1>3. \/ z[p].ph = "put" /\ x = z[p].s /\ Tail(k[p]) = Rest(z[p], call[p])
        \/ z[p].ph = "none" /\ z[p].b = "put" /\ x = z[p].t /\ Tail(k[p]) = <<>>
    BY <1>1, AtPut DEF IputLast
  <1>4. FsTyped /\ PlaceOK(z[p], p) /\ icache \in IcacheType /\ z[p] \in FsGhost /\ call[p] \in FsCall
    BY DEF FsIInvOf, Placed, FsTyped
  <1>5. x \in ISlot
    BY <1>3, <1>4 DEF PlaceOK, PutB
  <1>6. PICK g : g = IF z[p].ph = "none" THEN [ph |-> "free", s |-> x, b |-> "idle", t |-> 0]
                     ELSE [z[p] EXCEPT !.ph = "free"]
    OBVIOUS
  <1>7. /\ g \in FsGhost /\ g.ph = "free" /\ g.s = x
        /\ z[p].ph = "none" => g.b = "idle"
        /\ z[p].ph # "none" => g.b = z[p].b /\ g.t = z[p].t
    BY <1>3, <1>4, <1>5, <1>6 DEF FsGhost, FsPlace, PutPhase, ISlot
  <1>8. PICK w : w = [z EXCEPT ![p] = g]
    OBVIOUS
  <1>9. w[p] = g /\ \A q \in FsProc \ {p} : w[q] = z[q]
    BY <1>8 DEF FsIInvOf
  <1>10. UNCHANGED <<dinode, dirent, call, path, path2, cur, ip, fd>>
    BY <1>2 DEF regVars
  <1>11. Uses(z, p, x) /\ RefCount(z, p, x) >= 1
    <2>1. Uses(z, p, x)
      BY <1>3 DEF Uses, HasLast, PutB
    <2> QED BY <1>5, <2>1, UsesCounted
  <1>12. /\ \A s \in ISlot : s # x => icache'[s] = icache[s]
         /\ icache'[x].inum = icache[x].inum /\ icache'[x].ref = icache[x].ref
         /\ icache'[x].holder = p /\ icache'[x].valid = icache[x].valid
         /\ icache'[x].type = icache[x].type /\ icache'[x].nlink = icache[x].nlink
         /\ icache' \in IcacheType
    BY <1>2, <1>4, <1>5 DEF IcacheType
  <1>13. OneSlot(x)
    BY <1>2, <1>12 DEF OneSlot
  <1>14. ~Locks(z, p, x) /\ \A q \in FsProc : ~(z[q].ph = "freed" /\ z[q].s = x)
    BY <1>2, <1>5, UnlockedFacts
  <1>15. StepPlaces(w, p)
    <2>1. k' = [k EXCEPT ![p] = Prefix(g) \o Rest(g, call[p])]
      <3>1. Prefix(g) = << <<"free", x>>, <<"freed", x>>, <<"drop", x>> >>
        BY <1>7 DEF Prefix
      <3>2. Tail(k[p]) = Rest(g, call[p])
        BY <1>3, <1>6, <1>7 DEF Rest
      <3> QED BY <1>2, <3>1, <3>2 DEF Then
    <2>2. PlaceOK(w[p], p)'
      BY <1>3, <1>4, <1>5, <1>7, <1>9, <1>10, <1>14
         DEF PlaceOK, Locks, WantsParent, WalkB, FillB, UnlinkB, BadB, PutB, ExistB
    <2> QED BY <1>9, <1>10, <2>1, <2>2 DEF StepPlaces
  <1>16. StepHolders(z, w, p)
    <2>1. \A s \in ISlot : Locks(w, p, s)' <=> Locks(z, p, s) \/ s = x
      BY <1>3, <1>7, <1>9, <1>10 DEF Locks
    <2>2. \A s \in ISlot : icache[s].holder # NoFsProc => icache[s].valid
      BY DEF FsIInvOf, HoldersOK
    <2> QED BY <1>2, <1>12, <2>1, <2>2 DEF StepHolders
  <1>17. \A s \in ISlot : RefCount(w, p, s)' = RefCount(z, p, s)
    BY <1>3, <1>5, <1>7, <1>9, <1>10
       DEF RefCount, One, HasCur, HasIp, HasPut, HasLast, WalkB, FillB, UnlinkB, BadB, PutB, ExistB
  <1>18. StepRefs(z, w, p)
    <2>1. \A s \in ISlot : icache'[s].ref = icache[s].ref /\ icache[s].ref \in Nat
      BY <1>4, <1>12 DEF IcacheType
    <2>2. \A s \in ISlot : RefCount(z, p, s) \in 0..5
      BY RefCountNat
    <2> QED BY <1>17, <2>1, <2>2 DEF StepRefs
  <1>19. dinode[icache[x].inum] = [type |-> icache[x].type, nlink |-> 0] /\ icache[x].type # "none"
    BY <1>2, <1>5, <1>14 DEF FsIInvOf, Coherent
  <1>20. CoherentAt(w, x)'
    BY <1>2, <1>10, <1>12, <1>19 DEF CoherentAt
  <1>21. \A s \in ISlot : Uses(w, p, s)' => Uses(z, p, s)
    BY <1>3, <1>7, <1>9, <1>10 DEF Uses, HasCur, HasIp, HasLast, WalkB, FillB, UnlinkB, BadB, PutB, ExistB
  <1>22. Onward(z, w, p)
    <2>1. w[p].b = "unlinked" => cur[p] # ip[p]
      BY <1>7, <1>9 DEF FsIInvOf, TargetsOK
    <2>2. /\ HasCur(w, p)' => HasCur(z, p)
          /\ w[p].b \in FillB => z[p].b \in FillB
          /\ w[p].b \in UnlinkB => z[p].b \in UnlinkB
          /\ w[p].b \in WalkB => z[p].b \in WalkB
          /\ Pend(w, p)' => Pend(z, p)
      BY <1>7, <1>9, <1>10 DEF HasCur, Pend, WalkB, FillB, UnlinkB, BadB
    <2> QED BY <2>1, <2>2 DEF Onward
  <1>23. FsIInvOf(w)'
    <2>1. z[p].ph # "freed"
      BY <1>3
    <2>2. icache'[w[p].s].ref = 1 /\ dinode[icache[w[p].s].inum].nlink = 0 /\ w[p].s = x
      BY <1>2, <1>7, <1>9, <1>12, <1>19
    <2> QED BY <1>2, <1>5, <1>7, <1>8, <1>11, <1>13, <1>15, <1>16, <1>18, <1>20, <1>21, <1>22, <2>1, <2>2, SlotStep
  <1> QED BY <1>23 DEF FsIInv

\* iput() has freed the inode and lets go of the lock.
LEMMA IputFreedKeeps ==
    ASSUME NEW z, FsIInvOf(z), NEW p \in FsProc, IputFreed(p)
    PROVE  FsIInv'
  <1>1. PICK x : x = Arg(p)
    OBVIOUS
  <1>2. /\ icache' = [icache EXCEPT ![x].valid = FALSE, ![x].holder = NoFsProc]
        /\ Then(p, <<>>) /\ UNCHANGED <<dinode, dirent, regVars, fd>>
    BY <1>1 DEF IputFreed
  <1>3. /\ z[p].ph = "freed" /\ x = z[p].s
        /\ Tail(k[p]) = << <<"drop", x>> >> \o Rest(z[p], call[p])
    <2>1. z[p].ph = "freed" /\ x = z[p].s /\ PrefixHead(z[p], call[p], Head(k[p]), Tail(k[p]))
      BY <1>1, AtPrefix DEF IputFreed
    <2> QED BY <2>1 DEF PrefixHead
  <1>4. FsTyped /\ PlaceOK(z[p], p) /\ icache \in IcacheType /\ z[p] \in FsGhost /\ call[p] \in FsCall
    BY DEF FsIInvOf, Placed, FsTyped
  <1>5. x \in ISlot
    BY <1>3, <1>4 DEF PlaceOK
  <1>6. PICK g : g = [z[p] EXCEPT !.ph = "drop"]
    OBVIOUS
  <1>7. g \in FsGhost /\ g.ph = "drop" /\ g.s = x /\ g.b = z[p].b /\ g.t = z[p].t
    BY <1>3, <1>4, <1>6 DEF FsGhost, PutPhase
  <1>8. PICK w : w = [z EXCEPT ![p] = g]
    OBVIOUS
  <1>9. w[p] = g /\ \A q \in FsProc \ {p} : w[q] = z[q]
    BY <1>8 DEF FsIInvOf
  <1>10. UNCHANGED <<dinode, dirent, call, path, path2, cur, ip, fd>>
    BY <1>2 DEF regVars
  <1>11. Locks(z, p, x) /\ RefCount(z, p, x) >= 1
    BY <1>3, <1>5, UsesCounted DEF Locks, HasPut
  <1>12. /\ \A s \in ISlot : s # x => icache'[s] = icache[s]
         /\ icache'[x].inum = icache[x].inum /\ icache'[x].ref = icache[x].ref
         /\ icache'[x].holder = NoFsProc /\ icache'[x].valid = FALSE
         /\ icache' \in IcacheType
    BY <1>2, <1>4, <1>5 DEF IcacheType
  <1>13. OneSlot(x)
    BY <1>4, <1>5, <1>12 DEF OneSlot, IcacheType
  <1>14. StepPlaces(w, p)
    <2>1. k' = [k EXCEPT ![p] = Prefix(g) \o Rest(g, call[p])]
      <3>1. Prefix(g) = << <<"drop", x>> >>
        BY <1>7 DEF Prefix
      <3>2. Rest(g, call[p]) = Rest(z[p], call[p])
        BY <1>6, <1>7 DEF Rest
      <3>3. k' = [k EXCEPT ![p] = <<>> \o (<< <<"drop", x>> >> \o Rest(z[p], call[p]))]
        BY <1>2, <1>3 DEF Then
      <3>4. <<>> \o (<< <<"drop", x>> >> \o Rest(z[p], call[p])) = << <<"drop", x>> >> \o Rest(z[p], call[p])
        <4>1. << <<"drop", x>> >> \in Seq(FsOp) /\ Rest(z[p], call[p]) \in Seq(FsOp)
          <5>1. <<"drop", x>> \in FsOp
            BY <1>5 DEF FsOp, FsOpName, ISlot
          <5> QED BY <1>4, <5>1, RestSeq
        <4> QED BY <4>1
      <3> QED BY <3>1, <3>2, <3>3, <3>4
    <2>2. PlaceOK(w[p], p)'
      BY <1>3, <1>4, <1>5, <1>7, <1>9, <1>10
         DEF PlaceOK, WantsParent, WalkB, FillB, UnlinkB, BadB, PutB, ExistB
    <2> QED BY <1>9, <1>10, <2>1, <2>2 DEF StepPlaces
  <1>15. StepHolders(z, w, p)
    <2>1. \A s \in ISlot : Locks(w, p, s)' <=> Locks(z, p, s) /\ s # x
      BY <1>3, <1>4, <1>7, <1>9, <1>10 DEF Locks, PlaceOK
    <2>2. \A s \in ISlot : icache[s].holder # NoFsProc => icache[s].valid
      BY DEF FsIInvOf, HoldersOK
    <2>3. icache[x].holder = p
      BY <1>5, <1>11, LockedFacts
    <2> QED BY <1>12, <2>1, <2>2, <2>3 DEF StepHolders
  <1>16. \A s \in ISlot : RefCount(w, p, s)' = RefCount(z, p, s)
    BY <1>3, <1>5, <1>7, <1>9, <1>10
       DEF RefCount, One, HasCur, HasIp, HasPut, HasLast, WalkB, FillB, UnlinkB, BadB, PutB, ExistB
  <1>17. StepRefs(z, w, p)
    <2>1. \A s \in ISlot : icache'[s].ref = icache[s].ref /\ icache[s].ref \in Nat
      BY <1>4, <1>12 DEF IcacheType
    <2>2. \A s \in ISlot : RefCount(z, p, s) \in 0..5
      BY RefCountNat
    <2> QED BY <1>16, <2>1, <2>2 DEF StepRefs
  <1>18. CoherentAt(w, x)'
    BY <1>12 DEF CoherentAt
  <1>19. \A s \in ISlot : Uses(w, p, s)' => Uses(z, p, s)
    BY <1>3, <1>7, <1>9, <1>10 DEF Uses, HasCur, HasIp, HasLast, WalkB, FillB, UnlinkB, BadB, PutB, ExistB
  <1>20. Onward(z, w, p)
    <2>1. w[p].b = "unlinked" => cur[p] # ip[p]
      BY <1>7, <1>9 DEF FsIInvOf, TargetsOK
    <2>2. /\ HasCur(w, p)' => HasCur(z, p)
          /\ w[p].b \in FillB => z[p].b \in FillB
          /\ w[p].b \in UnlinkB => z[p].b \in UnlinkB
          /\ w[p].b \in WalkB => z[p].b \in WalkB
          /\ Pend(w, p)' => Pend(z, p)
      BY <1>7, <1>9, <1>10 DEF HasCur, Pend, WalkB, FillB, UnlinkB, BadB
    <2> QED BY <2>1, <2>2 DEF Onward
  <1>21. FsIInvOf(w)'
    <2>1. w[p].ph # "free"
      BY <1>7, <1>9
    <2> QED BY <1>2, <1>3, <1>5, <1>7, <1>8, <1>11, <1>13, <1>14, <1>15, <1>17, <1>18, <1>19, <1>20, <2>1, SlotStep
  <1> QED BY <1>21 DEF FsIInv

-----------------------------------------------------------------------------
(* Steps that write inodes and directories.                                *)

\* A set of entries, or of pending links, that grows or shrinks by one.
LEMMA OneMore ==
    ASSUME NEW A, IsFiniteSet(A), NEW e, NEW B \in SUBSET (A \cup {e})
    PROVE  IsFiniteSet(B) /\ Cardinality(B) \in Nat /\ Cardinality(A) \in Nat /\ Cardinality(B) <= Cardinality(A) + 1
  <1>1. /\ IsFiniteSet(A \cup {e}) /\ Cardinality(A) \in Nat
        /\ Cardinality(A \cup {e}) = IF e \in A THEN Cardinality(A) ELSE Cardinality(A) + 1
    BY FS_AddElement, FS_CardinalityType
  <1>2. IsFiniteSet(B) /\ Cardinality(B) <= Cardinality(A \cup {e})
    BY <1>1, FS_Subset
  <1>3. Cardinality(B) \in Nat
    BY <1>2, FS_CardinalityType
  <1> QED BY <1>1, <1>2, <1>3

\* A subset that misses a member is at least one smaller.
LEMMA OneLess ==
    ASSUME NEW A, IsFiniteSet(A), NEW e \in A, NEW B \in SUBSET (A \ {e})
    PROVE  IsFiniteSet(B) /\ Cardinality(B) \in Nat /\ Cardinality(A) \in Nat /\ Cardinality(B) <= Cardinality(A) - 1
  <1>1. IsFiniteSet(A \ {e}) /\ Cardinality(A \ {e}) = Cardinality(A) - 1 /\ Cardinality(A) \in Nat
    BY FS_RemoveElement, FS_CardinalityType
  <1>2. IsFiniteSet(B) /\ Cardinality(B) <= Cardinality(A \ {e})
    BY <1>1, FS_Subset
  <1>3. Cardinality(B) \in Nat
    BY <1>2, FS_CardinalityType
  <1> QED BY <1>1, <1>2, <1>3

\* A subset is no larger.
LEMMA NoMore ==
    ASSUME NEW A, IsFiniteSet(A), NEW B \in SUBSET A
    PROVE  IsFiniteSet(B) /\ Cardinality(B) \in Nat /\ Cardinality(A) \in Nat /\ Cardinality(B) <= Cardinality(A)
  BY FS_Subset, FS_CardinalityType

\* The links of inode i that count.
Covered(z, i) ==
    /\ IsFiniteSet(Parents(i)) /\ IsFiniteSet(Subdirs(i)) /\ IsFiniteSet(Pending(z, i))
    /\ dinode[i].nlink >= One(i = ROOTINO) + Cardinality(Parents(i)) + Cardinality(Subdirs(i))
                            + Cardinality(Pending(z, i))

\* The numbers of links that inode i has.
LEMMA LinkNumbers ==
    ASSUME NEW z, FsIInvOf(z), NEW i \in Inum
    PROVE  /\ IsFiniteSet(Parents(i)) /\ IsFiniteSet(Subdirs(i)) /\ IsFiniteSet(Pending(z, i))
           /\ Cardinality(Parents(i)) \in Nat /\ Cardinality(Subdirs(i)) \in Nat
           /\ Cardinality(Pending(z, i)) \in Nat /\ dinode[i].nlink \in Nat
           /\ dinode[i].nlink >= One(i = ROOTINO) + Cardinality(Parents(i)) + Cardinality(Subdirs(i))
                                    + Cardinality(Pending(z, i))
           /\ One(i = ROOTINO) \in Nat
           /\ dinode[i].nlink = 0 => i # ROOTINO /\ Parents(i) = {} /\ Subdirs(i) = {} /\ Pending(z, i) = {}
  <1>1. /\ IsFiniteSet(Parents(i)) /\ IsFiniteSet(Subdirs(i)) /\ IsFiniteSet(Pending(z, i))
        /\ dinode[i].nlink >= One(i = ROOTINO) + Cardinality(Parents(i)) + Cardinality(Subdirs(i))
                                 + Cardinality(Pending(z, i))
    BY DEF FsIInvOf, LinksCover
  <1>2. /\ Cardinality(Parents(i)) \in Nat /\ Cardinality(Subdirs(i)) \in Nat
        /\ Cardinality(Pending(z, i)) \in Nat
    BY <1>1, FS_CardinalityType
  <1>3. dinode[i].nlink \in Nat /\ One(i = ROOTINO) \in Nat
    BY DEF FsIInvOf, FsTyped, One
  <1>4. ASSUME dinode[i].nlink = 0
        PROVE  i # ROOTINO /\ Parents(i) = {} /\ Subdirs(i) = {} /\ Pending(z, i) = {}
    <2>1. /\ Cardinality(Parents(i)) = 0 /\ Cardinality(Subdirs(i)) = 0 /\ Cardinality(Pending(z, i)) = 0
          /\ One(i = ROOTINO) = 0
      BY <1>1, <1>2, <1>3, <1>4
    <2> QED BY <1>1, <2>1, FS_EmptySet DEF One
  <1> QED BY <1>1, <1>2, <1>3, <1>4

\* An inode that gets as many links as are counted.
LEMMA CoveredStep ==
    ASSUME NEW z, FsIInvOf(z), NEW w, NEW i \in Inum, NEW a \in Int, NEW b \in Int, NEW c \in Int,
           IsFiniteSet(Parents(i)'), Cardinality(Parents(i)') \in Nat,
           Cardinality(Parents(i)') <= Cardinality(Parents(i)) + a,
           IsFiniteSet(Subdirs(i)'), Cardinality(Subdirs(i)') \in Nat,
           Cardinality(Subdirs(i)') <= Cardinality(Subdirs(i)) + b,
           IsFiniteSet(Pending(w, i)'), Cardinality(Pending(w, i)') \in Nat,
           Cardinality(Pending(w, i)') <= Cardinality(Pending(z, i)) + c,
           dinode'[i].nlink \in Nat, dinode'[i].nlink >= dinode[i].nlink + (a + b + c)
    PROVE  Covered(w, i)'
  <1>1. /\ Cardinality(Parents(i)) \in Nat /\ Cardinality(Subdirs(i)) \in Nat
        /\ Cardinality(Pending(z, i)) \in Nat /\ dinode[i].nlink \in Nat
        /\ dinode[i].nlink >= One(i = ROOTINO) + Cardinality(Parents(i)) + Cardinality(Subdirs(i))
                                 + Cardinality(Pending(z, i))
        /\ One(i = ROOTINO) \in Nat
    BY LinkNumbers
  <1>2. dinode'[i].nlink >= One(i = ROOTINO) + Cardinality(Parents(i)') + Cardinality(Subdirs(i)')
                              + Cardinality(Pending(w, i)')
    BY <1>1
  <1> QED BY <1>2 DEF Covered

\* Fewer entries and pending links, and an nlink that does not fall, stay covered.
LEMMA CoveredLess ==
    ASSUME NEW z, FsIInvOf(z), NEW w, NEW i \in Inum, Parents(i)' \subseteq Parents(i),
           Subdirs(i)' \subseteq Subdirs(i), Pending(w, i)' \subseteq Pending(z, i),
           dinode'[i].nlink \in Nat, dinode'[i].nlink >= dinode[i].nlink
    PROVE  Covered(w, i)'
  <1>1. /\ IsFiniteSet(Parents(i)) /\ IsFiniteSet(Subdirs(i)) /\ IsFiniteSet(Pending(z, i))
        /\ dinode[i].nlink \in Nat
        /\ Cardinality(Parents(i)) \in Nat /\ Cardinality(Subdirs(i)) \in Nat
        /\ Cardinality(Pending(z, i)) \in Nat
    BY LinkNumbers
  <1>2. PICK A : A = Parents(i)'
    OBVIOUS
  <1>3. PICK B : B = Subdirs(i)'
    OBVIOUS
  <1>4. PICK C : C = Pending(w, i)'
    OBVIOUS
  <1>5. IsFiniteSet(A) /\ Cardinality(A) \in Nat /\ Cardinality(A) <= Cardinality(Parents(i)) + 0
    BY <1>1, <1>2, NoMore
  <1>6. IsFiniteSet(B) /\ Cardinality(B) \in Nat /\ Cardinality(B) <= Cardinality(Subdirs(i)) + 0
    BY <1>1, <1>3, NoMore
  <1>7. IsFiniteSet(C) /\ Cardinality(C) \in Nat /\ Cardinality(C) <= Cardinality(Pending(z, i)) + 0
    BY <1>1, <1>4, NoMore
  <1>8. dinode'[i].nlink >= dinode[i].nlink + (0 + 0 + 0) /\ 0 \in Int
    BY <1>1
  <1> QED BY <1>2, <1>3, <1>4, <1>5, <1>6, <1>7, <1>8, CoveredStep

\* What happens to an entry of the cache: nothing, but for its lock; p has a
\* reference and the entry holds what is on the disk; or iget() takes it.
SlotKept(s) ==
    /\ icache'[s].ref = icache[s].ref /\ icache'[s].inum = icache[s].inum
    /\ icache'[s].valid = icache[s].valid /\ icache'[s].type = icache[s].type
    /\ icache'[s].nlink = icache[s].nlink
    /\ icache[s].ref > 0 => dinode'[icache[s].inum] = dinode[icache[s].inum]
SlotMine(z, w, p, s) == RefCount(z, p, s) >= 1 /\ CoherentAt(w, s)'
SlotTaken(w, s) ==
    /\ icache[s].ref = 0 \/ dinode[icache[s].inum].nlink # 0 \/ dinode[icache[s].inum].type = "none"
    /\ CoherentAt(w, s)'

\* A step of the process that holds an inode's lock keeps the cached copies coherent.
LEMMA WriteSlots ==
    ASSUME NEW z, FsIInvOf(z), NEW w, NEW p \in FsProc, Moves(z, w, p), StepSlots, w[p].ph # "free",
           z[p].ph # "freed",
           \A s \in ISlot : SlotKept(s) \/ SlotMine(z, w, p, s) \/ SlotTaken(w, s)
    PROVE  Coherent(w)' /\ StepFreeing(z, w, p)
  <1>1. Coherent(w)'
    <2> SUFFICES ASSUME NEW s \in ISlot, icache'[s].ref > 0, icache'[s].valid,
                        \A q \in FsProc : ~(w[q].ph = "freed" /\ w[q].s = s)
                 PROVE  /\ dinode'[icache'[s].inum] = [type |-> icache'[s].type, nlink |-> icache'[s].nlink]
                        /\ icache'[s].type # "none"
      BY DEF Coherent
    <2>1. CASE SlotKept(s)
      <3>1. \A q \in FsProc : ~(z[q].ph = "freed" /\ z[q].s = s)
        BY DEF Moves
      <3> QED BY <2>1, <3>1 DEF SlotKept, FsIInvOf, Coherent
    <2>2. CASE CoherentAt(w, s)'
      BY <2>2 DEF CoherentAt
    <2> QED BY <2>1, <2>2 DEF SlotMine, SlotTaken
  <1>2. ASSUME NEW q \in FsProc \ {p}, z[q].ph = "free"
        PROVE  icache'[z[q].s].ref = 1 /\ dinode'[icache[z[q].s].inum].nlink = 0
    <2>1. /\ z[q].s \in ISlot /\ icache[z[q].s].ref = 1 /\ dinode[icache[z[q].s].inum].nlink = 0
          /\ RefCount(z, p, z[q].s) = 0
      BY <1>2, OthersFree
    <2>2. dinode[icache[z[q].s].inum].type # "none"
      BY <1>2, <2>1 DEF FsIInvOf, UsedAllocated, Uses
    <2>3. SlotKept(z[q].s)
      BY <2>1, <2>2 DEF SlotMine, SlotTaken
    <2> QED BY <2>1, <2>3 DEF SlotKept
  <1> QED BY <1>1, <1>2 DEF StepFreeing

\* Two entries in use are those of two inodes.
LEMMA TwoInodes ==
    ASSUME NEW z, FsIInvOf(z), NEW p \in FsProc, NEW q \in FsProc, NEW s \in ISlot, NEW t \in ISlot,
           RefCount(z, p, s) >= 1, RefCount(z, q, t) >= 1
    PROVE  /\ icache[s].inum \in Inum /\ icache[t].inum \in Inum
           /\ s # t => icache[s].inum # icache[t].inum
           /\ icache[s].ref > 0 /\ icache[t].ref > 0
  BY RefCounted DEF FsIInvOf, OneEntry

\* The directory in which a call is about to write is locked by it alone.
LEMMA OtherTargets ==
    ASSUME NEW z, FsIInvOf(z), NEW p \in FsProc, NEW x \in ISlot, Locks(z, p, x),
           NEW q \in FsProc \ {p}, z[q].b \in FillB \cup UnlinkB
    PROVE  /\ cur[q] \in ISlot /\ icache[cur[q]].inum \in Inum /\ icache[cur[q]].inum # icache[x].inum
  <1>1. cur[q] \in ISlot
    BY DEF FsIInvOf, Placed, PlaceOK
  <1>2. Locks(z, q, cur[q])
    BY DEF Locks, FillB, UnlinkB
  <1>3. icache[cur[q]].holder = q /\ icache[x].holder = p
    BY <1>1, <1>2, LockedFacts
  <1>4. RefCount(z, p, x) >= 1 /\ RefCount(z, q, cur[q]) >= 1
    BY <1>1, <1>2, UsesCounted
  <1>5. cur[q] # x
    BY <1>3
  <1> QED BY <1>1, <1>4, <1>5, TwoInodes

\* A write to another directory leaves the entries that calls have looked up.
LEMMA WriteTargets ==
    ASSUME NEW z, FsIInvOf(z), NEW w, NEW p \in FsProc, TargetFor(w, p)', NEW x \in ISlot, Locks(z, p, x),
           \A i \in Inum : i # icache[x].inum => dirent'[i] = dirent[i]
    PROVE  StepTargets(z, w, p)
  <1>1. ASSUME NEW q \in FsProc \ {p}, z[q].b \in FillB \cup UnlinkB
        PROVE  dirent'[icache[cur[q]].inum][Head(path[q])] = EntryOf(q)
    <2>1. icache[cur[q]].inum \in Inum /\ icache[cur[q]].inum # icache[x].inum
      BY <1>1, OtherTargets
    <2> QED BY <2>1 DEF EntryOf
  <1> QED BY <1>1 DEF StepTargets

\* An inode that another process has just allocated.
LEMMA FreshFacts ==
    ASSUME NEW z, FsIInvOf(z), NEW q \in FsProc, z[q].b \in FillB
    PROVE  /\ ip[q] \in ISlot /\ RefCount(z, q, ip[q]) >= 1 /\ icache[ip[q]].inum \in Inum
           /\ dinode[icache[ip[q]].inum].nlink = 0
           /\ \A r \in FsProc : HasCur(z, r) => cur[r] # ip[q]
           /\ \A r \in FsProc \ {q} : z[r].b \in FillB => ip[r] # ip[q]
           /\ \A r \in FsProc : Pend(z, r) => ip[r] # ip[q]
  <1>1. ip[q] \in ISlot
    BY DEF FsIInvOf, Placed, PlaceOK
  <1>2. Uses(z, q, ip[q])
    BY DEF Uses, HasIp
  <1>3. RefCount(z, q, ip[q]) >= 1 /\ icache[ip[q]].inum \in Inum
    BY <1>1, <1>2, UsesCounted, RefCounted DEF FsIInvOf, OneEntry
  <1>4. FreshFor(z, q)
    BY FreshTargets DEF FsIInvOf
  <1>5. ASSUME NEW r \in FsProc, Pend(z, r), ip[r] = ip[q] PROVE FALSE
    <2>1. r \in Pending(z, icache[ip[q]].inum)
      BY <1>5 DEF Pending
    <2>2. Pending(z, icache[ip[q]].inum) = {}
      BY <1>3, <1>4, LinkNumbers DEF FreshFor
    <2> QED BY <2>1, <2>2
  <1> QED BY <1>1, <1>3, <1>4, <1>5 DEF FreshFor

\* What a process has locked, and is not freeing, is what the disk holds.
LEMMA LockedCoherent ==
    ASSUME NEW z, FsIInvOf(z), NEW p \in FsProc, z[p].ph = "none", NEW s \in ISlot, Locks(z, p, s)
    PROVE  /\ dinode[icache[s].inum] = [type |-> icache[s].type, nlink |-> icache[s].nlink]
           /\ icache[s].type # "none" /\ icache[s].type \in {"file", "dir"} /\ icache[s].nlink \in Nat
           /\ icache[s].inum \in Inum /\ RefCount(z, p, s) >= 1 /\ icache[s].ref > 0
           /\ icache[s].holder = p
  <1>1. /\ icache[s].holder = p /\ icache[s].valid /\ icache[s].ref > 0 /\ icache[s].inum \in Inum
        /\ RefCount(z, p, s) >= 1
    BY LockedFacts, UsesCounted
  <1>2. ASSUME NEW q \in FsProc, z[q].ph = "freed", z[q].s = s PROVE FALSE
    <2>1. Locks(z, q, s)
      BY <1>2 DEF Locks
    <2> QED BY <1>1, <1>2, <2>1, LockedFacts
  <1>3. /\ dinode[icache[s].inum] = [type |-> icache[s].type, nlink |-> icache[s].nlink]
        /\ icache[s].type # "none"
    BY <1>1, <1>2 DEF FsIInvOf, Coherent
  <1>4. icache[s].type \in {"none", "file", "dir"} /\ icache[s].nlink \in Nat
    BY DEF FsIInvOf, FsTyped, IcacheType
  <1> QED BY <1>1, <1>3, <1>4

\* Pending links: those of other processes stay.
LEMMA PendingStep ==
    ASSUME NEW z, FsIInvOf(z), NEW w, NEW p \in FsProc, Moves(z, w, p), StepSlots, NEW i
    PROVE  /\ Pending(w, i)' \subseteq Pending(z, i) \cup {p}
           /\ (~Pend(w, p)' \/ icache'[ip'[p]].inum # i) => Pending(w, i)' \subseteq Pending(z, i) \ {p}
  <1>1. \A q \in FsProc \ {p} : q \in Pending(w, i)' <=> q \in Pending(z, i)
    BY PendKept
  <1>2. Pending(w, i)' \subseteq FsProc
    BY DEF Pending
  <1>3. p \in Pending(w, i)' => Pend(w, p)' /\ icache'[ip'[p]].inum = i
    BY DEF Pending
  <1> QED BY <1>1, <1>2, <1>3

\* The subdirectories of a directory in which nothing is written.
LEMMA SubdirsSame ==
    ASSUME NEW z, FsIInvOf(z), NEW i \in Inum, dirent'[i] = dirent[i],
           \A j \in Inum : dinode'[j].type = dinode[j].type
    PROVE  Subdirs(i)' = Subdirs(i)
  <1>1. \A n \in FsName : dirent[i][n] # NoInum => dirent[i][n] \in Inum
    BY DEF FsIInvOf, FsTyped
  <1> QED BY <1>1 DEF Subdirs

\* Links of inodes may change in the cache, and entry y is unlocked.
CacheWritten(y) ==
    /\ icache' \in IcacheType
    /\ \A s \in ISlot :
          /\ icache'[s].inum = icache[s].inum /\ icache'[s].ref = icache[s].ref
          /\ icache'[s].valid = icache[s].valid /\ icache'[s].type = icache[s].type
          /\ icache'[s].holder = IF s = y THEN NoFsProc ELSE icache[s].holder

\* A step that changes nobody's references keeps the counts exact.
LEMMA RefsSame ==
    ASSUME NEW z, FsIInvOf(z), NEW w, NEW p, \A s \in ISlot : icache'[s].ref = icache[s].ref,
           \A s \in ISlot : RefCount(w, p, s)' = RefCount(z, p, s)
    PROVE  StepRefs(z, w, p)
  <1>1. \A s \in ISlot : RefCount(z, p, s) \in 0..5 /\ icache[s].ref \in Nat
    BY RefCountNat DEF FsIInvOf, FsTyped, IcacheType
  <1> QED BY <1>1 DEF StepRefs

\* A step that writes the directory and the inodes that p has locked.
LEMMA WriteStep ==
    ASSUME NEW z, FsIInvOf(z), NEW p \in FsProc, NEW g \in FsGhost, NEW w, w = [z EXCEPT ![p] = g],
           z[p].ph = "none", g.ph \in {"none", "put"}, g.b \notin FillB \cup UnlinkB \cup WalkB,
           UNCHANGED <<regVars, fd>>, StepPlaces(w, p),
           NEW y \in ISlot, CacheWritten(y), icache[y].holder = p,
           \A s \in ISlot : Locks(w, p, s)' <=> Locks(z, p, s) /\ s # y,
           \A s \in ISlot : RefCount(w, p, s)' = RefCount(z, p, s),
           \A s \in ISlot : Uses(w, p, s)' => Uses(z, p, s),
           dinode' \in [Inum -> [type : {"none", "file", "dir"}, nlink : Nat]],
           \A i \in Inum : dinode'[i].type = dinode[i].type,
           \A i \in Inum : dinode'[i].type = "none" => dinode'[i] = dinode[i],
           dirent' \in [Inum -> [FsName -> Inum \cup {NoInum}]],
           NEW x \in ISlot, Locks(z, p, x), \A i \in Inum : i # icache[x].inum => dirent'[i] = dirent[i],
           \A s \in ISlot : SlotKept(s) \/ SlotMine(z, w, p, s),
           \A q \in FsProc \ {p} : z[q].b \in FillB => dinode'[icache[ip[q]].inum].nlink = 0,
           LinksCover(w)'
    PROVE  FsIInvOf(w)'
  <1>1. /\ w[p] = g /\ w \in [FsProc -> FsGhost] /\ \A q \in FsProc \ {p} : w[q] = z[q]
    BY DEF FsIInvOf
  <1>2. /\ call' = call /\ path' = path /\ path2' = path2 /\ cur' = cur /\ ip' = ip /\ fd' = fd
    BY DEF regVars
  <1>3. Moves(z, w, p)
    BY <1>1, <1>2 DEF Moves
  <1>4. \A s \in ISlot : /\ icache'[s].inum = icache[s].inum /\ icache'[s].ref = icache[s].ref
                         /\ icache'[s].valid = icache[s].valid
                         /\ icache'[s].holder = IF s = y THEN NoFsProc ELSE icache[s].holder
    BY DEF CacheWritten
  <1>5. StepSlots
    BY <1>4 DEF StepSlots
  <1>6. StepHolders(z, w, p)
    <2>1. \A s \in ISlot : icache[s].holder # NoFsProc => icache[s].valid
      BY DEF FsIInvOf, HoldersOK
    <2> QED BY <1>4, <2>1 DEF StepHolders
  <1>7. StepRefs(z, w, p)
    <2>1. \A s \in ISlot : icache'[s].ref = icache[s].ref
      BY <1>4
    <2> QED BY <2>1, RefsSame
  <1>8. Coherent(w)' /\ StepFreeing(z, w, p)
    <2>1. w[p].ph # "free" /\ z[p].ph # "freed"
      BY <1>1
    <2>2. \A s \in ISlot : SlotKept(s) \/ SlotMine(z, w, p, s) \/ SlotTaken(w, s)
      OBVIOUS
    <2> QED BY <1>3, <1>5, <2>1, <2>2, WriteSlots
  <1>9. StepUses(z, w, p)
    <2>1. \A q \in FsProc, s \in ISlot : Uses(z, q, s) => icache[s].inum \in Inum /\ dinode[icache[s].inum].type # "none"
      <3>1. ASSUME NEW q \in FsProc, NEW s \in ISlot, Uses(z, q, s)
            PROVE  icache[s].inum \in Inum /\ dinode[icache[s].inum].type # "none"
        BY <3>1, UsesCounted, RefCounted DEF FsIInvOf, OneEntry, UsedAllocated
      <3> QED BY <3>1
    <2>2. ASSUME NEW s \in ISlot, Uses(w, p, s)' PROVE dinode'[icache'[s].inum].type # "none"
      BY <1>4, <2>1, <2>2
    <2> QED BY <2>1, <2>2 DEF StepUses
  <1>10. FreeUnlinked'
    BY DEF FsIInvOf, FreeUnlinked
  <1>11. StepFresh(z, w, p)
    <2>1. ~HasCur(w, p)' /\ w[p].b \notin FillB
      BY <1>1 DEF HasCur
    <2> QED BY <2>1 DEF StepFresh
  <1>12. StepTargets(z, w, p)
    <2>1. TargetFor(w, p)'
      BY <1>1 DEF TargetFor, UnlinkB
    <2> QED BY <2>1, WriteTargets
  <1>13. FsTyped'
    BY <1>2 DEF FsIInvOf, FsTyped, CacheWritten
  <1> QED BY <1>3, <1>5, <1>6, <1>7, <1>8, <1>9, <1>10, <1>11, <1>12, <1>13, KeepsInv

\* A link less for the inode of ip: its pending link goes with it.
LEMMA DropLinkKeeps ==
    ASSUME NEW z, FsIInvOf(z), NEW p \in FsProc, NEW o \in {"unlinkip", "linkbad"}, DropLink(p, o)
    PROVE  FsIInv'
  <1>1. z[p].ph = "none" /\ z[p].b = o /\ Tail(k[p]) = <<>>
    BY AtPlace DEF DropLink
  <1>2. FsTyped /\ PlaceOK(z[p], p) /\ icache \in IcacheType /\ call[p] \in FsCall
    BY DEF FsIInvOf, Placed, FsTyped
  <1>3. PICK x : x = ip[p]
    OBVIOUS
  <1>4. x \in ISlot /\ Locks(z, p, x) /\ Pend(z, p)
    BY <1>1, <1>2, <1>3 DEF PlaceOK, Locks, Pend, BadB
  <1>5. /\ dinode[icache[x].inum] = [type |-> icache[x].type, nlink |-> icache[x].nlink]
        /\ icache[x].type # "none" /\ icache[x].type \in {"file", "dir"} /\ icache[x].nlink \in Nat
        /\ icache[x].inum \in Inum /\ RefCount(z, p, x) >= 1 /\ icache[x].ref > 0
        /\ icache[x].holder = p
    BY <1>1, <1>4, LockedCoherent
  <1>6. PICK i : i = icache[x].inum
    OBVIOUS
  <1>7. PICK n : n = icache[x].nlink - 1
    OBVIOUS
  <1>8. p \in Pending(z, i) /\ icache[x].nlink >= 1 /\ n \in Nat
    <2>1. p \in Pending(z, i)
      BY <1>3, <1>4, <1>6 DEF Pending
    <2>2. dinode[i].nlink # 0
      BY <1>5, <1>6, <2>1, LinkNumbers
    <2> QED BY <1>5, <1>6, <1>7, <2>1, <2>2
  <1>9. PICK c : c = [icache EXCEPT ![x].nlink = @ - 1]
    OBVIOUS
  <1>10. /\ icache' = iunlock(c, x) /\ dinode' = iupdate(dinode, c, x)
         /\ Then(p, <<put(x)>>) /\ UNCHANGED <<dirent, regVars, fd>>
    BY <1>3, <1>9 DEF DropLink
  <1>11. /\ c \in IcacheType /\ c[x].nlink = n /\ c[x].type = icache[x].type /\ c[x].inum = i
         /\ c[x].ref = icache[x].ref /\ c[x].valid = icache[x].valid /\ c[x].holder = icache[x].holder
         /\ \A s \in ISlot : s # x => c[s] = icache[s]
    <2>1. icache[x].nlink - 1 \in Nat
      BY <1>7, <1>8
    <2> QED BY <1>2, <1>4, <1>6, <1>7, <1>9, <2>1 DEF IcacheType
  <1>12. CacheWritten(x) /\ icache'[x].nlink = n /\ \A s \in ISlot \ {x} : icache'[s].nlink = icache[s].nlink
    BY <1>4, <1>6, <1>10, <1>11, IunlockFields DEF CacheWritten
  <1>13. /\ dinode' = [dinode EXCEPT ![i] = [type |-> icache[x].type, nlink |-> n]]
         /\ dinode'[i] = [type |-> icache[x].type, nlink |-> n]
         /\ \A j \in Inum \ {i} : dinode'[j] = dinode[j]
         /\ dinode' \in [Inum -> [type : {"none", "file", "dir"}, nlink : Nat]]
    <2>1. dinode' = [dinode EXCEPT ![i] = [type |-> icache[x].type, nlink |-> n]]
      BY <1>10, <1>11 DEF iupdate
    <2>2. [type |-> icache[x].type, nlink |-> n] \in [type : {"none", "file", "dir"}, nlink : Nat]
      BY <1>5, <1>8
    <2> QED BY <1>2, <1>5, <1>6, <2>1, <2>2 DEF FsTyped
  <1>14. PICK g : g = [ph |-> "put", s |-> x, b |-> "idle", t |-> 0]
    OBVIOUS
  <1>15. g \in FsGhost /\ g.ph = "put" /\ g.s = x /\ g.b = "idle" /\ g.t = 0
    BY <1>4, <1>14 DEF FsGhost, PutPhase, FsPlace, ISlot
  <1>16. PICK w : w = [z EXCEPT ![p] = g]
    OBVIOUS
  <1>17. w[p] = g /\ w \in [FsProc -> FsGhost] /\ \A q \in FsProc \ {p} : w[q] = z[q]
    BY <1>15, <1>16 DEF FsIInvOf
  <1>18. UNCHANGED <<dirent, call, path, path2, cur, ip, fd>>
    BY <1>10 DEF regVars
  <1>19. StepPlaces(w, p)
    <2>1. k' = [k EXCEPT ![p] = Prefix(g) \o Rest(g, call[p])]
      <3>1. Prefix(g) = <<put(x)>> /\ Rest(g, call[p]) = <<>>
        BY <1>15 DEF Prefix, Rest
      <3> QED BY <1>1, <1>10, <3>1 DEF Then
    <2>2. PlaceOK(w[p], p)'
      BY <1>4, <1>15, <1>17, <1>18 DEF PlaceOK, WantsParent, WalkB, FillB, UnlinkB, BadB, PutB, ExistB
    <2> QED BY <1>17, <1>18, <2>1, <2>2 DEF StepPlaces
  <1>20. \A s \in ISlot : Locks(w, p, s)' <=> Locks(z, p, s) /\ s # x
    BY <1>1, <1>3, <1>15, <1>17, <1>18 DEF Locks
  <1>21. \A s \in ISlot : RefCount(w, p, s)' = RefCount(z, p, s)
    BY <1>1, <1>3, <1>4, <1>15, <1>17, <1>18
       DEF RefCount, One, HasCur, HasIp, HasPut, HasLast, WalkB, FillB, UnlinkB, BadB, PutB, ExistB
  <1>22. \A s \in ISlot : Uses(w, p, s)' => Uses(z, p, s)
    BY <1>1, <1>3, <1>15, <1>17, <1>18
       DEF Uses, HasCur, HasIp, HasLast, WalkB, FillB, UnlinkB, BadB, PutB, ExistB
  <1>23. \A j \in Inum : dinode'[j].type = dinode[j].type /\ (dinode'[j].type = "none" => dinode'[j] = dinode[j])
    BY <1>5, <1>6, <1>13
  <1>24. Moves(z, w, p) /\ StepSlots
    BY <1>12, <1>17, <1>18 DEF Moves, StepSlots, CacheWritten
  <1>25. \A s \in ISlot : SlotKept(s) \/ SlotMine(z, w, p, s)
    <2> SUFFICES ASSUME NEW s \in ISlot PROVE SlotKept(s) \/ SlotMine(z, w, p, s)
      OBVIOUS
    <2>1. CASE s = x
      <3>1. CoherentAt(w, x)'
        BY <1>4, <1>5, <1>6, <1>12, <1>13 DEF CoherentAt, CacheWritten
      <3> QED BY <1>5, <2>1, <3>1 DEF SlotMine
    <2>2. CASE s # x
      <3>1. icache[s].ref > 0 => icache[s].inum \in Inum /\ icache[s].inum # i
        BY <1>4, <1>5, <1>6, <2>2 DEF FsIInvOf, OneEntry
      <3> QED BY <1>12, <1>13, <2>2, <3>1 DEF SlotKept, CacheWritten
    <2> QED BY <2>1, <2>2
  <1>26. ASSUME NEW q \in FsProc \ {p}, z[q].b \in FillB PROVE dinode'[icache[ip[q]].inum].nlink = 0
    <2>1. /\ ip[q] \in ISlot /\ RefCount(z, q, ip[q]) >= 1 /\ icache[ip[q]].inum \in Inum
          /\ dinode[icache[ip[q]].inum].nlink = 0 /\ ip[p] # ip[q]
      BY <1>4, <1>26, FreshFacts
    <2>2. icache[ip[q]].inum # i
      BY <1>3, <1>4, <1>5, <1>6, <2>1, TwoInodes
    <2> QED BY <1>13, <2>1, <2>2
  <1>27. LinksCover(w)'
    <2>0. ~Pend(w, p)'
      BY <1>15, <1>17 DEF Pend, BadB, WalkB
    <2> SUFFICES ASSUME NEW j \in Inum PROVE Covered(w, j)'
      BY DEF LinksCover, Covered
    <2>1. Pending(w, j)' \subseteq Pending(z, j) \ {p}
      BY <1>24, <2>0, PendingStep
    <2>2. Parents(j)' = Parents(j) /\ Subdirs(j)' = Subdirs(j)
      <3>1. dirent'[j] = dirent[j] /\ \A h \in Inum : dinode'[h].type = dinode[h].type
        BY <1>18, <1>23
      <3> QED BY <1>18, <3>1, SubdirsSame DEF Parents
    <2>3. dinode'[j].nlink \in Nat
      BY <1>13
    <2>4. CASE j # i
      BY <1>13, <2>1, <2>2, <2>3, <2>4, CoveredLess
    <2>5. CASE j = i
      <3>1. PICK B : B = Pending(w, i)'
        OBVIOUS
      <3>2. /\ IsFiniteSet(Parents(i)) /\ IsFiniteSet(Subdirs(i)) /\ IsFiniteSet(Pending(z, i))
            /\ Cardinality(Parents(i)) \in Nat /\ Cardinality(Subdirs(i)) \in Nat
            /\ Cardinality(Pending(z, i)) \in Nat
        BY <2>5, LinkNumbers
      <3>3. IsFiniteSet(B) /\ Cardinality(B) \in Nat /\ Cardinality(B) <= Cardinality(Pending(z, i)) - 1
        BY <1>8, <2>1, <2>5, <3>1, <3>2, OneLess
      <3>4. dinode'[i].nlink >= dinode[i].nlink + (0 + 0 + (-1))
        BY <1>5, <1>6, <1>7, <1>13
      <3>5. /\ Cardinality(Parents(i)') <= Cardinality(Parents(i)) + 0
            /\ Cardinality(Subdirs(i)') <= Cardinality(Subdirs(i)) + 0
            /\ Cardinality(B) <= Cardinality(Pending(z, i)) + (-1)
        BY <2>2, <2>5, <3>2, <3>3
      <3>6. 0 \in Int /\ -1 \in Int
        OBVIOUS
      <3> QED BY <2>2, <2>3, <2>5, <3>1, <3>2, <3>3, <3>4, <3>5, <3>6, CoveredStep
    <2> QED BY <2>4, <2>5
  <1>28. FsIInvOf(w)'
    <2>1. g.ph \in {"none", "put"} /\ g.b \notin FillB \cup UnlinkB \cup WalkB
      BY <1>15 DEF FillB, UnlinkB, WalkB
    <2>2. dirent' \in [Inum -> [FsName -> Inum \cup {NoInum}]]
      BY <1>2, <1>18 DEF FsTyped
    <2>3. \A j \in Inum : j # icache[x].inum => dirent'[j] = dirent[j]
      BY <1>18
    <2>4. \A q \in FsProc \ {p} : z[q].b \in FillB => dinode'[icache[ip[q]].inum].nlink = 0
      BY <1>26
    <2>5. /\ \A j \in Inum : dinode'[j].type = dinode[j].type
          /\ \A j \in Inum : dinode'[j].type = "none" => dinode'[j] = dinode[j]
      BY <1>23
    <2> QED BY <1>1, <1>4, <1>5, <1>10, <1>12, <1>13, <1>15, <1>16, <1>19, <1>20, <1>21, <1>22, <1>25,
               <1>27, <2>1, <2>2, <2>3, <2>4, <2>5, WriteStep
  <1> QED BY <1>28 DEF FsIInv

\* An entry is written: the entries that lead to inode j, and the subdirectories of j.
LEMMA EntryWritten ==
    ASSUME NEW z, FsIInvOf(z), NEW d \in Inum, NEW n \in FsName, NEW i \in Inum \cup {NoInum},
           dirent' = [dirent EXCEPT ![d][n] = i], \A j \in Inum : dinode'[j].type = dinode[j].type
    PROVE  /\ dirent' \in [Inum -> [FsName -> Inum \cup {NoInum}]]
           /\ \A j \in Inum : j # d => dirent'[j] = dirent[j]
           /\ \A j \in Inum : Parents(j)' \subseteq Parents(j) \cup {<<d, n>>}
           /\ \A j \in Inum : j # i => Parents(j)' \subseteq Parents(j) \ {<<d, n>>}
           /\ \A j \in Inum : j # d => Subdirs(j)' = Subdirs(j)
           /\ Subdirs(d)' \subseteq Subdirs(d) \cup {n}
           /\ i = NoInum \/ dinode[i].type # "dir" => Subdirs(d)' \subseteq Subdirs(d) \ {n}
  <1>1. dirent \in [Inum -> [FsName -> Inum \cup {NoInum}]]
    BY DEF FsIInvOf, FsTyped
  <1>2. /\ \A j \in Inum : j # d => dirent'[j] = dirent[j]
        /\ \A m \in FsName : dirent'[d][m] = IF m = n THEN i ELSE dirent[d][m]
    BY <1>1
  <1>3. dirent' \in [Inum -> [FsName -> Inum \cup {NoInum}]]
    BY <1>1
  <1>4. \A j \in Inum, m \in FsName : dirent'[j][m] = IF j = d /\ m = n THEN i ELSE dirent[j][m]
    BY <1>2
  <1>5. ASSUME NEW j \in Inum
        PROVE  /\ Parents(j)' \subseteq Parents(j) \cup {<<d, n>>}
               /\ j # i => Parents(j)' \subseteq Parents(j) \ {<<d, n>>}
    <2>1. ASSUME NEW e \in Parents(j)'
          PROVE  /\ e \in Parents(j) \cup {<<d, n>>}
                 /\ j # i => e \in Parents(j) \ {<<d, n>>}
      <3>1. PICK a \in Inum, m \in FsName : e = <<a, m>> /\ dirent'[a][m] = j
        BY <2>1 DEF Parents
      <3>2. CASE a = d /\ m = n
        BY <1>4, <3>1, <3>2
      <3>3. CASE ~(a = d /\ m = n)
        <4>1. dirent[a][m] = j
          BY <1>4, <3>1, <3>3
        <4> QED BY <3>1, <3>3, <4>1 DEF Parents
      <3> QED BY <3>2, <3>3
    <2> QED BY <2>1
  <1>6. ASSUME NEW j \in Inum, j # d PROVE Subdirs(j)' = Subdirs(j)
    <2>1. dirent'[j] = dirent[j]
      BY <1>2, <1>6
    <2> QED BY <2>1, SubdirsSame
  <1>7. /\ Subdirs(d)' \subseteq Subdirs(d) \cup {n}
        /\ i = NoInum \/ dinode[i].type # "dir" => Subdirs(d)' \subseteq Subdirs(d) \ {n}
    <2>1. ASSUME NEW m \in Subdirs(d)'
          PROVE  /\ m \in Subdirs(d) \cup {n}
                 /\ i = NoInum \/ dinode[i].type # "dir" => m \in Subdirs(d) \ {n}
      <3>1. m \in FsName /\ dirent'[d][m] # NoInum /\ dinode'[dirent'[d][m]].type = "dir"
        BY <2>1 DEF Subdirs
      <3>2. CASE m = n
        <4>1. i # NoInum /\ dinode'[i].type = "dir"
          BY <1>2, <3>1, <3>2
        <4> QED BY <3>2, <4>1
      <3>3. CASE m # n
        <4>1. dirent'[d][m] = dirent[d][m] /\ dirent[d][m] \in Inum \cup {NoInum}
          BY <1>1, <1>2, <3>1, <3>3
        <4>2. dinode[dirent[d][m]].type = "dir" /\ dirent[d][m] # NoInum
          BY <3>1, <4>1
        <4> QED BY <3>1, <3>3, <4>2 DEF Subdirs
      <3> QED BY <3>2, <3>3
    <2> QED BY <2>1
  <1> QED BY <1>2, <1>3, <1>5, <1>6, <1>7

\* dirlink() in link(): the link that was counted before is written.
LEMMA LinkNewKeeps ==
    ASSUME NEW z, FsIInvOf(z), NEW p \in FsProc, LinkNew(p)
    PROVE  FsIInv'
  <1>1. z[p].ph = "none" /\ z[p].b = "op" /\ Tail(k[p]) = <<>> /\ call[p] = "linknew"
    BY AtOp DEF LinkNew
  <1>2. FsTyped /\ PlaceOK(z[p], p) /\ icache \in IcacheType /\ call[p] \in FsCall
    BY DEF FsIInvOf, Placed, FsTyped
  <1>3. HasCur(z, p) /\ path[p] # <<>> /\ cur[p] \in ISlot /\ ip[p] \in ISlot /\ Pend(z, p) /\ HasIp(z, p)
    BY <1>1, <1>2 DEF HasCur, HasIp, PlaceOK, Pend, WalkB, WantsParent
  <1>4. PICK x : x = cur[p]
    OBVIOUS
  <1>5. PICK y : y = ip[p]
    OBVIOUS
  <1>6. PICK n : n = Head(path[p])
    OBVIOUS
  <1>7. PICK d : d = icache[x].inum
    OBVIOUS
  <1>8. PICK i : i = icache[y].inum
    OBVIOUS
  <1>9. x \in ISlot /\ y \in ISlot /\ n \in FsName /\ d \in Inum /\ Locks(z, p, x)
    BY <1>1, <1>3, <1>4, <1>5, <1>6, <1>7, EntryInode DEF Locks
  <1>10. i \in Inum /\ dinode[i].type # "dir" /\ p \in Pending(z, i) /\ Uses(z, p, y)
    <2>1. i \in Inum
      BY <1>3, <1>5, <1>8, PendUses
    <2>2. dinode[i].type # "dir"
      BY <1>1, <1>5, <1>8 DEF FsIInvOf, TargetsOK, WalkB
    <2> QED BY <1>3, <1>5, <1>8, <2>1, <2>2 DEF Pending, Uses
  <1>11. icache[x].holder = p
    BY <1>9, LockedFacts
  <1>12. /\ icache' = iunlock(icache, x) /\ dirent' = [dirent EXCEPT ![d][n] = i]
         /\ Then(p, <<put(x), put(y)>>) /\ UNCHANGED <<dinode, regVars, fd>>
    BY <1>4, <1>5, <1>6, <1>7, <1>8 DEF LinkNew
  <1>13. CacheWritten(x) /\ \A s \in ISlot : icache'[s].nlink = icache[s].nlink
    BY <1>2, <1>9, <1>12, IunlockFields DEF CacheWritten
  <1>14. PICK g : g = [ph |-> "put", s |-> x, b |-> "put", t |-> y]
    OBVIOUS
  <1>15. g \in FsGhost /\ g.ph = "put" /\ g.s = x /\ g.b = "put" /\ g.t = y
    BY <1>9, <1>14 DEF FsGhost, PutPhase, FsPlace, PutB, ISlot
  <1>16. PICK w : w = [z EXCEPT ![p] = g]
    OBVIOUS
  <1>17. w[p] = g /\ w \in [FsProc -> FsGhost] /\ \A q \in FsProc \ {p} : w[q] = z[q]
    BY <1>15, <1>16 DEF FsIInvOf
  <1>18. UNCHANGED <<dinode, call, path, path2, cur, ip, fd>>
    BY <1>12 DEF regVars
  <1>19. StepPlaces(w, p)
    <2>1. k' = [k EXCEPT ![p] = Prefix(g) \o Rest(g, call[p])]
      <3>1. Prefix(g) = <<put(x)>> /\ Rest(g, call[p]) = <<put(y)>>
        BY <1>15 DEF Prefix, Rest
      <3>2. k' = [k EXCEPT ![p] = <<put(x), put(y)>> \o <<>>]
        BY <1>1, <1>12 DEF Then
      <3>3. put(x) \in FsOp /\ put(y) \in FsOp
        BY <1>9 DEF FsOp, FsOpName, put, ISlot
      <3>4. <<put(x)>> \o <<put(y)>> = <<put(x), put(y)>> \o <<>>
        BY <3>3, OpLists
      <3> QED BY <3>1, <3>2, <3>4
    <2>2. PlaceOK(w[p], p)'
      BY <1>1, <1>9, <1>15, <1>17, <1>18 DEF PlaceOK, WantsParent, WalkB, FillB, UnlinkB, BadB, PutB, ExistB
    <2> QED BY <1>17, <1>18, <2>1, <2>2 DEF StepPlaces
  <1>20. \A s \in ISlot : Locks(w, p, s)' <=> Locks(z, p, s) /\ s # x
    BY <1>1, <1>4, <1>15, <1>17, <1>18 DEF Locks
  <1>21. \A s \in ISlot : RefCount(w, p, s)' = RefCount(z, p, s)
    BY <1>1, <1>4, <1>5, <1>15, <1>17, <1>18
       DEF RefCount, One, HasCur, HasIp, HasPut, HasLast, WalkB, FillB, UnlinkB, BadB, PutB, ExistB
  <1>22. \A s \in ISlot : Uses(w, p, s)' => Uses(z, p, s)
    BY <1>1, <1>4, <1>5, <1>15, <1>17, <1>18
       DEF Uses, HasCur, HasIp, HasLast, WalkB, FillB, UnlinkB, BadB, PutB, ExistB
  <1>23. /\ \A j \in Inum : dinode'[j].type = dinode[j].type
         /\ \A j \in Inum : dinode'[j].type = "none" => dinode'[j] = dinode[j]
    BY <1>18
  <1>24. Moves(z, w, p) /\ StepSlots
    BY <1>13, <1>17, <1>18 DEF Moves, StepSlots, CacheWritten
  <1>25. \A s \in ISlot : SlotKept(s) \/ SlotMine(z, w, p, s)
    BY <1>13, <1>18 DEF SlotKept, CacheWritten
  <1>26. ASSUME NEW q \in FsProc \ {p}, z[q].b \in FillB PROVE dinode'[icache[ip[q]].inum].nlink = 0
    BY <1>18, <1>26, FreshFacts
  <1>27. /\ dirent' \in [Inum -> [FsName -> Inum \cup {NoInum}]]
         /\ \A j \in Inum : j # d => dirent'[j] = dirent[j]
         /\ \A j \in Inum : Parents(j)' \subseteq Parents(j) \cup {<<d, n>>}
         /\ \A j \in Inum : j # i => Parents(j)' \subseteq Parents(j) \ {<<d, n>>}
         /\ \A j \in Inum : j # d => Subdirs(j)' = Subdirs(j)
         /\ i = NoInum \/ dinode[i].type # "dir" => Subdirs(d)' \subseteq Subdirs(d) \ {n}
    BY <1>9, <1>10, <1>12, <1>23, EntryWritten
  <1>28. LinksCover(w)'
    <2>0. ~Pend(w, p)'
      BY <1>15, <1>17 DEF Pend, BadB, WalkB
    <2> SUFFICES ASSUME NEW j \in Inum PROVE Covered(w, j)'
      BY DEF LinksCover, Covered
    <2>1. Pending(w, j)' \subseteq Pending(z, j) \ {p}
      BY <1>24, <2>0, PendingStep
    <2>2. Subdirs(j)' \subseteq Subdirs(j)
      BY <1>10, <1>27
    <2>3. dinode'[j].nlink = dinode[j].nlink /\ dinode[j].nlink \in Nat
      BY <1>18, LinkNumbers
    <2>4. CASE j # i
      <3>1. Parents(j)' \subseteq Parents(j)
        BY <1>27, <2>4
      <3> QED BY <2>1, <2>2, <2>3, <3>1, CoveredLess
    <2>5. CASE j = i
      <3>1. PICK B : B = Pending(w, i)'
        OBVIOUS
      <3>p. PICK A : A = Parents(i)'
        OBVIOUS
      <3>s. PICK S : S = Subdirs(i)'
        OBVIOUS
      <3>2. /\ IsFiniteSet(Parents(i)) /\ IsFiniteSet(Subdirs(i)) /\ IsFiniteSet(Pending(z, i))
            /\ Cardinality(Parents(i)) \in Nat /\ Cardinality(Subdirs(i)) \in Nat
            /\ Cardinality(Pending(z, i)) \in Nat
        BY <2>5, LinkNumbers
      <3>3. IsFiniteSet(B) /\ Cardinality(B) \in Nat /\ Cardinality(B) <= Cardinality(Pending(z, i)) - 1
        BY <1>10, <2>1, <2>5, <3>1, <3>2, OneLess
      <3>4. IsFiniteSet(A) /\ Cardinality(A) \in Nat /\ Cardinality(A) <= Cardinality(Parents(i)) + 1
        BY <1>10, <1>27, <3>p, <3>2, OneMore
      <3>5. IsFiniteSet(S) /\ Cardinality(S) \in Nat /\ Cardinality(S) <= Cardinality(Subdirs(i)) + 0
        BY <2>2, <2>5, <3>s, <3>2, NoMore
      <3>6. dinode'[i].nlink >= dinode[i].nlink + (1 + 0 + (-1)) /\ dinode'[i].nlink \in Nat
        BY <2>3, <2>5
      <3>7. Cardinality(B) <= Cardinality(Pending(z, i)) + (-1)
        BY <3>2, <3>3
      <3>8. 0 \in Int /\ -1 \in Int /\ 1 \in Int
        OBVIOUS
      <3> QED BY <2>5, <3>1, <3>p, <3>s, <3>3, <3>4, <3>5, <3>6, <3>7, <3>8, CoveredStep
    <2> QED BY <2>4, <2>5
  <1>29. FsIInvOf(w)'
    <2>1. g.ph \in {"none", "put"} /\ g.b \notin FillB \cup UnlinkB \cup WalkB
      BY <1>15 DEF FillB, UnlinkB, WalkB
    <2>2. dinode' \in [Inum -> [type : {"none", "file", "dir"}, nlink : Nat]]
      BY <1>2, <1>18 DEF FsTyped
    <2>3. \A j \in Inum : j # icache[x].inum => dirent'[j] = dirent[j]
      BY <1>7, <1>27
    <2>4. \A q \in FsProc \ {p} : z[q].b \in FillB => dinode'[icache[ip[q]].inum].nlink = 0
      BY <1>26
    <2> QED BY <1>1, <1>9, <1>11, <1>12, <1>13, <1>15, <1>16, <1>19, <1>20, <1>21, <1>22, <1>23, <1>25,
               <1>27, <1>28, <2>1, <2>2, <2>3, <2>4, WriteStep
  <1> QED BY <1>29 DEF FsIInv

\* unlink() clears the entry; the link of its inode is pending from now on.
LEMMA UnlinkEraseKeeps ==
    ASSUME NEW z, FsIInvOf(z), NEW p \in FsProc, UnlinkErase(p)
    PROVE  FsIInv'
  <1>1. z[p].ph = "none" /\ z[p].b = "unlinked" /\ Tail(k[p]) = <<>>
    BY AtPlace DEF UnlinkErase
  <1>2. FsTyped /\ PlaceOK(z[p], p) /\ icache \in IcacheType /\ call[p] \in FsCall
    BY DEF FsIInvOf, Placed, FsTyped
  <1>3. /\ HasCur(z, p) /\ path[p] # <<>> /\ cur[p] \in ISlot /\ ip[p] \in ISlot /\ HasIp(z, p)
        /\ ~Pend(z, p)
    BY <1>1, <1>2 DEF HasCur, HasIp, PlaceOK, Pend, UnlinkB, WalkB, BadB
  <1>4. PICK x : x = cur[p]
    OBVIOUS
  <1>5. PICK y : y = ip[p]
    OBVIOUS
  <1>6. PICK n : n = Head(path[p])
    OBVIOUS
  <1>7. PICK d : d = icache[x].inum
    OBVIOUS
  <1>8. PICK i : i = icache[y].inum
    OBVIOUS
  <1>9. x \in ISlot /\ y \in ISlot /\ n \in FsName /\ Locks(z, p, x) /\ Locks(z, p, y)
    BY <1>1, <1>3, <1>4, <1>5, <1>6, EntryInode DEF Locks
  <1>10. x # y /\ dirent[d][n] = i
    BY <1>1, <1>4, <1>5, <1>6, <1>7, <1>8 DEF FsIInvOf, TargetsOK, UnlinkB, EntryOf
  <1>11. /\ dinode[d] = [type |-> icache[x].type, nlink |-> icache[x].nlink]
         /\ icache[x].type # "none" /\ icache[x].type \in {"file", "dir"} /\ icache[x].nlink \in Nat
         /\ d \in Inum /\ RefCount(z, p, x) >= 1 /\ icache[x].ref > 0 /\ icache[x].holder = p
    BY <1>1, <1>7, <1>9, LockedCoherent
  <1>12. /\ dinode[i] = [type |-> icache[y].type, nlink |-> icache[y].nlink]
         /\ i \in Inum /\ RefCount(z, p, y) >= 1 /\ icache[y].ref > 0
    BY <1>1, <1>8, <1>9, LockedCoherent
  <1>13. d # i
    BY <1>7, <1>8, <1>9, <1>10, <1>11, <1>12, TwoInodes
  <1>14. /\ <<d, n>> \in Parents(i)
         /\ icache[y].type = "dir" => n \in Subdirs(d)
    BY <1>9, <1>10, <1>11, <1>12 DEF Parents, Subdirs, NoInum, Inum
  <1>15. PICK m : m = IF icache[y].type = "dir" THEN icache[x].nlink - 1 ELSE icache[x].nlink
    OBVIOUS
  <1>16. m \in Nat /\ icache[x].nlink \in Nat
    <2>1. ASSUME icache[y].type = "dir" PROVE icache[x].nlink - 1 \in Nat
      <3>1. dinode[d].nlink # 0
        BY <1>11, <1>14, <2>1, LinkNumbers
      <3> QED BY <1>11, <3>1
    <2> QED BY <1>11, <1>15, <2>1
  <1>17. PICK c : c = [icache EXCEPT ![x].nlink = IF icache[y].type = "dir" THEN @ - 1 ELSE @]
    OBVIOUS
  <1>18. /\ icache' = iunlock(c, x) /\ dinode' = iupdate(dinode, c, x)
         /\ dirent' = [dirent EXCEPT ![d][n] = NoInum]
         /\ Then(p, <<put(x), <<"unlinkip", 0>> >>) /\ UNCHANGED <<regVars, fd>>
    BY <1>4, <1>5, <1>6, <1>7, <1>17 DEF UnlinkErase
  <1>19. /\ c \in IcacheType /\ c[x].nlink = m /\ c[x].type = icache[x].type /\ c[x].inum = d
         /\ c[x].ref = icache[x].ref /\ c[x].valid = icache[x].valid /\ c[x].holder = icache[x].holder
         /\ \A s \in ISlot : s # x => c[s] = icache[s]
    <2>1. c = [icache EXCEPT ![x].nlink = m]
      BY <1>15, <1>17
    <2> QED BY <1>2, <1>7, <1>9, <1>16, <2>1 DEF IcacheType
  <1>20. CacheWritten(x) /\ icache'[x].nlink = m /\ \A s \in ISlot \ {x} : icache'[s].nlink = icache[s].nlink
    <2>1. /\ icache' \in IcacheType
          /\ \A s \in ISlot :
                /\ icache'[s].ref = c[s].ref /\ icache'[s].inum = c[s].inum
                /\ icache'[s].valid = c[s].valid /\ icache'[s].type = c[s].type
                /\ icache'[s].nlink = c[s].nlink
                /\ icache'[s].holder = IF s = x THEN NoFsProc ELSE c[s].holder
      BY <1>9, <1>18, <1>19, IunlockFields
    <2>2. \A s \in ISlot : /\ c[s].ref = icache[s].ref /\ c[s].inum = icache[s].inum
                           /\ c[s].valid = icache[s].valid /\ c[s].type = icache[s].type
                           /\ c[s].holder = icache[s].holder
      BY <1>7, <1>19
    <2>3. c[x].nlink = m /\ \A s \in ISlot \ {x} : c[s].nlink = icache[s].nlink
      BY <1>19
    <2> QED BY <1>9, <2>1, <2>2, <2>3 DEF CacheWritten
  <1>21. /\ dinode'[d] = [type |-> icache[x].type, nlink |-> m]
         /\ \A j \in Inum \ {d} : dinode'[j] = dinode[j]
         /\ dinode' \in [Inum -> [type : {"none", "file", "dir"}, nlink : Nat]]
    <2>1. dinode' = [dinode EXCEPT ![d] = [type |-> icache[x].type, nlink |-> m]]
      BY <1>18, <1>19 DEF iupdate
    <2>2. [type |-> icache[x].type, nlink |-> m] \in [type : {"none", "file", "dir"}, nlink : Nat]
      BY <1>11, <1>16
    <2> QED BY <1>2, <1>11, <2>1, <2>2 DEF FsTyped
  <1>22. PICK g : g = [ph |-> "put", s |-> x, b |-> "unlinkip", t |-> 0]
    OBVIOUS
  <1>23. g \in FsGhost /\ g.ph = "put" /\ g.s = x /\ g.b = "unlinkip" /\ g.t = 0
    BY <1>9, <1>22 DEF FsGhost, PutPhase, FsPlace, BadB, ISlot
  <1>24. PICK w : w = [z EXCEPT ![p] = g]
    OBVIOUS
  <1>25. w[p] = g /\ w \in [FsProc -> FsGhost] /\ \A q \in FsProc \ {p} : w[q] = z[q]
    BY <1>23, <1>24 DEF FsIInvOf
  <1>26. UNCHANGED <<call, path, path2, cur, ip, fd>>
    BY <1>18 DEF regVars
  <1>27. StepPlaces(w, p)
    <2>1. k' = [k EXCEPT ![p] = Prefix(g) \o Rest(g, call[p])]
      <3>1. Prefix(g) = <<put(x)>> /\ Rest(g, call[p]) = << <<"unlinkip", 0>> >>
        BY <1>23 DEF Prefix, Rest
      <3>2. k' = [k EXCEPT ![p] = <<put(x), <<"unlinkip", 0>> >> \o <<>>]
        BY <1>1, <1>18 DEF Then
      <3>3. put(x) \in FsOp /\ <<"unlinkip", 0>> \in FsOp
        BY <1>9 DEF FsOp, FsOpName, put, ISlot
      <3>4. <<put(x)>> \o << <<"unlinkip", 0>> >> = <<put(x), <<"unlinkip", 0>> >> \o <<>>
        BY <3>3, OpLists
      <3> QED BY <3>1, <3>2, <3>4
    <2>2. PlaceOK(w[p], p)'
      BY <1>1, <1>2, <1>3, <1>9, <1>23, <1>25, <1>26
         DEF PlaceOK, WantsParent, WalkB, FillB, UnlinkB, BadB, PutB, ExistB
    <2> QED BY <1>25, <1>26, <2>1, <2>2 DEF StepPlaces
  <1>28. \A s \in ISlot : Locks(w, p, s)' <=> Locks(z, p, s) /\ s # x
    BY <1>1, <1>4, <1>5, <1>10, <1>23, <1>25, <1>26 DEF Locks
  <1>29. \A s \in ISlot : RefCount(w, p, s)' = RefCount(z, p, s)
    BY <1>1, <1>4, <1>5, <1>23, <1>25, <1>26
       DEF RefCount, One, HasCur, HasIp, HasPut, HasLast, WalkB, FillB, UnlinkB, BadB, PutB, ExistB
  <1>30. \A s \in ISlot : Uses(w, p, s)' => Uses(z, p, s)
    BY <1>1, <1>4, <1>5, <1>23, <1>25, <1>26
       DEF Uses, HasCur, HasIp, HasLast, WalkB, FillB, UnlinkB, BadB, PutB, ExistB
  <1>31. /\ \A j \in Inum : dinode'[j].type = dinode[j].type
         /\ \A j \in Inum : dinode'[j].type = "none" => dinode'[j] = dinode[j]
    BY <1>11, <1>21
  <1>32. Moves(z, w, p) /\ StepSlots
    BY <1>20, <1>25, <1>26 DEF Moves, StepSlots, CacheWritten
  <1>33. \A s \in ISlot : SlotKept(s) \/ SlotMine(z, w, p, s)
    <2> SUFFICES ASSUME NEW s \in ISlot PROVE SlotKept(s) \/ SlotMine(z, w, p, s)
      OBVIOUS
    <2>1. CASE s = x
      <3>1. CoherentAt(w, x)'
        BY <1>7, <1>9, <1>11, <1>20, <1>21 DEF CoherentAt, CacheWritten
      <3> QED BY <1>11, <2>1, <3>1 DEF SlotMine
    <2>2. CASE s # x
      <3>1. icache[s].ref > 0 => icache[s].inum \in Inum /\ icache[s].inum # d
        BY <1>7, <1>9, <1>11, <2>2 DEF FsIInvOf, OneEntry
      <3> QED BY <1>20, <1>21, <2>2, <3>1 DEF SlotKept, CacheWritten
    <2> QED BY <2>1, <2>2
  <1>34. ASSUME NEW q \in FsProc \ {p}, z[q].b \in FillB PROVE dinode'[icache[ip[q]].inum].nlink = 0
    <2>1. /\ ip[q] \in ISlot /\ RefCount(z, q, ip[q]) >= 1 /\ icache[ip[q]].inum \in Inum
          /\ dinode[icache[ip[q]].inum].nlink = 0 /\ x # ip[q]
      BY <1>3, <1>4, <1>34, FreshFacts
    <2>2. icache[ip[q]].inum # d
      BY <1>7, <1>9, <1>11, <2>1, TwoInodes
    <2> QED BY <1>21, <2>1, <2>2
  <1>35. /\ dirent' \in [Inum -> [FsName -> Inum \cup {NoInum}]]
         /\ \A j \in Inum : j # d => dirent'[j] = dirent[j]
         /\ \A j \in Inum : j # NoInum => Parents(j)' \subseteq Parents(j) \ {<<d, n>>}
         /\ \A j \in Inum : j # d => Subdirs(j)' = Subdirs(j)
         /\ Subdirs(d)' \subseteq Subdirs(d) \ {n}
    <2>1. NoInum \in Inum \cup {NoInum}
      OBVIOUS
    <2> QED BY <1>9, <1>11, <1>18, <1>31, <2>1, EntryWritten
  <1>36. LinksCover(w)'
    <2> SUFFICES ASSUME NEW j \in Inum PROVE Covered(w, j)'
      BY DEF LinksCover, Covered
    <2>0. j # NoInum
      BY DEF Inum, NoInum
    <2>1. /\ Pending(w, j)' \subseteq Pending(z, j) \cup {p}
          /\ j # i => Pending(w, j)' \subseteq Pending(z, j)
      <3>1. icache'[ip'[p]].inum = i
        BY <1>5, <1>8, <1>9, <1>20, <1>26 DEF CacheWritten
      <3> QED BY <1>32, <3>1, PendingStep
    <2>2. dinode'[j].nlink \in Nat
      BY <1>21
    <2>3. PICK A : A = Parents(j)'
      OBVIOUS
    <2>4. PICK S : S = Subdirs(j)'
      OBVIOUS
    <2>5. PICK B : B = Pending(w, j)'
      OBVIOUS
    <2>6. /\ IsFiniteSet(Parents(j)) /\ IsFiniteSet(Subdirs(j)) /\ IsFiniteSet(Pending(z, j))
          /\ Cardinality(Parents(j)) \in Nat /\ Cardinality(Subdirs(j)) \in Nat
          /\ Cardinality(Pending(z, j)) \in Nat /\ dinode[j].nlink \in Nat
      BY LinkNumbers
    <2>7. A \subseteq Parents(j) \ {<<d, n>>}
      BY <1>35, <2>0, <2>3
    <2>8. 0 \in Int /\ -1 \in Int /\ 1 \in Int
      OBVIOUS
    <2>9. CASE j = i
      <3>1. IsFiniteSet(A) /\ Cardinality(A) \in Nat /\ Cardinality(A) <= Cardinality(Parents(j)) - 1
        BY <1>14, <2>6, <2>7, <2>9, OneLess
      <3>2. IsFiniteSet(S) /\ Cardinality(S) \in Nat /\ Cardinality(S) <= Cardinality(Subdirs(j)) + 0
        BY <1>13, <1>35, <2>4, <2>6, <2>9, NoMore
      <3>3. IsFiniteSet(B) /\ Cardinality(B) \in Nat /\ Cardinality(B) <= Cardinality(Pending(z, j)) + 1
        BY <2>1, <2>5, <2>6, OneMore
      <3>4. dinode'[j].nlink >= dinode[j].nlink + ((-1) + 0 + 1)
        BY <1>13, <1>21, <2>6, <2>9
      <3>5. Cardinality(A) <= Cardinality(Parents(j)) + (-1)
        BY <2>6, <3>1
      <3> QED BY <2>2, <2>3, <2>4, <2>5, <2>8, <3>1, <3>2, <3>3, <3>4, <3>5, CoveredStep
    <2>10. CASE j = d /\ icache[y].type = "dir"
      <3>1. IsFiniteSet(A) /\ Cardinality(A) \in Nat /\ Cardinality(A) <= Cardinality(Parents(j)) + 0
        BY <2>6, <2>7, NoMore
      <3>2. IsFiniteSet(S) /\ Cardinality(S) \in Nat /\ Cardinality(S) <= Cardinality(Subdirs(j)) - 1
        BY <1>14, <1>35, <2>4, <2>6, <2>10, OneLess
      <3>3. IsFiniteSet(B) /\ Cardinality(B) \in Nat /\ Cardinality(B) <= Cardinality(Pending(z, j)) + 0
        BY <1>13, <2>1, <2>5, <2>6, <2>10, NoMore
      <3>4. dinode'[j].nlink >= dinode[j].nlink + (0 + (-1) + 0)
        BY <1>11, <1>15, <1>21, <2>6, <2>10
      <3>5. Cardinality(S) <= Cardinality(Subdirs(j)) + (-1)
        BY <2>6, <3>2
      <3> QED BY <2>2, <2>3, <2>4, <2>5, <2>8, <3>1, <3>2, <3>3, <3>4, <3>5, CoveredStep
    <2>11. CASE j # i /\ ~(j = d /\ icache[y].type = "dir")
      <3>1. dinode'[j].nlink >= dinode[j].nlink
        BY <1>11, <1>15, <1>21, <2>6, <2>11
      <3>2. Subdirs(j)' \subseteq Subdirs(j)
        BY <1>35
      <3> QED BY <2>1, <2>2, <2>3, <2>7, <2>11, <3>1, <3>2, CoveredLess
    <2> QED BY <2>9, <2>10, <2>11
  <1>37. FsIInvOf(w)'
    <2>1. g.ph \in {"none", "put"} /\ g.b \notin FillB \cup UnlinkB \cup WalkB
      BY <1>23 DEF FillB, UnlinkB, WalkB
    <2>3. \A j \in Inum : j # icache[x].inum => dirent'[j] = dirent[j]
      BY <1>7, <1>35
    <2>4. \A q \in FsProc \ {p} : z[q].b \in FillB => dinode'[icache[ip[q]].inum].nlink = 0
      BY <1>34
    <2> QED BY <1>1, <1>9, <1>11, <1>18, <1>20, <1>21, <1>23, <1>24, <1>27, <1>28, <1>29, <1>30, <1>31, <1>33,
               <1>35, <1>36, <2>1, <2>3, <2>4, WriteStep
  <1> QED BY <1>37 DEF FsIInv

\* create() fills the new inode, and writes its entry.
LEMMA CreateFillKeeps ==
    ASSUME NEW z, FsIInvOf(z), NEW p \in FsProc, CreateFill(p)
    PROVE  FsIInv'
  <1>1. z[p].ph = "none" /\ z[p].b = "fill" /\ Tail(k[p]) = <<>>
    BY AtPlace DEF CreateFill
  <1>2. FsTyped /\ PlaceOK(z[p], p) /\ icache \in IcacheType /\ call[p] \in FsCall
    BY DEF FsIInvOf, Placed, FsTyped
  <1>3. /\ HasCur(z, p) /\ path[p] # <<>> /\ cur[p] \in ISlot /\ ip[p] \in ISlot /\ HasIp(z, p)
        /\ ~Pend(z, p) /\ (call[p] \in {"open", "create"} => fd[p] = 0) /\ FreshFor(z, p)
    <2>1. FreshFor(z, p)
      BY <1>1, FreshTargets DEF FsIInvOf, FillB
    <2> QED BY <1>1, <1>2, <2>1 DEF HasCur, HasIp, PlaceOK, Pend, FillB, WalkB, BadB
  <1>4. PICK x : x = cur[p]
    OBVIOUS
  <1>5. PICK y : y = ip[p]
    OBVIOUS
  <1>6. PICK n : n = Head(path[p])
    OBVIOUS
  <1>7. PICK d : d = icache[x].inum
    OBVIOUS
  <1>8. PICK i : i = icache[y].inum
    OBVIOUS
  <1>9. x \in ISlot /\ y \in ISlot /\ n \in FsName /\ Locks(z, p, x) /\ Locks(z, p, y)
    BY <1>1, <1>3, <1>4, <1>5, <1>6, EntryInode DEF Locks
  <1>10. /\ x # y /\ dinode[i].nlink = 0
         /\ dinode[i].type = IF call[p] = "mkdir" THEN "dir" ELSE "file"
    BY <1>3, <1>4, <1>5, <1>8 DEF FreshFor
  <1>11. /\ dinode[d] = [type |-> icache[x].type, nlink |-> icache[x].nlink]
         /\ icache[x].type # "none" /\ icache[x].type \in {"file", "dir"} /\ icache[x].nlink \in Nat
         /\ d \in Inum /\ RefCount(z, p, x) >= 1 /\ icache[x].ref > 0 /\ icache[x].holder = p
    BY <1>1, <1>7, <1>9, LockedCoherent
  <1>12. /\ dinode[i] = [type |-> icache[y].type, nlink |-> icache[y].nlink]
         /\ icache[y].type # "none" /\ icache[y].type \in {"file", "dir"}
         /\ i \in Inum /\ RefCount(z, p, y) >= 1 /\ icache[y].ref > 0
    BY <1>1, <1>8, <1>9, LockedCoherent
  <1>13. d # i
    BY <1>7, <1>8, <1>9, <1>10, <1>11, <1>12, TwoInodes
  <1>15. PICK m : m = IF call[p] = "mkdir" THEN icache[x].nlink + 1 ELSE icache[x].nlink
    OBVIOUS
  <1>16. m \in Nat
    BY <1>11, <1>15
  <1>17. PICK c : c = [icache EXCEPT ![y].nlink = 1,
                                     ![x].nlink = IF call[p] = "mkdir" THEN @ + 1 ELSE @]
    OBVIOUS
  <1>18. /\ icache' = iunlock(c, x) /\ dinode' = iupdate(iupdate(dinode, c, y), c, x)
         /\ dirent' = [dirent EXCEPT ![d][n] = i]
         /\ Then(p, <<put(x), <<"opened", 0>> >>) /\ UNCHANGED <<regVars, fd>>
    BY <1>4, <1>5, <1>6, <1>7, <1>8, <1>17 DEF CreateFill
  <1>19. /\ c \in IcacheType
         /\ c[x].nlink = m /\ c[x].type = icache[x].type /\ c[x].inum = d
         /\ c[x].ref = icache[x].ref /\ c[x].valid = icache[x].valid /\ c[x].holder = icache[x].holder
         /\ c[y].nlink = 1 /\ c[y].type = icache[y].type /\ c[y].inum = i
         /\ c[y].ref = icache[y].ref /\ c[y].valid = icache[y].valid /\ c[y].holder = icache[y].holder
         /\ \A s \in ISlot : s # x /\ s # y => c[s] = icache[s]
    <2>1. PICK e : e = [icache EXCEPT ![y].nlink = 1]
      OBVIOUS
    <2>2. /\ e \in IcacheType /\ e[y].nlink = 1 /\ e[y].type = icache[y].type /\ e[y].inum = i
          /\ e[y].ref = icache[y].ref /\ e[y].valid = icache[y].valid /\ e[y].holder = icache[y].holder
          /\ \A s \in ISlot : s # y => e[s] = icache[s]
      BY <1>2, <1>8, <1>9, <2>1 DEF IcacheType
    <2>3. c = [e EXCEPT ![x].nlink = m]
      BY <1>2, <1>9, <1>10, <1>15, <1>17, <2>1, <2>2 DEF IcacheType
    <2> QED BY <1>7, <1>9, <1>10, <1>16, <2>2, <2>3 DEF IcacheType
  <1>20. CacheWritten(x) /\ icache'[x].nlink = m /\ icache'[y].nlink = 1
         /\ \A s \in ISlot \ {x, y} : icache'[s].nlink = icache[s].nlink
    <2>1. /\ icache' \in IcacheType
          /\ \A s \in ISlot :
                /\ icache'[s].ref = c[s].ref /\ icache'[s].inum = c[s].inum
                /\ icache'[s].valid = c[s].valid /\ icache'[s].type = c[s].type
                /\ icache'[s].nlink = c[s].nlink
                /\ icache'[s].holder = IF s = x THEN NoFsProc ELSE c[s].holder
      BY <1>9, <1>18, <1>19, IunlockFields
    <2>2. \A s \in ISlot : /\ c[s].ref = icache[s].ref /\ c[s].inum = icache[s].inum
                           /\ c[s].valid = icache[s].valid /\ c[s].type = icache[s].type
                           /\ c[s].holder = icache[s].holder
      BY <1>7, <1>8, <1>19
    <2>3. c[x].nlink = m /\ c[y].nlink = 1 /\ \A s \in ISlot \ {x, y} : c[s].nlink = icache[s].nlink
      BY <1>19
    <2> QED BY <1>9, <2>1, <2>2, <2>3 DEF CacheWritten
  <1>21. /\ dinode'[d] = [type |-> icache[x].type, nlink |-> m]
         /\ dinode'[i] = [type |-> icache[y].type, nlink |-> 1]
         /\ \A j \in Inum \ {d, i} : dinode'[j] = dinode[j]
         /\ dinode' \in [Inum -> [type : {"none", "file", "dir"}, nlink : Nat]]
    <2>1. dinode' = [[dinode EXCEPT ![i] = [type |-> icache[y].type, nlink |-> 1]]
                        EXCEPT ![d] = [type |-> icache[x].type, nlink |-> m]]
      BY <1>18, <1>19 DEF iupdate
    <2>2. /\ [type |-> icache[x].type, nlink |-> m] \in [type : {"none", "file", "dir"}, nlink : Nat]
          /\ [type |-> icache[y].type, nlink |-> 1] \in [type : {"none", "file", "dir"}, nlink : Nat]
      BY <1>11, <1>12, <1>16
    <2> QED BY <1>2, <1>11, <1>12, <1>13, <2>1, <2>2 DEF FsTyped
  <1>22. PICK g : g = [ph |-> "put", s |-> x, b |-> "opened", t |-> 0]
    OBVIOUS
  <1>23. g \in FsGhost /\ g.ph = "put" /\ g.s = x /\ g.b = "opened" /\ g.t = 0
    BY <1>9, <1>22 DEF FsGhost, PutPhase, FsPlace, ExistB, ISlot
  <1>24. PICK w : w = [z EXCEPT ![p] = g]
    OBVIOUS
  <1>25. w[p] = g /\ w \in [FsProc -> FsGhost] /\ \A q \in FsProc \ {p} : w[q] = z[q]
    BY <1>23, <1>24 DEF FsIInvOf
  <1>26. UNCHANGED <<call, path, path2, cur, ip, fd>>
    BY <1>18 DEF regVars
  <1>27. StepPlaces(w, p)
    <2>1. k' = [k EXCEPT ![p] = Prefix(g) \o Rest(g, call[p])]
      <3>1. Prefix(g) = <<put(x)>> /\ Rest(g, call[p]) = << <<"opened", 0>> >>
        BY <1>23 DEF Prefix, Rest
      <3>2. k' = [k EXCEPT ![p] = <<put(x), <<"opened", 0>> >> \o <<>>]
        BY <1>1, <1>18 DEF Then
      <3>3. put(x) \in FsOp /\ <<"opened", 0>> \in FsOp
        BY <1>9 DEF FsOp, FsOpName, put, ISlot
      <3>4. <<put(x)>> \o << <<"opened", 0>> >> = <<put(x), <<"opened", 0>> >> \o <<>>
        BY <3>3, OpLists
      <3> QED BY <3>1, <3>2, <3>4
    <2>2. PlaceOK(w[p], p)'
      BY <1>1, <1>2, <1>3, <1>9, <1>23, <1>25, <1>26
         DEF PlaceOK, WantsParent, WalkB, FillB, UnlinkB, BadB, PutB, ExistB
    <2> QED BY <1>25, <1>26, <2>1, <2>2 DEF StepPlaces
  <1>28. \A s \in ISlot : Locks(w, p, s)' <=> Locks(z, p, s) /\ s # x
    BY <1>1, <1>4, <1>5, <1>10, <1>23, <1>25, <1>26 DEF Locks
  <1>29. \A s \in ISlot : RefCount(w, p, s)' = RefCount(z, p, s)
    BY <1>1, <1>4, <1>5, <1>23, <1>25, <1>26
       DEF RefCount, One, HasCur, HasIp, HasPut, HasLast, WalkB, FillB, UnlinkB, BadB, PutB, ExistB
  <1>30. \A s \in ISlot : Uses(w, p, s)' => Uses(z, p, s)
    BY <1>1, <1>4, <1>5, <1>23, <1>25, <1>26
       DEF Uses, HasCur, HasIp, HasLast, WalkB, FillB, UnlinkB, BadB, PutB, ExistB
  <1>31. /\ \A j \in Inum : dinode'[j].type = dinode[j].type
         /\ \A j \in Inum : dinode'[j].type = "none" => dinode'[j] = dinode[j]
    BY <1>11, <1>12, <1>21
  <1>32. Moves(z, w, p) /\ StepSlots
    BY <1>20, <1>25, <1>26 DEF Moves, StepSlots, CacheWritten
  <1>33. \A s \in ISlot : SlotKept(s) \/ SlotMine(z, w, p, s)
    <2> SUFFICES ASSUME NEW s \in ISlot PROVE SlotKept(s) \/ SlotMine(z, w, p, s)
      OBVIOUS
    <2>1. CASE s = x
      <3>1. CoherentAt(w, x)'
        BY <1>7, <1>9, <1>11, <1>20, <1>21 DEF CoherentAt, CacheWritten
      <3> QED BY <1>11, <2>1, <3>1 DEF SlotMine
    <2>3. CASE s = y
      <3>1. CoherentAt(w, y)'
        BY <1>8, <1>9, <1>12, <1>20, <1>21 DEF CoherentAt, CacheWritten
      <3> QED BY <1>12, <2>3, <3>1 DEF SlotMine
    <2>2. CASE s # x /\ s # y
      <3>1. icache[s].ref > 0 => icache[s].inum \in Inum /\ icache[s].inum # d /\ icache[s].inum # i
        BY <1>7, <1>8, <1>9, <1>11, <1>12, <2>2 DEF FsIInvOf, OneEntry
      <3> QED BY <1>20, <1>21, <2>2, <3>1 DEF SlotKept, CacheWritten
    <2> QED BY <2>1, <2>2, <2>3
  <1>34. ASSUME NEW q \in FsProc \ {p}, z[q].b \in FillB PROVE dinode'[icache[ip[q]].inum].nlink = 0
    <2>1. /\ ip[q] \in ISlot /\ RefCount(z, q, ip[q]) >= 1 /\ icache[ip[q]].inum \in Inum
          /\ dinode[icache[ip[q]].inum].nlink = 0 /\ x # ip[q] /\ y # ip[q]
      BY <1>1, <1>3, <1>4, <1>5, <1>34, FreshFacts DEF FillB
    <2>2. icache[ip[q]].inum # d
      BY <1>7, <1>9, <1>11, <2>1, TwoInodes
    <2>3. icache[ip[q]].inum # i
      BY <1>8, <1>9, <1>12, <2>1, TwoInodes
    <2> QED BY <1>21, <2>1, <2>2, <2>3
  <1>35. /\ dirent' \in [Inum -> [FsName -> Inum \cup {NoInum}]]
         /\ \A j \in Inum : j # d => dirent'[j] = dirent[j]
         /\ \A j \in Inum : Parents(j)' \subseteq Parents(j) \cup {<<d, n>>}
         /\ \A j \in Inum : j # i => Parents(j)' \subseteq Parents(j) \ {<<d, n>>}
         /\ \A j \in Inum : j # d => Subdirs(j)' = Subdirs(j)
         /\ Subdirs(d)' \subseteq Subdirs(d) \cup {n}
         /\ dinode[i].type # "dir" => Subdirs(d)' \subseteq Subdirs(d) \ {n}
    <2>1. i \in Inum \cup {NoInum}
      BY <1>12
    <2>2. \A j \in Inum : dinode'[j].type = dinode[j].type
      BY <1>31
    <2>3. dirent' = [dirent EXCEPT ![d][n] = i]
      BY <1>18
    <2>4. /\ dirent' \in [Inum -> [FsName -> Inum \cup {NoInum}]]
          /\ \A j \in Inum : j # d => dirent'[j] = dirent[j]
          /\ \A j \in Inum : Parents(j)' \subseteq Parents(j) \cup {<<d, n>>}
          /\ \A j \in Inum : j # i => Parents(j)' \subseteq Parents(j) \ {<<d, n>>}
          /\ \A j \in Inum : j # d => Subdirs(j)' = Subdirs(j)
          /\ Subdirs(d)' \subseteq Subdirs(d) \cup {n}
          /\ i = NoInum \/ dinode[i].type # "dir" => Subdirs(d)' \subseteq Subdirs(d) \ {n}
      BY <1>9, <1>11, <2>1, <2>2, <2>3, EntryWritten
    <2> QED BY <2>4
  <1>36. LinksCover(w)'
    <2> SUFFICES ASSUME NEW j \in Inum PROVE Covered(w, j)'
      BY DEF LinksCover, Covered
    <2>1. Pending(w, j)' \subseteq Pending(z, j)
      <3>1. ~Pend(w, p)'
        BY <1>23, <1>25 DEF Pend, BadB, WalkB
      <3> QED BY <1>32, <3>1, PendingStep
    <2>2. dinode'[j].nlink \in Nat
      BY <1>21
    <2>3. PICK A : A = Parents(j)'
      OBVIOUS
    <2>4. PICK S : S = Subdirs(j)'
      OBVIOUS
    <2>5. PICK B : B = Pending(w, j)'
      OBVIOUS
    <2>6. /\ IsFiniteSet(Parents(j)) /\ IsFiniteSet(Subdirs(j)) /\ IsFiniteSet(Pending(z, j))
          /\ Cardinality(Parents(j)) \in Nat /\ Cardinality(Subdirs(j)) \in Nat
          /\ Cardinality(Pending(z, j)) \in Nat /\ dinode[j].nlink \in Nat
      BY LinkNumbers
    <2>8. 0 \in Int /\ 1 \in Int
      OBVIOUS
    <2>7. IsFiniteSet(B) /\ Cardinality(B) \in Nat /\ Cardinality(B) <= Cardinality(Pending(z, j)) + 0
      BY <2>1, <2>5, <2>6, NoMore
    <2>9. CASE j = i
      <3>1. IsFiniteSet(A) /\ Cardinality(A) \in Nat /\ Cardinality(A) <= Cardinality(Parents(j)) + 1
        <4>1. A \in SUBSET (Parents(j) \cup {<<d, n>>})
          BY <1>35, <2>3
        <4> QED BY <2>6, <4>1, OneMore
      <3>2. IsFiniteSet(S) /\ Cardinality(S) \in Nat /\ Cardinality(S) <= Cardinality(Subdirs(j)) + 0
        BY <1>13, <1>35, <2>4, <2>6, <2>9, NoMore
      <3>4. dinode'[j].nlink >= dinode[j].nlink + (1 + 0 + 0)
        BY <1>10, <1>21, <2>9
      <3> QED BY <2>2, <2>3, <2>4, <2>5, <2>7, <2>8, <3>1, <3>2, <3>4, CoveredStep
    <2>10. CASE j = d /\ call[p] = "mkdir"
      <3>1. IsFiniteSet(A) /\ Cardinality(A) \in Nat /\ Cardinality(A) <= Cardinality(Parents(j)) + 0
        <4>1. A \in SUBSET Parents(j)
          BY <1>13, <1>35, <2>3, <2>10
        <4> QED BY <2>6, <4>1, NoMore
      <3>2. IsFiniteSet(S) /\ Cardinality(S) \in Nat /\ Cardinality(S) <= Cardinality(Subdirs(j)) + 1
        <4>1. S \in SUBSET (Subdirs(j) \cup {n})
          BY <1>35, <2>4, <2>10
        <4> QED BY <2>6, <4>1, OneMore
      <3>4. dinode'[j].nlink >= dinode[j].nlink + (0 + 1 + 0)
        BY <1>11, <1>15, <1>21, <2>6, <2>10
      <3> QED BY <2>2, <2>3, <2>4, <2>5, <2>7, <2>8, <3>1, <3>2, <3>4, CoveredStep
    <2>11. CASE j # i /\ ~(j = d /\ call[p] = "mkdir")
      <3>1. dinode'[j].nlink >= dinode[j].nlink
        BY <1>11, <1>15, <1>21, <2>6, <2>11
      <3>2. Subdirs(j)' \subseteq Subdirs(j)
        BY <1>10, <1>35, <2>11
      <3>3. Parents(j)' \subseteq Parents(j)
        BY <1>35, <2>11
      <3> QED BY <2>1, <2>2, <3>1, <3>2, <3>3, CoveredLess
    <2> QED BY <2>9, <2>10, <2>11
  <1>37. FsIInvOf(w)'
    <2>1. g.ph \in {"none", "put"} /\ g.b \notin FillB \cup UnlinkB \cup WalkB
      BY <1>23 DEF FillB, UnlinkB, WalkB
    <2>3. \A j \in Inum : j # icache[x].inum => dirent'[j] = dirent[j]
      BY <1>7, <1>35
    <2>4. \A q \in FsProc \ {p} : z[q].b \in FillB => dinode'[icache[ip[q]].inum].nlink = 0
      BY <1>34
    <2> QED BY <1>1, <1>9, <1>11, <1>18, <1>20, <1>21, <1>23, <1>24, <1>27, <1>28, <1>29, <1>30, <1>31, <1>33,
               <1>35, <1>36, <2>1, <2>3, <2>4, WriteStep
  <1> QED BY <1>37 DEF FsIInv

\* iput() frees an inode that has no link: no entry leads to it, none is in it,
\* and no call is about to make one.
LEMMA IputFreeKeeps ==
    ASSUME NEW z, FsIInvOf(z), NEW p \in FsProc, IputFree(p)
    PROVE  FsIInv'
  <1>1. PICK x : x = Arg(p)
    OBVIOUS
  <1>2. PICK i : i = icache[x].inum
    OBVIOUS
  <1>3. /\ z[p].ph = "free" /\ x = z[p].s
        /\ Tail(k[p]) = << <<"freed", x>>, <<"drop", x>> >> \o Rest(z[p], call[p])
    <2>1. z[p].ph = "free" /\ x = z[p].s /\ PrefixHead(z[p], call[p], Head(k[p]), Tail(k[p]))
      BY <1>1, AtPrefix DEF IputFree
    <2> QED BY <2>1 DEF PrefixHead
  <1>4. FsTyped /\ PlaceOK(z[p], p) /\ icache \in IcacheType /\ z[p] \in FsGhost /\ call[p] \in FsCall
    BY DEF FsIInvOf, Placed, FsTyped
  <1>5. /\ x \in ISlot /\ icache[x].ref = 1 /\ dinode[i].nlink = 0 /\ i \in Inum
        /\ RefCount(z, p, x) = 1 /\ \A q \in FsProc \ {p} : RefCount(z, q, x) = 0
    BY <1>2, <1>3, OthersFree
  <1>6. Locks(z, p, x) /\ icache[x].holder = p /\ icache[x].valid
    BY <1>3, <1>5, LockedFacts DEF Locks
  <1>7. icache[x].nlink = 0
    <2>1. ASSUME NEW q \in FsProc, z[q].ph = "freed", z[q].s = x PROVE FALSE
      <3>1. q # p
        BY <1>3, <2>1
      <3>2. RefCount(z, q, x) >= 1
        BY <1>5, <2>1, UsesCounted DEF HasPut
      <3> QED BY <1>5, <3>1, <3>2
    <2>2. dinode[i] = [type |-> icache[x].type, nlink |-> icache[x].nlink]
      BY <1>2, <1>5, <1>6, <2>1 DEF FsIInvOf, Coherent
    <2> QED BY <1>5, <2>2
  <1>8. PICK c : c = [icache EXCEPT ![x].type = "none"]
    OBVIOUS
  <1>9. /\ icache' = c /\ dinode' = iupdate(dinode, c, x) /\ dirent' = [dirent EXCEPT ![i] = NoEntries]
        /\ Then(p, <<>>) /\ UNCHANGED <<regVars, fd>>
    BY <1>1, <1>2, <1>8 DEF IputFree
  <1>10. /\ icache' \in IcacheType
         /\ \A s \in ISlot : s # x => icache'[s] = icache[s]
         /\ icache'[x].inum = i /\ icache'[x].ref = icache[x].ref /\ icache'[x].valid = icache[x].valid
         /\ icache'[x].holder = icache[x].holder /\ icache'[x].type = "none" /\ icache'[x].nlink = 0
    BY <1>2, <1>4, <1>5, <1>7, <1>8, <1>9 DEF IcacheType
  <1>11. /\ dinode'[i] = [type |-> "none", nlink |-> 0]
         /\ \A j \in Inum \ {i} : dinode'[j] = dinode[j]
         /\ dinode' \in [Inum -> [type : {"none", "file", "dir"}, nlink : Nat]]
    <2>1. dinode' = [dinode EXCEPT ![i] = [type |-> "none", nlink |-> 0]]
      BY <1>9, <1>10 DEF iupdate
    <2> QED BY <1>4, <1>5, <2>1 DEF FsTyped
  <1>12. /\ \A n \in FsName : dirent'[i][n] = NoInum
         /\ \A j \in Inum \ {i} : dirent'[j] = dirent[j]
         /\ dirent' \in [Inum -> [FsName -> Inum \cup {NoInum}]]
    BY <1>4, <1>5, <1>9 DEF FsTyped, NoEntries
  <1>13. PICK g : g = [z[p] EXCEPT !.ph = "freed"]
    OBVIOUS
  <1>14. g \in FsGhost /\ g.ph = "freed" /\ g.s = x /\ g.b = z[p].b /\ g.t = z[p].t
    BY <1>3, <1>4, <1>13 DEF FsGhost, PutPhase
  <1>15. PICK w : w = [z EXCEPT ![p] = g]
    OBVIOUS
  <1>16. w[p] = g /\ w \in [FsProc -> FsGhost] /\ \A q \in FsProc \ {p} : w[q] = z[q]
    BY <1>14, <1>15 DEF FsIInvOf
  <1>17. UNCHANGED <<call, path, path2, cur, ip, fd>>
    BY <1>9 DEF regVars
  <1>18. StepPlaces(w, p)
    <2>1. k' = [k EXCEPT ![p] = Prefix(g) \o Rest(g, call[p])]
      <3>1. Prefix(g) = << <<"freed", x>>, <<"drop", x>> >>
        BY <1>14 DEF Prefix
      <3>2. Rest(g, call[p]) = Rest(z[p], call[p])
        BY <1>13, <1>14 DEF Rest
      <3>3. k' = [k EXCEPT ![p] = <<>> \o (<< <<"freed", x>>, <<"drop", x>> >> \o Rest(z[p], call[p]))]
        BY <1>3, <1>9 DEF Then
      <3>4. <<>> \o (<< <<"freed", x>>, <<"drop", x>> >> \o Rest(z[p], call[p]))
              = << <<"freed", x>>, <<"drop", x>> >> \o Rest(z[p], call[p])
        <4>1. << <<"freed", x>>, <<"drop", x>> >> \in Seq(FsOp) /\ Rest(z[p], call[p]) \in Seq(FsOp)
          <5>1. <<"drop", x>> \in FsOp /\ <<"freed", x>> \in FsOp
            BY <1>5 DEF FsOp, FsOpName, ISlot
          <5> QED BY <1>4, <5>1, RestSeq
        <4> QED BY <4>1
      <3> QED BY <3>1, <3>2, <3>3, <3>4
    <2>2. PlaceOK(w[p], p)'
      BY <1>3, <1>4, <1>5, <1>14, <1>16, <1>17
         DEF PlaceOK, WantsParent, WalkB, FillB, UnlinkB, BadB, PutB, ExistB
    <2> QED BY <1>16, <1>17, <2>1, <2>2 DEF StepPlaces
  <1>19. Moves(z, w, p) /\ StepSlots
    <2>1. \A s \in ISlot : icache'[s].ref = icache[s].ref /\ icache'[s].inum = icache[s].inum
      BY <1>2, <1>10
    <2> QED BY <1>16, <1>17, <2>1 DEF Moves, StepSlots
  <1>20. StepHolders(z, w, p)
    <2>1. \A s \in ISlot : Locks(w, p, s)' <=> Locks(z, p, s)
      BY <1>3, <1>14, <1>16, <1>17 DEF Locks
    <2>2. \A s \in ISlot : icache'[s].holder = icache[s].holder /\ icache'[s].valid = icache[s].valid
      BY <1>10
    <2>3. \A s \in ISlot : icache[s].holder # NoFsProc => icache[s].valid
      BY DEF FsIInvOf, HoldersOK
    <2> QED BY <2>1, <2>2, <2>3 DEF StepHolders
  <1>21. StepRefs(z, w, p)
    <2>1. \A s \in ISlot : RefCount(w, p, s)' = RefCount(z, p, s)
      BY <1>3, <1>14, <1>16, <1>17
         DEF RefCount, One, HasCur, HasIp, HasPut, HasLast, WalkB, FillB, UnlinkB, BadB, PutB, ExistB
    <2>2. \A s \in ISlot : icache'[s].ref = icache[s].ref
      BY <1>10
    <2> QED BY <2>1, <2>2, RefsSame
  <1>22. \A s \in ISlot : s # x /\ icache[s].ref > 0 => icache[s].inum \in Inum /\ icache[s].inum # i
    BY <1>2, <1>5 DEF FsIInvOf, OneEntry
  <1>23. Coherent(w)' /\ StepFreeing(z, w, p)
    <2>1. ASSUME NEW s \in ISlot PROVE SlotKept(s) \/ SlotMine(z, w, p, s) \/ SlotTaken(w, s)
      <3>1. CASE s = x
        <4>1. CoherentAt(w, x)'
          BY <1>14, <1>16 DEF CoherentAt
        <4> QED BY <1>5, <3>1, <4>1 DEF SlotMine
      <3>2. CASE s # x
        BY <1>10, <1>11, <1>22, <3>2 DEF SlotKept
      <3> QED BY <3>1, <3>2
    <2>2. w[p].ph # "free" /\ z[p].ph # "freed"
      BY <1>3, <1>14, <1>16
    <2> QED BY <1>19, <2>1, <2>2, WriteSlots
  <1>24. StepUses(z, w, p)
    <2>1. ASSUME NEW s \in ISlot, Uses(w, p, s)' PROVE dinode'[icache'[s].inum].type # "none"
      <3>1. Uses(z, p, s)
        BY <1>3, <1>14, <1>16, <1>17, <2>1 DEF Uses, HasCur, HasIp, HasLast
      <3>2. s # x
        <4>1. ASSUME s = x PROVE RefCount(z, p, x) >= 2
          BY <1>3, <1>14, <1>16, <1>17, <2>1, <4>1
             DEF Uses, RefCount, One, HasCur, HasIp, HasPut, HasLast
        <4> QED BY <1>5, <4>1
      <3>3. icache[s].ref > 0
        BY <3>1, UsesCounted, RefCounted
      <3>4. icache'[s].inum = icache[s].inum /\ dinode'[icache[s].inum] = dinode[icache[s].inum]
        BY <1>10, <1>11, <1>22, <3>2, <3>3
      <3> QED BY <3>1, <3>4 DEF FsIInvOf, UsedAllocated
    <2>2. ASSUME NEW q \in FsProc \ {p}, NEW s \in ISlot, Uses(z, q, s)
          PROVE  dinode'[icache[s].inum].type = dinode[icache[s].inum].type
      <3>1. RefCount(z, q, s) >= 1 /\ icache[s].ref > 0
        BY <2>2, UsesCounted, RefCounted
      <3>2. s # x
        BY <1>5, <3>1
      <3> QED BY <1>11, <1>22, <3>1, <3>2
    <2> QED BY <2>1, <2>2 DEF StepUses
  <1>25. \A j \in Inum : /\ dinode'[j].nlink = dinode[j].nlink
                         /\ dinode'[j].type = dinode[j].type \/ dinode'[j].type = "none"
    BY <1>5, <1>11
  <1>26. FreeUnlinked'
    BY <1>11 DEF FsIInvOf, FreeUnlinked
  <1>27. LinksCover(w)'
    <2> SUFFICES ASSUME NEW j \in Inum PROVE Covered(w, j)'
      BY DEF LinksCover, Covered
    <2>0. j # NoInum
      BY DEF Inum, NoInum
    <2>1. Parents(j)' \subseteq Parents(j)
      <3>1. ASSUME NEW e \in Parents(j)' PROVE e \in Parents(j)
        <4>1. PICK a \in Inum, m \in FsName : e = <<a, m>> /\ dirent'[a][m] = j
          BY <3>1 DEF Parents
        <4>2. a # i
          BY <1>12, <2>0, <4>1
        <4> QED BY <1>12, <4>1, <4>2 DEF Parents
      <3> QED BY <3>1
    <2>2. Subdirs(j)' \subseteq Subdirs(j)
      <3>1. ASSUME NEW m \in Subdirs(j)' PROVE m \in Subdirs(j)
        <4>1. m \in FsName /\ dirent'[j][m] # NoInum /\ dinode'[dirent'[j][m]].type = "dir"
          BY <3>1 DEF Subdirs
        <4>2. dirent'[j][m] = dirent[j][m] /\ dirent[j][m] \in Inum \cup {NoInum}
          BY <1>4, <1>12, <4>1 DEF FsTyped
        <4> QED BY <1>25, <4>1, <4>2 DEF Subdirs
      <3> QED BY <3>1
    <2>3. Pending(w, j)' \subseteq Pending(z, j)
      <3>1. Pending(w, j)' \subseteq Pending(z, j) \cup {p}
        BY <1>19, PendingStep
      <3>2. p \in Pending(w, j)' => p \in Pending(z, j)
        <4>1. Pend(w, p)' <=> Pend(z, p)
          BY <1>14, <1>16, <1>17 DEF Pend
        <4>2. Pend(z, p) => ip[p] \in ISlot
          BY PendUses
        <4>3. \A s \in ISlot : icache'[s].inum = icache[s].inum
          BY <1>2, <1>10
        <4> QED BY <1>17, <4>1, <4>2, <4>3 DEF Pending
      <3> QED BY <3>1, <3>2
    <2>4. dinode'[j].nlink \in Nat /\ dinode'[j].nlink >= dinode[j].nlink
      <3>1. dinode[j].nlink \in Nat
        BY LinkNumbers
      <3> QED BY <1>25, <3>1
    <2> QED BY <2>1, <2>2, <2>3, <2>4, CoveredLess
  <1>28. StepFresh(z, w, p)
    <2>1. w[p].b \notin FillB
      BY <1>3, <1>4, <1>14, <1>16 DEF PlaceOK
    <2>2. HasCur(w, p)' => HasCur(z, p) /\ cur'[p] = cur[p]
      BY <1>14, <1>16, <1>17 DEF HasCur
    <2>3. ASSUME NEW q \in FsProc \ {p}, z[q].b \in FillB
          PROVE  dinode'[icache[ip[q]].inum].nlink = 0 /\ (HasCur(w, p)' => cur'[p] # ip[q])
      <3>1. /\ icache[ip[q]].inum \in Inum /\ dinode[icache[ip[q]].inum].nlink = 0
            /\ HasCur(z, p) => cur[p] # ip[q]
        BY <2>3, FreshFacts
      <3> QED BY <1>25, <2>2, <3>1
    <2> QED BY <2>1, <2>3 DEF StepFresh
  <1>29. StepTargets(z, w, p)
    <2>1. TargetFor(w, p)'
      <3>1. w[p].b \notin UnlinkB
        BY <1>3, <1>4, <1>14, <1>16 DEF PlaceOK
      <3>2. ASSUME w[p].b \in WalkB, call[p] = "linknew" PROVE dinode'[icache'[ip[p]].inum].type # "dir"
        <4>1. Pend(z, p) /\ TargetFor(z, p)
          BY <1>14, <1>16, <3>2, FreshTargets DEF Pend, FsIInvOf
        <4>2. ip[p] \in ISlot /\ icache[ip[p]].inum \in Inum
          BY <4>1, PendUses
        <4>3. icache'[ip[p]].inum = icache[ip[p]].inum
          BY <1>2, <1>10, <4>2
        <4>4. dinode[icache[ip[p]].inum].type # "dir"
          BY <1>14, <1>16, <3>2, <4>1 DEF TargetFor
        <4> QED BY <1>25, <4>2, <4>3, <4>4
      <3> QED BY <1>17, <3>1, <3>2 DEF TargetFor, UnlinkB
    <2>2. \A j \in Inum : j # icache[x].inum => dirent'[j] = dirent[j]
      BY <1>2, <1>12
    <2> QED BY <1>5, <1>6, <2>1, <2>2, WriteTargets
  <1>30. FsTyped'
    BY <1>4, <1>10, <1>11, <1>12, <1>17 DEF FsTyped
  <1>31. FsIInvOf(w)'
    BY <1>18, <1>19, <1>20, <1>21, <1>23, <1>24, <1>26, <1>27, <1>28, <1>29, <1>30, KeepsInv
  <1> QED BY <1>31 DEF FsIInv

\* ialloc() takes a free inode, which nobody uses and no entry names.
LEMMA FreeInode ==
    ASSUME NEW z, FsIInvOf(z), NEW i \in Inum, dinode[i].type = "none"
    PROVE  /\ dinode[i].nlink = 0 /\ Parents(i) = {} /\ Subdirs(i) = {} /\ Pending(z, i) = {}
           /\ \A d \in Inum, n \in FsName : dirent[d][n] # i
           /\ \A q \in FsProc, s \in ISlot : Uses(z, q, s) =>
                 icache[s].inum \in Inum /\ icache[s].inum # i /\ icache[s].ref > 0
  <1>1. dinode[i].nlink = 0
    BY DEF FsIInvOf, FreeUnlinked
  <1>2. Parents(i) = {} /\ Subdirs(i) = {} /\ Pending(z, i) = {}
    BY <1>1, LinkNumbers
  <1>3. i # NoInum
    BY DEF NoInum, Inum
  <1>4. \A d \in Inum, n \in FsName : dirent[d][n] # i
    BY <1>3, NamedLinked
  <1>5. ASSUME NEW q \in FsProc, NEW s \in ISlot, Uses(z, q, s)
        PROVE  icache[s].inum \in Inum /\ icache[s].inum # i /\ icache[s].ref > 0
    <2>1. icache[s].ref > 0
      BY <1>5, UsesCounted, RefCounted
    <2> QED BY <1>5, <2>1 DEF FsIInvOf, OneEntry, UsedAllocated
  <1> QED BY <1>1, <1>2, <1>4, <1>5

\* The references when one process takes one more.
LEMMA RefsOneMore ==
    ASSUME NEW z, FsIInvOf(z), NEW w, NEW p, NEW s0,
           \A s \in ISlot : icache'[s].ref = icache[s].ref + One(s = s0),
           \A s \in ISlot : RefCount(w, p, s)' = RefCount(z, p, s) + One(s = s0)
    PROVE  StepRefs(z, w, p)
  <1>1. \A s \in ISlot : /\ RefCount(z, p, s) \in 0..5 /\ icache[s].ref \in Nat /\ One(s = s0) \in Nat
    BY RefCountNat DEF FsIInvOf, FsTyped, IcacheType, One
  <1> QED BY <1>1 DEF StepRefs

\* create() of a new name.
LEMMA CreateAllocKeeps ==
    ASSUME NEW z, FsIInvOf(z), NEW p \in FsProc, CreateAlloc(p)
    PROVE  FsIInv'
  <1>1. z[p].ph = "none" /\ z[p].b = "op" /\ Tail(k[p]) = <<>> /\ call[p] \in {"create", "mkdir"}
    BY AtOp DEF CreateAlloc
  <1>2. FsTyped /\ PlaceOK(z[p], p) /\ icache \in IcacheType
    BY DEF FsIInvOf, Placed, FsTyped
  <1>3. /\ HasCur(z, p) /\ path[p] # <<>> /\ cur[p] \in ISlot
        /\ (call[p] = "create" => fd[p] = 0) /\ EntryOf(p) = NoInum
    BY <1>1, <1>2 DEF HasCur, PlaceOK, WalkB, WantsParent, CreateAlloc
  <1>4. PICK i : i = CHOOSE j \in FreeInum : \A l \in FreeInum : j <= l
    OBVIOUS
  <1>5. PICK s0 : s0 = IgetSlot(i)
    OBVIOUS
  <1>6. i \in Inum /\ dinode[i].type = "none" /\ CanIget(i)
    <2>1. FreeInum # {} /\ FreeInum \in SUBSET Nat
      BY DEF CreateAlloc, FreeInum, Inum
    <2>2. i \in FreeInum
      BY <1>4, <2>1, Least
    <2>3. CanIget(i)
      BY <1>4 DEF CreateAlloc
    <2> QED BY <2>2, <2>3 DEF FreeInum
  <1>7. IgetTakes(icache, icache', i, s0)
    <2>1. IgetTakes(icache, iget(icache, i), i, IgetSlot(i))
      BY <1>2, <1>6, IgetEffect
    <2> QED BY <1>4, <1>5, <2>1 DEF CreateAlloc
  <1>8. /\ s0 \in ISlot /\ icache' \in IcacheType /\ icache'[s0].inum = i
        /\ \A s \in ISlot : s # s0 => icache'[s] = icache[s]
        /\ icache'[s0].ref = icache[s0].ref + 1
        /\ icache'[s0].holder = icache[s0].holder /\ icache'[s0].type = icache[s0].type
        /\ icache'[s0].nlink = icache[s0].nlink
        /\ \/ icache[s0].ref > 0 /\ icache[s0].inum = i /\ icache'[s0].valid = icache[s0].valid
           \/ icache[s0].ref = 0 /\ icache'[s0].valid = FALSE
              /\ \A t \in ISlot : ~(icache[t].ref > 0 /\ icache[t].inum = i)
    BY <1>7 DEF IgetTakes
  <1>9. \A s \in ISlot \ {s0} : icache[s].ref > 0 => icache[s].inum \in Inum /\ icache[s].inum # i
    BY <1>8 DEF FsIInvOf, OneEntry
  <1>10. PICK T : T = IF call[p] = "mkdir" THEN "dir" ELSE "file"
    OBVIOUS
  <1>11. /\ T \in {"file", "dir"}
         /\ dinode' = [dinode EXCEPT ![i] = [type |-> T, nlink |-> 0]]
    BY <1>4, <1>10 DEF CreateAlloc
  <1>12. /\ dinode'[i] = [type |-> T, nlink |-> 0]
         /\ \A j \in Inum \ {i} : dinode'[j] = dinode[j]
         /\ dinode' \in [Inum -> [type : {"none", "file", "dir"}, nlink : Nat]]
    <2>1. [type |-> T, nlink |-> 0] \in [type : {"none", "file", "dir"}, nlink : Nat]
      BY <1>11
    <2> QED BY <1>2, <1>6, <1>11, <2>1 DEF FsTyped
  <1>13. /\ dinode[i].nlink = 0 /\ Parents(i) = {} /\ Subdirs(i) = {} /\ Pending(z, i) = {}
         /\ \A d \in Inum, n \in FsName : dirent[d][n] # i
         /\ \A q \in FsProc, s \in ISlot : Uses(z, q, s) =>
               icache[s].inum \in Inum /\ icache[s].inum # i /\ icache[s].ref > 0
    BY <1>6, FreeInode
  <1>14. \A q \in FsProc, s \in ISlot : Uses(z, q, s) =>
               s # s0 /\ icache[s].inum \in Inum /\ icache[s].inum # i
    BY <1>8, <1>13
  <1>15. PICK g : g = [ph |-> "none", s |-> 0, b |-> "lockfill", t |-> 0]
    OBVIOUS
  <1>16. g \in FsGhost /\ g.ph = "none" /\ g.s = 0 /\ g.b = "lockfill" /\ g.t = 0
    BY <1>15 DEF FsGhost, PutPhase, FsPlace, FillB
  <1>17. PICK w : w = [z EXCEPT ![p] = g]
    OBVIOUS
  <1>18. w[p] = g /\ w \in [FsProc -> FsGhost] /\ \A r \in FsProc \ {p} : w[r] = z[r]
    BY <1>16, <1>17 DEF FsIInvOf
  <1>19. ip' = [ip EXCEPT ![p] = s0] /\ UNCHANGED <<dirent, call, path, path2, cur, fd>>
    BY <1>4, <1>5 DEF CreateAlloc
  <1>20. ip'[p] = s0
    BY <1>2, <1>19 DEF FsTyped
  <1>21. Moves(z, w, p)
    BY <1>2, <1>18, <1>19 DEF Moves, FsTyped
  <1>22. FsTyped'
    <2>1. ip' \in [FsProc -> ISlot \cup {0}]
      BY <1>2, <1>8, <1>19 DEF FsTyped
    <2> QED BY <1>2, <1>8, <1>12, <1>19, <2>1 DEF FsTyped
  <1>23. StepPlaces(w, p)
    <2>1. k' = [k EXCEPT ![p] = Prefix(g) \o Rest(g, call[p])]
      <3>1. k' = [k EXCEPT ![p] = <<lock_ip, <<"fill", 0>> >> \o <<>>]
        BY <1>1 DEF CreateAlloc, Then
      <3>2. Prefix(g) = <<>> /\ Rest(g, call[p]) = <<lock_ip, <<"fill", 0>> >>
        BY <1>16 DEF Prefix, Rest
      <3>3. lock_ip \in FsOp /\ <<"fill", 0>> \in FsOp
        BY DEF FsOp, FsOpName, lock_ip
      <3>4. <<lock_ip, <<"fill", 0>> >> \o <<>> = <<>> \o <<lock_ip, <<"fill", 0>> >>
        BY <3>3, OpLists
      <3> QED BY <3>1, <3>2, <3>4
    <2>2. PlaceOK(w[p], p)'
      BY <1>1, <1>2, <1>3, <1>8, <1>16, <1>18, <1>19, <1>20
         DEF PlaceOK, WantsParent, WalkB, FillB, UnlinkB, BadB, ExistB, PutB
    <2> QED BY <1>18, <1>19, <2>1, <2>2 DEF StepPlaces
  <1>24. \A s \in ISlot : Locks(w, p, s)' <=> Locks(z, p, s)
    BY <1>1, <1>16, <1>18, <1>19 DEF Locks
  <1>25. \A s \in ISlot : RefCount(w, p, s)' = RefCount(z, p, s) + One(s = s0)
    BY <1>1, <1>3, <1>8, <1>16, <1>18, <1>19, <1>20
       DEF RefCount, One, HasCur, HasIp, HasPut, HasLast, WalkB, FillB, UnlinkB, BadB, PutB, ExistB
  <1>26. \A s \in ISlot : Uses(w, p, s)' => Uses(z, p, s) \/ s = s0
    BY <1>1, <1>3, <1>8, <1>16, <1>18, <1>19, <1>20
       DEF Uses, HasCur, HasIp, HasLast, WalkB, FillB, UnlinkB, BadB, PutB, ExistB
  <1>27. /\ ~Pend(w, p)' /\ HasCur(z, p) /\ cur'[p] = cur[p] /\ w[p].b \in FillB
         /\ TargetFor(w, p)'
    BY <1>3, <1>16, <1>18, <1>19 DEF Pend, TargetFor, WalkB, BadB, FillB, UnlinkB
  <1>28. StepHolders(z, w, p)
    <2>1. \A s \in ISlot : icache[s].holder # NoFsProc => icache[s].valid
      BY DEF FsIInvOf, HoldersOK
    <2>2. \A s \in ISlot : icache'[s].holder = icache[s].holder
      BY <1>8
    <2>3. ASSUME NEW s \in ISlot, icache'[s].holder # NoFsProc PROVE icache'[s].valid
      <3>1. CASE s # s0
        BY <1>8, <2>1, <2>3, <3>1
      <3>2. CASE s = s0
        BY <1>8, <2>1, <2>2, <2>3, <3>2, EmptyUnlocked
      <3> QED BY <3>1, <3>2
    <2> QED BY <1>24, <2>2, <2>3 DEF StepHolders
  <1>29. StepRefs(z, w, p)
    <2>1. icache \in IcacheType
      BY <1>2
    <2>2. \A s \in ISlot : icache'[s].ref = icache[s].ref + One(s = s0)
      BY <1>8, <2>1 DEF One, IcacheType
    <2>3. \A s \in ISlot : RefCount(w, p, s)' = RefCount(z, p, s) + One(s = s0)
      BY <1>25
    <2> QED BY <2>2, <2>3, RefsOneMore
  <1>30. StepSlots
    <2>1. ASSUME NEW s \in ISlot
          PROVE  /\ icache[s].ref > 0 => icache'[s].inum = icache[s].inum
                 /\ icache'[s].ref > 0 =>
                       \/ icache[s].ref > 0
                       \/ /\ icache'[s].inum \in Inum
                          /\ \A t \in ISlot : icache'[t].ref > 0 /\ icache'[t].inum = icache'[s].inum => t = s
      <3>1. CASE s # s0
        BY <1>8, <3>1
      <3>2. CASE s = s0
        BY <1>6, <1>8, <1>9, <3>2
      <3> QED BY <3>1, <3>2
    <2> QED BY <2>1 DEF StepSlots
  <1>31. \A s \in ISlot : SlotKept(s) \/ SlotTaken(w, s)
    <2>1. ASSUME NEW s \in ISlot \ {s0} PROVE SlotKept(s)
      <3>1. icache'[s] = icache[s]
        BY <1>8
      <3>2. icache[s].ref > 0 => dinode'[icache[s].inum] = dinode[icache[s].inum]
        BY <1>9, <1>12
      <3> QED BY <3>1, <3>2 DEF SlotKept
    <2>2. SlotTaken(w, s0)
      <3>1. icache[s0].ref = 0 \/ dinode[icache[s0].inum].type = "none"
        BY <1>6, <1>8, <1>2 DEF IcacheType
      <3>2. CoherentAt(w, s0)'
        <4>1. SUFFICES ASSUME icache'[s0].valid, \A q \in FsProc : ~(w[q].ph = "freed" /\ w[q].s = s0)
                       PROVE  FALSE
          BY DEF CoherentAt
        <4>2. icache[s0].ref > 0 /\ icache[s0].inum = i /\ icache[s0].valid
          BY <1>8, <4>1
        <4>3. \A q \in FsProc : ~(z[q].ph = "freed" /\ z[q].s = s0)
          BY <1>1, <1>18, <4>1
        <4>4. dinode[i] = [type |-> icache[s0].type, nlink |-> icache[s0].nlink] /\ icache[s0].type # "none"
          BY <1>8, <4>2, <4>3 DEF FsIInvOf, Coherent
        <4> QED BY <1>6, <4>4
      <3> QED BY <3>1, <3>2 DEF SlotTaken
    <2> QED BY <2>1, <2>2
  <1>32. Coherent(w)' /\ StepFreeing(z, w, p)
    <2>1. w[p].ph # "free" /\ z[p].ph # "freed"
      BY <1>1, <1>16, <1>18
    <2>2. \A s \in ISlot : SlotKept(s) \/ SlotMine(z, w, p, s) \/ SlotTaken(w, s)
      BY <1>31
    <2> QED BY <1>21, <1>30, <2>1, <2>2, WriteSlots
  <1>33. StepUses(z, w, p)
    <2>1. ASSUME NEW s \in ISlot, Uses(w, p, s)' PROVE dinode'[icache'[s].inum].type # "none"
      <3>1. CASE s = s0
        BY <1>8, <1>11, <1>12, <3>1
      <3>2. CASE s # s0
        <4>1. Uses(z, p, s)
          BY <1>26, <2>1, <3>2
        <4>2. icache'[s].inum = icache[s].inum /\ icache[s].inum \in Inum \ {i}
          BY <1>8, <1>14, <3>2, <4>1
        <4>3. dinode[icache[s].inum].type # "none"
          BY <4>1 DEF FsIInvOf, UsedAllocated
        <4> QED BY <1>12, <4>2, <4>3
      <3> QED BY <3>1, <3>2
    <2>2. ASSUME NEW q \in FsProc \ {p}, NEW s \in ISlot, Uses(z, q, s)
          PROVE  dinode'[icache[s].inum].type = dinode[icache[s].inum].type
      BY <1>12, <1>14, <2>2
    <2> QED BY <2>1, <2>2 DEF StepUses
  <1>34. LinksCover(w)'
    <2> SUFFICES ASSUME NEW j \in Inum PROVE Covered(w, j)'
      BY DEF LinksCover, Covered
    <2>1. Pending(w, j)' \subseteq Pending(z, j)
      BY <1>21, <1>27, <1>30, PendingStep
    <2>2. Parents(j)' \subseteq Parents(j)
      BY <1>19 DEF Parents
    <2>3. Subdirs(j)' \subseteq Subdirs(j)
      <3>1. ASSUME NEW n \in FsName, dirent[j][n] # NoInum
            PROVE  dinode'[dirent[j][n]] = dinode[dirent[j][n]]
        <4>1. dirent[j][n] \in Inum
          BY <3>1, NamedLinked
        <4> QED BY <1>12, <1>13, <4>1
      <3> QED BY <1>19, <3>1 DEF Subdirs
    <2>4. dinode'[j].nlink \in Nat /\ dinode'[j].nlink = dinode[j].nlink
      <3>1. dinode[j].nlink \in Nat
        BY <1>2 DEF FsTyped
      <3>2. CASE j = i
        BY <1>12, <1>13, <3>2
      <3>3. CASE j # i
        BY <1>12, <3>1, <3>3
      <3> QED BY <3>2, <3>3
    <2>5. dinode'[j].nlink \in Nat /\ dinode'[j].nlink >= dinode[j].nlink
      BY <2>4
    <2> QED BY <2>1, <2>2, <2>3, <2>5, CoveredLess
  <1>35. FreeUnlinked'
    <2>1. \A j \in Inum : dinode[j].type = "none" => dinode[j].nlink = 0
      BY DEF FsIInvOf, FreeUnlinked
    <2> QED BY <1>11, <1>12, <2>1 DEF FreeUnlinked
  <1>36. StepFresh(z, w, p)
    <2>1. \A q \in FsProc : HasCur(z, q) => cur[q] # s0
      <3>1. ASSUME NEW q \in FsProc, HasCur(z, q) PROVE cur[q] # s0
        <4>1. cur[q] \in ISlot /\ Uses(z, q, cur[q])
          BY <3>1 DEF Uses, HasCur, FsIInvOf, Placed, PlaceOK
        <4> QED BY <1>14, <4>1
      <3> QED BY <3>1
    <2>2. ASSUME NEW q \in FsProc \ {p}, z[q].b \in FillB
          PROVE  /\ ip[q] # s0 /\ dinode'[icache[ip[q]].inum].nlink = 0
                 /\ cur'[p] # ip[q]
      <3>1. /\ ip[q] \in ISlot /\ dinode[icache[ip[q]].inum].nlink = 0 /\ cur[p] # ip[q]
        BY <1>3, <2>2, FreshFacts
      <3>2. Uses(z, q, ip[q])
        BY <2>2 DEF Uses, HasIp
      <3>3. ip[q] # s0 /\ icache[ip[q]].inum \in Inum \ {i}
        BY <1>14, <3>1, <3>2
      <3> QED BY <1>12, <1>19, <3>1, <3>3
    <2>3. FreshFor(w, p)'
      <3>1. dinode'[icache'[ip'[p]].inum].nlink = 0
        BY <1>8, <1>12, <1>20
      <3>2. dinode'[icache'[ip'[p]].inum].type = IF call'[p] = "mkdir" THEN "dir" ELSE "file"
        BY <1>8, <1>10, <1>12, <1>19, <1>20
      <3>3. ASSUME NEW q \in FsProc, HasCur(w, q)' PROVE cur'[q] # s0
        <4>1. HasCur(z, q)
          BY <1>3, <1>18, <3>3 DEF HasCur
        <4> QED BY <1>19, <2>1, <4>1
      <3>4. ASSUME NEW q \in FsProc \ {p}, w[q].b \in FillB PROVE ip'[q] # s0
        BY <1>2, <1>18, <1>19, <2>2, <3>4 DEF FsTyped
      <3>5. EntryOf(p)' = NoInum
        <4>1. icache'[cur[p]].inum = icache[cur[p]].inum
          BY <1>3, <1>8, <2>1
        <4> QED BY <1>3, <1>19, <4>1 DEF EntryOf
      <3> QED BY <1>20, <3>1, <3>2, <3>3, <3>4, <3>5 DEF FreshFor
    <2> QED BY <1>20, <2>2, <2>3 DEF StepFresh
  <1>37. StepTargets(z, w, p)
    BY <1>19, <1>27, TargetsSame
  <1>38. FsIInvOf(w)'
    BY <1>21, <1>22, <1>23, <1>28, <1>29, <1>30, <1>32, <1>33, <1>34, <1>35, <1>36, <1>37, KeepsInv
  <1> QED BY <1>38 DEF FsIInv

\* link() of the old name: the link is counted, and the walk to the new one starts.
LEMMA LinkOldKeeps ==
    ASSUME NEW z, FsIInvOf(z), NEW p \in FsProc, LinkOld(p)
    PROVE  FsIInv'
  <1>1. z[p].ph = "none" /\ z[p].b = "op" /\ Tail(k[p]) = <<>> /\ call[p] = "link"
    BY AtOp DEF LinkOld
  <1>2. FsTyped /\ PlaceOK(z[p], p) /\ icache \in IcacheType
    BY DEF FsIInvOf, Placed, FsTyped
  <1>3. HasCur(z, p) /\ ~HasIp(z, p) /\ ~Pend(z, p) /\ path2[p] # <<>> /\ cur[p] \in ISlot
    BY <1>1, <1>2 DEF HasCur, HasIp, Pend, PlaceOK, WalkB, FillB, UnlinkB, BadB, ExistB
  <1>4. PICK x : x = cur[p]
    OBVIOUS
  <1>5. PICK d : d = icache[x].inum
    OBVIOUS
  <1>6. PICK s0 : s0 = IgetSlot(ROOTINO)
    OBVIOUS
  <1>7. x \in ISlot /\ Locks(z, p, x)
    BY <1>1, <1>3, <1>4 DEF Locks
  <1>8. /\ dinode[d] = [type |-> icache[x].type, nlink |-> icache[x].nlink]
        /\ icache[x].type = "file" /\ icache[x].nlink \in Nat
        /\ d \in Inum /\ RefCount(z, p, x) >= 1 /\ icache[x].ref > 0 /\ icache[x].holder = p
    <2>1. icache[x].type # "dir"
      BY <1>4 DEF LinkOld
    <2> QED BY <1>1, <1>5, <1>7, <2>1, LockedCoherent
  <1>9. PICK m : m = icache[x].nlink + 1
    OBVIOUS
  <1>10. m \in Nat /\ m > icache[x].nlink /\ m >= icache[x].nlink + 1
    BY <1>8, <1>9
  <1>11. PICK c : c = [icache EXCEPT ![x].nlink = @ + 1]
    OBVIOUS
  <1>12. PICK e : e = iunlock(c, x)
    OBVIOUS
  <1>13. /\ dinode' = iupdate(dinode, c, x) /\ icache' = iget(e, ROOTINO)
         /\ ip' = [ip EXCEPT ![p] = x] /\ cur' = [cur EXCEPT ![p] = s0]
         /\ path' = [path EXCEPT ![p] = path2[p]] /\ call' = [call EXCEPT ![p] = "linknew"]
         /\ k' = [k EXCEPT ![p] = <<lock_cur, <<"walk", 0>>, lock_cur>> \o << <<"linknew", 0>> >>]
         /\ CanIget(ROOTINO)
         /\ UNCHANGED <<dirent, path2, fd>>
    BY <1>4, <1>6, <1>11, <1>12 DEF LinkOld, Namex
  <1>14. /\ c \in IcacheType /\ c[x].nlink = m
         /\ \A s \in ISlot : /\ c[s].ref = icache[s].ref /\ c[s].inum = icache[s].inum
                             /\ c[s].valid = icache[s].valid /\ c[s].type = icache[s].type
                             /\ c[s].holder = icache[s].holder
                             /\ s # x => c[s].nlink = icache[s].nlink
    BY <1>2, <1>7, <1>9, <1>10, <1>11 DEF IcacheType
  <1>15. /\ e \in IcacheType /\ e[x].nlink = m
         /\ \A s \in ISlot : /\ e[s].ref = icache[s].ref /\ e[s].inum = icache[s].inum
                             /\ e[s].valid = icache[s].valid /\ e[s].type = icache[s].type
                             /\ e[s].holder = IF s = x THEN NoFsProc ELSE icache[s].holder
                             /\ s # x => e[s].nlink = icache[s].nlink
    BY <1>7, <1>12, <1>14, IunlockFields
  <1>16. ROOTINO \in Inum /\ dinode[ROOTINO].nlink # 0 /\ dinode[ROOTINO].type # "none"
    BY NamedLinked
  <1>17. IgetTakes(e, icache', ROOTINO, s0)
    <2>1. IgetTakes(e, iget(e, ROOTINO), ROOTINO, IgetSlot(ROOTINO))
      BY <1>2, <1>13, <1>15, <1>16, IgetEffect
    <2> QED BY <1>6, <1>13, <2>1
  <1>18. /\ s0 \in ISlot /\ icache' \in IcacheType /\ icache'[s0].inum = ROOTINO
         /\ \A s \in ISlot : s # s0 => icache'[s] = e[s]
         /\ icache'[s0].ref = icache[s0].ref + 1
         /\ icache'[s0].holder = e[s0].holder /\ icache'[s0].type = icache[s0].type
         /\ icache'[s0].nlink = e[s0].nlink
         /\ \/ icache[s0].ref > 0 /\ icache[s0].inum = ROOTINO /\ icache'[s0].valid = icache[s0].valid
            \/ icache[s0].ref = 0 /\ icache'[s0].valid = FALSE
               /\ \A t \in ISlot : ~(icache[t].ref > 0 /\ icache[t].inum = ROOTINO)
    BY <1>15, <1>17 DEF IgetTakes
  <1>19. /\ \A s \in ISlot : icache'[s].holder = IF s = x THEN NoFsProc ELSE icache[s].holder
         /\ \A s \in ISlot : s # s0 => /\ icache'[s].ref = icache[s].ref /\ icache'[s].inum = icache[s].inum
                                       /\ icache'[s].valid = icache[s].valid
                                       /\ icache'[s].type = icache[s].type
         /\ \A s \in ISlot : s # x => icache'[s].nlink = icache[s].nlink
         /\ icache'[x].nlink = m /\ icache'[x].type = "file" /\ icache'[x].inum = d
    <2>1. \A s \in ISlot : icache'[s].holder = e[s].holder /\ icache'[s].nlink = e[s].nlink
      BY <1>18
    <2>2. \A s \in ISlot : s # s0 => /\ icache'[s].ref = icache[s].ref /\ icache'[s].inum = icache[s].inum
                                       /\ icache'[s].valid = icache[s].valid
                                       /\ icache'[s].type = icache[s].type
      BY <1>15, <1>18
    <2>3. icache'[x].type = "file"
      BY <1>7, <1>8, <1>15, <1>18
    <2>4. icache'[x].inum = d
      <3>1. CASE x = s0
        <4>1. icache[s0].inum = ROOTINO
          BY <1>8, <1>18, <3>1, <1>2 DEF IcacheType
        <4> QED BY <1>5, <1>18, <3>1, <4>1
      <3>2. CASE x # s0
        BY <1>5, <1>7, <2>2, <3>2
      <3> QED BY <3>1, <3>2
    <2> QED BY <1>7, <1>15, <2>1, <2>2, <2>3, <2>4
  <1>20. /\ dinode'[d] = [type |-> "file", nlink |-> m]
         /\ \A j \in Inum \ {d} : dinode'[j] = dinode[j]
         /\ dinode' \in [Inum -> [type : {"none", "file", "dir"}, nlink : Nat]]
         /\ \A j \in Inum : dinode'[j].type = dinode[j].type
    <2>1. dinode' = [dinode EXCEPT ![d] = [type |-> "file", nlink |-> m]]
      BY <1>5, <1>7, <1>8, <1>13, <1>14 DEF iupdate
    <2>2. [type |-> "file", nlink |-> m] \in [type : {"none", "file", "dir"}, nlink : Nat]
      BY <1>10
    <2> QED BY <1>2, <1>8, <2>1, <2>2 DEF FsTyped
  <1>21. PICK g : g = [ph |-> "none", s |-> 0, b |-> "lockwalk", t |-> 0]
    OBVIOUS
  <1>22. g \in FsGhost /\ g.ph = "none" /\ g.s = 0 /\ g.b = "lockwalk" /\ g.t = 0
    BY <1>21 DEF FsGhost, PutPhase, FsPlace, WalkB
  <1>23. PICK w : w = [z EXCEPT ![p] = g]
    OBVIOUS
  <1>24. w[p] = g /\ w \in [FsProc -> FsGhost] /\ \A r \in FsProc \ {p} : w[r] = z[r]
    BY <1>22, <1>23 DEF FsIInvOf
  <1>25. /\ ip'[p] = x /\ cur'[p] = s0 /\ path'[p] = path2[p] /\ call'[p] = "linknew"
         /\ fd' = fd /\ path2' = path2 /\ dirent' = dirent
    BY <1>2, <1>13 DEF FsTyped
  <1>26. Moves(z, w, p)
    BY <1>2, <1>13, <1>24, <1>25 DEF Moves, FsTyped
  <1>27. FsTyped'
    <2>1. ip' \in [FsProc -> ISlot \cup {0}] /\ cur' \in [FsProc -> ISlot \cup {0}]
      BY <1>2, <1>7, <1>13, <1>18 DEF FsTyped
    <2>2. path' \in [FsProc -> Seq(FsName)]
      BY <1>2, <1>13 DEF FsTyped
    <2>3. call' \in [FsProc -> FsCall]
      BY <1>2, <1>13 DEF FsTyped, FsCall
    <2> QED BY <1>2, <1>18, <1>20, <1>25, <2>1, <2>2, <2>3 DEF FsTyped
  <1>28. StepPlaces(w, p)
    <2>1. k' = [k EXCEPT ![p] = Prefix(g) \o Rest(g, "linknew")]
      <3>1. lock_cur \in FsOp /\ <<"walk", 0>> \in FsOp /\ <<"linknew", 0>> \in FsOp
        BY DEF FsOp, FsOpName, lock_cur
      <3>2. <<lock_cur, <<"walk", 0>>, lock_cur>> \o << <<"linknew", 0>> >>
               = <<>> \o <<lock_cur, <<"walk", 0>>, lock_cur, <<"linknew", 0>> >>
        BY <3>1, FourOps
      <3>3. Prefix(g) = <<>> /\ Rest(g, "linknew") = <<lock_cur, <<"walk", 0>>, lock_cur, <<"linknew", 0>> >>
        BY <1>22 DEF Prefix, Rest, LastOp
      <3> QED BY <1>13, <3>2, <3>3
    <2>2. PlaceOK(w[p], p)'
      BY <1>3, <1>7, <1>18, <1>22, <1>24, <1>25
         DEF PlaceOK, WantsParent, WalkB, FillB, UnlinkB, BadB, ExistB, PutB
    <2> QED BY <1>24, <1>25, <2>1, <2>2 DEF StepPlaces
  <1>29. \A s \in ISlot : Locks(w, p, s)' <=> Locks(z, p, s) /\ s # x
    BY <1>1, <1>4, <1>22, <1>24 DEF Locks
  <1>30. \A s \in ISlot : RefCount(w, p, s)' = RefCount(z, p, s) + One(s = s0)
    BY <1>1, <1>3, <1>4, <1>7, <1>18, <1>22, <1>24, <1>25
       DEF RefCount, One, HasCur, HasIp, HasPut, HasLast, WalkB, FillB, UnlinkB, BadB, PutB, ExistB
  <1>31. \A s \in ISlot : Uses(w, p, s)' => Uses(z, p, s) \/ s = s0
    BY <1>1, <1>3, <1>4, <1>7, <1>18, <1>22, <1>24, <1>25
       DEF Uses, HasCur, HasIp, HasLast, WalkB, FillB, UnlinkB, BadB, PutB, ExistB
  <1>32. Pend(w, p)' /\ w[p].b \notin FillB /\ w[p].b \notin UnlinkB /\ w[p].b = "lockwalk"
    BY <1>22, <1>24, <1>25 DEF Pend, WalkB, FillB, UnlinkB
  <1>33. StepHolders(z, w, p)
    <2>1. \A s \in ISlot : icache[s].holder # NoFsProc => icache[s].valid
      BY DEF FsIInvOf, HoldersOK
    <2>2. ASSUME NEW s \in ISlot, icache'[s].holder # NoFsProc PROVE icache'[s].valid
      <3>0. icache[s].holder # NoFsProc
        BY <1>19, <2>2
      <3>1. CASE s # s0
        BY <1>19, <2>1, <3>0, <3>1
      <3>2. CASE s = s0
        BY <1>18, <2>1, <3>0, <3>2, EmptyUnlocked
      <3> QED BY <3>1, <3>2
    <2>3. ASSUME NEW s \in ISlot
          PROVE  \/ icache'[s].holder = icache[s].holder /\ (Locks(w, p, s)' <=> Locks(z, p, s))
                 \/ icache'[s].holder = NoFsProc /\ icache[s].holder = p /\ ~Locks(w, p, s)'
      <3>1. CASE s = x
        BY <1>8, <1>19, <1>29, <3>1
      <3>2. CASE s # x
        BY <1>19, <1>29, <3>2
      <3> QED BY <3>1, <3>2
    <2> QED BY <2>2, <2>3 DEF StepHolders
  <1>34. StepRefs(z, w, p)
    <2>2. \A s \in ISlot : icache'[s].ref = icache[s].ref + One(s = s0)
      BY <1>2, <1>18, <1>19 DEF One, IcacheType
    <2>3. \A s \in ISlot : RefCount(w, p, s)' = RefCount(z, p, s) + One(s = s0)
      BY <1>30
    <2> QED BY <2>2, <2>3, RefsOneMore
  <1>35. StepSlots
    <2>1. ASSUME NEW s \in ISlot
          PROVE  /\ icache[s].ref > 0 => icache'[s].inum = icache[s].inum
                 /\ icache'[s].ref > 0 =>
                       \/ icache[s].ref > 0
                       \/ /\ icache'[s].inum \in Inum
                          /\ \A t \in ISlot : icache'[t].ref > 0 /\ icache'[t].inum = icache'[s].inum => t = s
      <3>1. CASE s # s0
        BY <1>19, <3>1
      <3>2. CASE s = s0
        BY <1>16, <1>18, <1>19, <3>2
      <3> QED BY <3>1, <3>2
    <2> QED BY <2>1 DEF StepSlots
  <1>36. \A s \in ISlot : SlotKept(s) \/ SlotMine(z, w, p, s) \/ SlotTaken(w, s)
    <2>1. CoherentAt(w, x)'
      BY <1>19, <1>20 DEF CoherentAt
    <2>2. ASSUME NEW s \in ISlot \ {x, s0} PROVE SlotKept(s)
      <3>1. icache[s].ref > 0 => icache[s].inum \in Inum \ {d}
        BY <1>5, <1>7, <1>8, <2>2 DEF FsIInvOf, OneEntry
      <3> QED BY <1>19, <1>20, <2>2, <3>1 DEF SlotKept
    <2>3. ASSUME s0 # x PROVE SlotTaken(w, s0)
      <3>1. icache[s0].ref = 0 \/ dinode[icache[s0].inum].nlink # 0
        BY <1>16, <1>18
      <3>2. CoherentAt(w, s0)'
        <4>1. SUFFICES ASSUME icache'[s0].valid, \A q \in FsProc : ~(w[q].ph = "freed" /\ w[q].s = s0)
                       PROVE  /\ dinode'[icache'[s0].inum] = [type |-> icache'[s0].type, nlink |-> icache'[s0].nlink]
                              /\ icache'[s0].type # "none"
          BY DEF CoherentAt
        <4>2. icache[s0].ref > 0 /\ icache[s0].inum = ROOTINO /\ icache[s0].valid
          BY <1>18, <4>1
        <4>3. \A q \in FsProc : ~(z[q].ph = "freed" /\ z[q].s = s0)
          BY <1>1, <1>24, <4>1
        <4>4. dinode[ROOTINO] = [type |-> icache[s0].type, nlink |-> icache[s0].nlink] /\ icache[s0].type # "none"
          BY <1>18, <4>2, <4>3 DEF FsIInvOf, Coherent
        <4>5. d # ROOTINO
          BY <1>5, <1>7, <1>8, <1>18, <2>3, <4>2 DEF FsIInvOf, OneEntry
        <4>6. dinode'[ROOTINO] = dinode[ROOTINO]
          BY <1>16, <1>20, <4>5
        <4> QED BY <1>18, <1>19, <2>3, <4>4, <4>6
      <3> QED BY <3>1, <3>2 DEF SlotTaken
    <2> QED BY <1>7, <1>8, <2>1, <2>2, <2>3 DEF SlotMine
  <1>37. Coherent(w)' /\ StepFreeing(z, w, p)
    <2>1. w[p].ph # "free" /\ z[p].ph # "freed"
      BY <1>1, <1>22, <1>24
    <2>2. \A s \in ISlot : SlotKept(s) \/ SlotMine(z, w, p, s) \/ SlotTaken(w, s)
      BY <1>36
    <2> QED BY <1>26, <1>35, <2>1, <2>2, WriteSlots
  <1>38. StepUses(z, w, p)
    <2>0. ASSUME NEW q \in FsProc, NEW s \in ISlot, Uses(z, q, s)
          PROVE  /\ icache[s].inum \in Inum /\ dinode[icache[s].inum].type # "none"
                 /\ icache'[s].inum = icache[s].inum
      <3>1. icache[s].ref > 0 /\ icache[s].inum \in Inum
        BY <2>0, UsesCounted, RefCounted DEF FsIInvOf, OneEntry
      <3> QED BY <1>35, <2>0, <3>1 DEF StepSlots, FsIInvOf, UsedAllocated
    <2>1. ASSUME NEW s \in ISlot, Uses(w, p, s)' PROVE dinode'[icache'[s].inum].type # "none"
      <3>1. CASE s = s0
        BY <1>16, <1>18, <1>20, <3>1
      <3>2. CASE s # s0
        BY <1>20, <1>31, <2>0, <2>1, <3>2
      <3> QED BY <3>1, <3>2
    <2>2. ASSUME NEW q \in FsProc \ {p}, NEW s \in ISlot, Uses(z, q, s)
          PROVE  dinode'[icache[s].inum].type = dinode[icache[s].inum].type
      BY <1>20, <2>0, <2>2
    <2> QED BY <2>1, <2>2 DEF StepUses
  <1>39. LinksCover(w)'
    <2> SUFFICES ASSUME NEW j \in Inum PROVE Covered(w, j)'
      BY DEF LinksCover, Covered
    <2>2. Parents(j)' = Parents(j)
      BY <1>25 DEF Parents
    <2>3. Subdirs(j)' = Subdirs(j)
      <3>1. dirent'[j] = dirent[j]
        BY <1>25
      <3>2. \A l \in Inum : dinode'[l].type = dinode[l].type
        BY <1>20
      <3> QED BY <3>1, <3>2, SubdirsSame
    <2>4. dinode'[j].nlink \in Nat
      BY <1>20
    <2>5. /\ IsFiniteSet(Parents(j)) /\ IsFiniteSet(Subdirs(j)) /\ IsFiniteSet(Pending(z, j))
          /\ Cardinality(Parents(j)) \in Nat /\ Cardinality(Subdirs(j)) \in Nat
          /\ Cardinality(Pending(z, j)) \in Nat /\ dinode[j].nlink \in Nat
      BY LinkNumbers
    <2>6. CASE j = d
      <3>1. PICK B : B = Pending(w, j)'
        OBVIOUS
      <3>2. B \in SUBSET (Pending(z, j) \cup {p})
        <4>1. Pending(w, j)' \subseteq Pending(z, j) \cup {p}
          BY <1>26, <1>35, PendingStep
        <4> QED BY <3>1, <4>1
      <3>3. IsFiniteSet(B) /\ Cardinality(B) \in Nat /\ Cardinality(B) <= Cardinality(Pending(z, j)) + 1
        BY <2>5, <3>2, OneMore
      <3>4. PICK A : A = Parents(j)'
        OBVIOUS
      <3>5. PICK S : S = Subdirs(j)'
        OBVIOUS
      <3>6. IsFiniteSet(A) /\ Cardinality(A) \in Nat /\ Cardinality(A) <= Cardinality(Parents(j)) + 0
        BY <2>2, <2>5, <3>4
      <3>7. IsFiniteSet(S) /\ Cardinality(S) \in Nat /\ Cardinality(S) <= Cardinality(Subdirs(j)) + 0
        BY <2>3, <2>5, <3>5
      <3>8. dinode'[j].nlink >= dinode[j].nlink + (0 + 0 + 1)
        BY <1>8, <1>10, <1>20, <2>6
      <3>9. 0 \in Int /\ 1 \in Int
        OBVIOUS
      <3> QED BY <2>4, <3>1, <3>3, <3>4, <3>5, <3>6, <3>7, <3>8, <3>9, CoveredStep
    <2>7. CASE j # d
      <3>1. icache'[ip'[p]].inum # j
        BY <1>19, <1>25, <2>7
      <3>2. Pending(w, j)' \subseteq Pending(z, j)
        BY <1>26, <1>35, <3>1, PendingStep
      <3>3. dinode'[j].nlink >= dinode[j].nlink
        BY <1>20, <2>5, <2>7
      <3>4. Parents(j)' \subseteq Parents(j) /\ Subdirs(j)' \subseteq Subdirs(j)
        BY <2>2, <2>3
      <3> QED BY <2>4, <3>2, <3>3, <3>4, CoveredLess
    <2> QED BY <2>6, <2>7
  <1>40. FreeUnlinked'
    <2>1. \A j \in Inum : dinode[j].type = "none" => dinode[j].nlink = 0
      BY DEF FsIInvOf, FreeUnlinked
    <2> QED BY <1>20, <2>1 DEF FreeUnlinked
  <1>41. StepFresh(z, w, p)
    <2>1. ASSUME NEW q \in FsProc \ {p}, z[q].b \in FillB
          PROVE  dinode'[icache[ip[q]].inum].nlink = 0 /\ cur'[p] # ip[q]
      <3>1. /\ ip[q] \in ISlot /\ dinode[icache[ip[q]].inum].nlink = 0 /\ x # ip[q]
            /\ RefCount(z, q, ip[q]) >= 1 /\ icache[ip[q]].inum \in Inum
        BY <1>3, <1>4, <2>1, FreshFacts
      <3>2. icache[ip[q]].inum # d
        BY <1>5, <1>7, <1>8, <3>1, TwoInodes
      <3>3. icache[ip[q]].ref # 0
        BY <3>1, RefCounted
      <3>4. s0 # ip[q]
        BY <1>16, <1>18, <3>1, <3>3
      <3> QED BY <1>20, <1>25, <3>1, <3>2, <3>4
    <2> QED BY <1>32, <2>1 DEF StepFresh
  <1>42. StepTargets(z, w, p)
    <2>1. TargetFor(w, p)'
      BY <1>19, <1>20, <1>25, <1>32 DEF TargetFor
    <2> QED BY <1>25, <2>1, TargetsSame
  <1>43. FsIInvOf(w)'
    BY <1>26, <1>27, <1>28, <1>33, <1>34, <1>35, <1>37, <1>38, <1>39, <1>40, <1>41, <1>42, KeepsInv
  <1> QED BY <1>43 DEF FsIInv

-----------------------------------------------------------------------------
(* The invariant holds at first, and every step keeps it.                  *)

\* The links of the disk that the system starts with.
LEMMA FirstLinks ==
    ASSUME FsInit, NEW i \in Inum
    PROVE  /\ IsFiniteSet(Parents(i)) /\ IsFiniteSet(Subdirs(i))
           /\ dinode[i].nlink >= One(i = ROOTINO) + Cardinality(Parents(i)) + Cardinality(Subdirs(i))
           /\ dinode[i].type = "none" => dinode[i].nlink = 0
  <1>1. /\ FsDir \in FsName /\ FsFile \in FsName /\ FsFile # FsDir
        /\ 1 \in Inum /\ 2 \in Inum /\ 3 \in Inum /\ \A j \in Inum : j # 0
    BY InodeAssumption DEF Inum
  <1>2. /\ dirent[1][FsDir] = 2 /\ dirent[1][FsFile] = 3
        /\ \A n \in FsName : n # FsDir /\ n # FsFile => dirent[1][n] = 0
        /\ \A j \in Inum, n \in FsName : j # 1 => dirent[j][n] = 0
    BY <1>1 DEF FsInit, NoEntries, NoInum
  <1>3. /\ dinode[1] = [type |-> "dir", nlink |-> 2] /\ dinode[2] = [type |-> "dir", nlink |-> 1]
        /\ dinode[3] = [type |-> "file", nlink |-> 1]
        /\ \A j \in Inum : j # 1 /\ j # 2 /\ j # 3 => dinode[j] = [type |-> "none", nlink |-> 0]
    BY <1>1 DEF FsInit
  <1>4. /\ IsFiniteSet({}) /\ Cardinality({}) = 0
        /\ \A e : IsFiniteSet({e}) /\ Cardinality({e}) = 1
    BY FS_EmptySet, FS_Singleton
  <1>5. CASE i = 1
    <2>1. Parents(i) = {}
      <3>1. ASSUME NEW d \in Inum, NEW n \in FsName, dirent[d][n] = i PROVE FALSE
        BY <1>1, <1>2, <1>5, <3>1
      <3>2. Parents(i) \subseteq {}
        BY <3>1 DEF Parents
      <3> QED BY <3>2
    <2>2. Subdirs(i) = {FsDir}
      BY <1>1, <1>2, <1>3, <1>5 DEF Subdirs, NoInum
    <2>3. /\ IsFiniteSet(Parents(i)) /\ Cardinality(Parents(i)) = 0
          /\ IsFiniteSet(Subdirs(i)) /\ Cardinality(Subdirs(i)) = 1
      BY <1>4, <2>1, <2>2
    <2>4. One(i = ROOTINO) = 1
      BY <1>5 DEF One, ROOTINO
    <2> QED BY <1>3, <1>5, <2>3, <2>4
  <1>6. CASE i = 2
    <2>1. Parents(i) = {<<1, FsDir>>}
      <3>1. ASSUME NEW d \in Inum, NEW n \in FsName, dirent[d][n] = i PROVE d = 1 /\ n = FsDir
        BY <1>1, <1>2, <1>6, <3>1
      <3>2. Parents(i) \subseteq {<<1, FsDir>>}
        BY <3>1 DEF Parents
      <3>3. <<1, FsDir>> \in Parents(i)
        BY <1>1, <1>2, <1>6 DEF Parents
      <3> QED BY <3>2, <3>3
    <2>2. Subdirs(i) = {}
      BY <1>1, <1>2, <1>6 DEF Subdirs, NoInum
    <2>3. /\ IsFiniteSet(Parents(i)) /\ Cardinality(Parents(i)) = 1
          /\ IsFiniteSet(Subdirs(i)) /\ Cardinality(Subdirs(i)) = 0
      BY <1>4, <2>1, <2>2
    <2>4. One(i = ROOTINO) = 0
      BY <1>6 DEF One, ROOTINO
    <2> QED BY <1>3, <1>6, <2>3, <2>4
  <1>7. CASE i = 3
    <2>1. Parents(i) = {<<1, FsFile>>}
      <3>1. ASSUME NEW d \in Inum, NEW n \in FsName, dirent[d][n] = i PROVE d = 1 /\ n = FsFile
        BY <1>1, <1>2, <1>7, <3>1
      <3>2. Parents(i) \subseteq {<<1, FsFile>>}
        BY <3>1 DEF Parents
      <3>3. <<1, FsFile>> \in Parents(i)
        BY <1>1, <1>2, <1>7 DEF Parents
      <3> QED BY <3>2, <3>3
    <2>2. Subdirs(i) = {}
      BY <1>1, <1>2, <1>7 DEF Subdirs, NoInum
    <2>3. /\ IsFiniteSet(Parents(i)) /\ Cardinality(Parents(i)) = 1
          /\ IsFiniteSet(Subdirs(i)) /\ Cardinality(Subdirs(i)) = 0
      BY <1>4, <2>1, <2>2
    <2>4. One(i = ROOTINO) = 0
      BY <1>7 DEF One, ROOTINO
    <2> QED BY <1>3, <1>7, <2>3, <2>4
  <1>8. CASE i # 1 /\ i # 2 /\ i # 3
    <2>1. Parents(i) = {}
      BY <1>1, <1>2, <1>8 DEF Parents
    <2>2. Subdirs(i) = {}
      BY <1>1, <1>2, <1>8 DEF Subdirs, NoInum
    <2> QED BY <1>3, <1>4, <1>8, <2>1, <2>2 DEF One, ROOTINO
  <1> QED BY <1>5, <1>6, <1>7, <1>8

\* No call is under way at first.
LEMMA FsInitInv == FsInit => FsIInv
  <1> SUFFICES ASSUME FsInit PROVE FsIInv
    OBVIOUS
  <1>1. PICK z : z = [p \in FsProc |-> [ph |-> "none", s |-> 0, b |-> "idle", t |-> 0]]
    OBVIOUS
  <1>2. /\ z \in [FsProc -> FsGhost]
        /\ \A p \in FsProc : z[p].ph = "none" /\ z[p].b = "idle" /\ z[p].s = 0 /\ z[p].t = 0
    BY <1>1 DEF FsGhost, PutPhase, FsPlace
  <1>3. \A s \in ISlot : icache[s] = [inum |-> NoInum, ref |-> 0, valid |-> FALSE,
                                      holder |-> NoFsProc, type |-> "none", nlink |-> 0]
    BY DEF FsInit
  <1>4. \A p \in FsProc : /\ call[p] = "none" /\ path[p] = <<>> /\ path2[p] = <<>>
                          /\ cur[p] = 0 /\ ip[p] = 0 /\ fd[p] = 0
    BY DEF FsInit
  <1>5. FsTyped
    <2>1. icache \in IcacheType
      BY DEF FsInit, IcacheType
    <2>2. dinode \in [Inum -> [type : {"none", "file", "dir"}, nlink : Nat]]
      BY DEF FsInit
    <2>3. dirent \in [Inum -> [FsName -> Inum \cup {NoInum}]]
      <3>1. 2 \in Inum /\ 3 \in Inum
        BY InodeAssumption DEF Inum
      <3> QED BY <3>1 DEF FsInit, NoEntries
    <2>4. /\ path \in [FsProc -> Seq(FsName)] /\ path2 \in [FsProc -> Seq(FsName)]
          /\ call \in [FsProc -> FsCall]
      BY DEF FsInit, FsCall
    <2>5. /\ cur \in [FsProc -> ISlot \cup {0}] /\ ip \in [FsProc -> ISlot \cup {0}]
          /\ fd \in [FsProc -> ISlot \cup {0}]
      BY DEF FsInit
    <2> QED BY <2>1, <2>2, <2>3, <2>4, <2>5 DEF FsTyped
  <1>6. Placed(z)
    <2>1. \A p \in FsProc : Prefix(z[p]) = <<>> /\ Rest(z[p], call[p]) = <<>>
      BY <1>2 DEF Prefix, Rest
    <2>2. <<>> \o <<>> = <<>>
      OBVIOUS
    <2>3. k = [p \in FsProc |-> Prefix(z[p]) \o Rest(z[p], call[p])]
      BY <2>1, <2>2 DEF FsInit
    <2>4. \A p \in FsProc : PlaceOK(z[p], p)
      BY <1>2 DEF PlaceOK, WalkB, FillB, UnlinkB, BadB, PutB, ExistB
    <2> QED BY <2>3, <2>4 DEF Placed
  <1>7. \A p \in FsProc, s \in ISlot :
           ~Locks(z, p, s) /\ ~Uses(z, p, s) /\ RefCount(z, p, s) = 0
    <2>1. 0 \notin ISlot
      BY DEF ISlot
    <2> QED BY <1>2, <1>4, <2>1 DEF Locks, Uses, RefCount, One, HasCur, HasIp, HasPut, HasLast,
                                    WalkB, FillB, UnlinkB, BadB, PutB, ExistB
  <1>8. HoldersOK(z)
    BY <1>3, <1>7, InodeAssumption DEF HoldersOK
  <1>9. RefsExact(z)
    <2>1. \A s \in ISlot : References(z, s) = {}
      BY <1>7 DEF References
    <2> QED BY <1>3, <2>1, FS_EmptySet DEF RefsExact
  <1>10. OneEntry /\ Coherent(z)
    BY <1>3 DEF OneEntry, Coherent
  <1>11. UsedAllocated(z)
    BY <1>7 DEF UsedAllocated
  <1>12. FreeingAlone(z) /\ FreshAlone(z) /\ TargetsOK(z)
    BY <1>2 DEF FreeingAlone, FreshAlone, TargetsOK, WalkB, FillB, UnlinkB
  <1>13. LinksCover(z)
    <2> SUFFICES ASSUME NEW i \in Inum
                 PROVE  /\ IsFiniteSet(Parents(i)) /\ IsFiniteSet(Subdirs(i)) /\ IsFiniteSet(Pending(z, i))
                        /\ dinode[i].nlink >= One(i = ROOTINO) + Cardinality(Parents(i))
                                                + Cardinality(Subdirs(i)) + Cardinality(Pending(z, i))
      BY DEF LinksCover
    <2>1. Pending(z, i) = {}
      BY <1>2 DEF Pending, Pend, BadB, WalkB
    <2>2. IsFiniteSet(Pending(z, i)) /\ Cardinality(Pending(z, i)) = 0
      BY <2>1, FS_EmptySet
    <2>3. /\ IsFiniteSet(Parents(i)) /\ IsFiniteSet(Subdirs(i))
          /\ dinode[i].nlink >= One(i = ROOTINO) + Cardinality(Parents(i)) + Cardinality(Subdirs(i))
      BY FirstLinks
    <2>4. Cardinality(Parents(i)) \in Nat /\ Cardinality(Subdirs(i)) \in Nat
      BY <2>3, FS_CardinalityType
    <2>5. One(i = ROOTINO) \in Nat
      BY DEF One
    <2> QED BY <2>2, <2>3, <2>4, <2>5
  <1>14. FreeUnlinked
    BY FirstLinks DEF FreeUnlinked
  <1>15. FsIInvOf(z)
    BY <1>2, <1>5, <1>6, <1>8, <1>9, <1>10, <1>11, <1>12, <1>13, <1>14 DEF FsIInvOf
  <1> QED BY <1>15 DEF FsIInv

\* Steps in the middle of a call.
LEMMA FsStepKeeps ==
    ASSUME NEW z, FsIInvOf(z), NEW p \in FsProc, FsStep(p)
    PROVE  FsIInv'
  <1>1. CASE ilock(p) \/ UnlockCur(p)
    BY <1>1, IlockKeeps, UnlockCurKeeps
  <1>2. CASE IputDrop(p) \/ IputLast(p) \/ IputFree(p) \/ IputFreed(p) \/ IputDropFreed(p)
    BY <1>2, IputDropKeeps, IputLastKeeps, IputFreeKeeps, IputFreedKeeps, IputDropFreedKeeps
  <1>3. CASE WalkFails(p)
    <2>1. CASE call[p] = "linknew"
      BY <1>3, <2>1, WalkFailsLinkKeeps
    <2>2. CASE call[p] # "linknew"
      BY <1>3, <2>2, WalkFailsKeeps
    <2> QED BY <2>1, <2>2
  <1>4. CASE WalkParent(p) \/ WalkDown(p)
    BY <1>4, WalkParentKeeps, WalkDownKeeps
  <1>5. CASE OpenFound(p)
    <2>1. \/ fd' = [fd EXCEPT ![p] = cur[p]] /\ Then(p, <<>>)
          \/ UNCHANGED fd /\ Then(p, <<put(cur[p])>>)
      BY <1>5 DEF OpenFound
    <2>2. CASE fd' = [fd EXCEPT ![p] = cur[p]] /\ Then(p, <<>>)
      BY <1>5, <2>2, OpenKeeps
    <2>3. CASE UNCHANGED fd /\ Then(p, <<put(cur[p])>>)
      BY <1>5, <2>3, OpenFailsKeeps
    <2> QED BY <2>1, <2>2, <2>3
  <1>6. CASE CreateExists(p)
    <2>1. \/ Then(p, << <<"opened", 0>> >>) /\ UNCHANGED icache
          \/ Then(p, <<put(ip[p])>>) /\ icache' = iunlock(icache, ip[p])
      BY <1>6 DEF CreateExists
    <2>2. CASE Then(p, << <<"opened", 0>> >>) /\ UNCHANGED icache
      BY <1>6, <2>2, ExistsOpensKeeps
    <2>3. CASE Then(p, <<put(ip[p])>>) /\ icache' = iunlock(icache, ip[p])
      BY <1>6, <2>3, ExistsFailsKeeps
    <2> QED BY <2>1, <2>2, <2>3
  <1>7. CASE CreateFound(p) \/ CreateAlloc(p) \/ CreateFill(p)
    BY <1>7, CreateFoundKeeps, CreateAllocKeeps, CreateFillKeeps
  <1>8. CASE Opened(p)
    <2>1. \/ call[p] = "create" /\ fd' = [fd EXCEPT ![p] = ip[p]] /\ Then(p, <<>>)
          \/ UNCHANGED fd /\ Then(p, <<put(ip[p])>>)
      BY <1>8 DEF Opened
    <2>2. CASE call[p] = "create" /\ fd' = [fd EXCEPT ![p] = ip[p]] /\ Then(p, <<>>)
      BY <1>8, <2>2, OpenedKeeps
    <2>3. CASE UNCHANGED fd /\ Then(p, <<put(ip[p])>>)
      BY <1>8, <2>3, OpenedFailsKeeps
    <2> QED BY <2>1, <2>2, <2>3
  <1>9. CASE UnlinkMissing(p) \/ UnlinkFound(p) \/ UnlinkNotEmpty(p) \/ UnlinkErase(p)
    BY <1>9, UnlinkMissingKeeps, UnlinkFoundKeeps, UnlinkNotEmptyKeeps, UnlinkEraseKeeps
  <1>10. CASE UnlinkInode(p)
    <2>1. DropLink(p, "unlinkip")
      BY <1>10 DEF UnlinkInode
    <2> QED BY <2>1, DropLinkKeeps
  <1>11. CASE LinkBad(p)
    <2>1. DropLink(p, "linkbad")
      BY <1>11 DEF LinkBad
    <2> QED BY <2>1, DropLinkKeeps
  <1>12. CASE LinkDir(p) \/ LinkOld(p) \/ LinkExists(p) \/ LinkNew(p)
    BY <1>12, LinkDirKeeps, LinkOldKeeps, LinkExistsKeeps, LinkNewKeeps
  <1> QED BY <1>1, <1>2, <1>3, <1>4, <1>5, <1>6, <1>7, <1>8, <1>9, <1>10, <1>11, <1>12 DEF FsStep

\* Every step, and none.
LEMMA FsNextInv == FsIInv /\ [FsNext]_inodeVars => FsIInv'
  <1> SUFFICES ASSUME FsIInv, [FsNext]_inodeVars PROVE FsIInv'
    OBVIOUS
  <1>1. PICK z : FsIInvOf(z)
    BY DEF FsIInv
  <1>2. CASE FsNext
    <2>1. PICK p \in FsProc : SysPath(p) \/ SysLink(p) \/ SysClose(p) \/ FsStep(p)
      BY <1>2 DEF FsNext
    <2> QED BY <1>1, <2>1, SysPathKeeps, SysLinkKeeps, SysCloseKeeps, FsStepKeeps
  <1>3. CASE UNCHANGED inodeVars
    <2>1. /\ icache' = icache /\ dinode' = dinode /\ dirent' = dirent /\ k' = k /\ call' = call
          /\ path' = path /\ path2' = path2 /\ cur' = cur /\ ip' = ip /\ fd' = fd
      BY <1>3 DEF inodeVars, regVars
    <2>2. FsIInvOf(z)' 
      <3>1. FsTyped'
        BY <1>1, <2>1 DEF FsIInvOf, FsTyped
      <3>2. Placed(z)'
        BY <1>1, <2>1 DEF FsIInvOf, Placed, PlaceOK, WantsParent
      <3>3. HoldersOK(z)'
        BY <1>1, <2>1 DEF FsIInvOf, HoldersOK, Locks
      <3>4. RefsExact(z)'
        <4>1. \A s \in ISlot : References(z, s)' = References(z, s)
          BY <2>1 DEF References, RefCount, One, HasCur, HasIp, HasPut, HasLast
        <4> QED BY <1>1, <2>1, <4>1 DEF FsIInvOf, RefsExact
      <3>5. OneEntry' /\ Coherent(z)' /\ FreeingAlone(z)' /\ FreeUnlinked'
        BY <1>1, <2>1 DEF FsIInvOf, OneEntry, Coherent, FreeingAlone, FreeUnlinked
      <3>6. UsedAllocated(z)'
        BY <1>1, <2>1 DEF FsIInvOf, UsedAllocated, Uses, HasCur, HasIp, HasLast
      <3>7. LinksCover(z)'
        <4>1. \A i \in Inum : /\ Parents(i)' = Parents(i) /\ Subdirs(i)' = Subdirs(i)
                              /\ Pending(z, i)' = Pending(z, i)
          BY <2>1 DEF Parents, Subdirs, Pending, Pend
        <4> QED BY <1>1, <2>1, <4>1 DEF FsIInvOf, LinksCover
      <3>8. FreshAlone(z)' /\ TargetsOK(z)'
        BY <1>1, <2>1 DEF FsIInvOf, FreshAlone, TargetsOK, HasCur, EntryOf
      <3> QED BY <1>1, <3>1, <3>2, <3>3, <3>4, <3>5, <3>6, <3>7, <3>8 DEF FsIInvOf
    <2> QED BY <2>2 DEF FsIInv
  <1> QED BY <1>2, <1>3

-----------------------------------------------------------------------------
(* What the invariant says.                                                *)

\* An inode has one entry of the cache at most.
LEMMA InvCachedOnce ==
    ASSUME NEW z, FsIInvOf(z)
    PROVE  CachedOnce
  <1> SUFFICES ASSUME NEW i \in Inum PROVE Cardinality(Cached(i)) <= 1
    BY DEF CachedOnce
  <1>1. CASE Cached(i) = {}
    BY <1>1, FS_EmptySet
  <1>2. CASE Cached(i) # {}
    <2>1. PICK s : s \in Cached(i)
      BY <1>2
    <2>2. \A t \in Cached(i) : t = s
      BY <2>1 DEF FsIInvOf, OneEntry, Cached
    <2>3. Cached(i) = {s}
      BY <2>1, <2>2
    <2>4. Cardinality({s}) = 1
      BY FS_Singleton
    <2> QED BY <2>3, <2>4
  <1> QED BY <1>1, <1>2

\* Inodes in use are allocated, and the cache holds what the disk holds.
LEMMA InvInUse ==
    ASSUME NEW z, FsIInvOf(z)
    PROVE  InUseAllocated
  <1>1. ASSUME NEW p \in FsProc, fd[p] # 0 PROVE dinode[icache[fd[p]].inum].type # "none"
    <2>1. fd[p] \in ISlot
      BY <1>1 DEF FsIInvOf, FsTyped
    <2>2. Uses(z, p, fd[p])
      BY DEF Uses
    <2> QED BY <2>1, <2>2 DEF FsIInvOf, UsedAllocated
  <1>2. ASSUME NEW s \in ISlot, icache[s].holder # NoFsProc, ~Freeing(s)
        PROVE  /\ icache[s].type # "none"
               /\ dinode[icache[s].inum] = [type |-> icache[s].type, nlink |-> icache[s].nlink]
    <2>1. PICK q \in FsProc : icache[s].holder = q
      BY <1>2 DEF FsIInvOf, FsTyped, IcacheType
    <2>2. Locks(z, q, s)
      BY <2>1 DEF FsIInvOf, HoldersOK
    <2>3. icache[s].valid /\ icache[s].ref > 0
      BY <2>2, LockedFacts
    <2>4. ASSUME NEW r \in FsProc, z[r].ph = "freed", z[r].s = s PROVE FALSE
      <3>1. z[r] \in FsGhost /\ call[r] \in FsCall /\ k[r] = Prefix(z[r]) \o Rest(z[r], call[r])
        BY DEF FsIInvOf, FsTyped, Placed
      <3>2. k[r] # <<>> /\ PrefixHead(z[r], call[r], Head(k[r]), Tail(k[r]))
        BY <2>4, <3>1, PrefixHeads
      <3>3. Head(k[r]) = <<"freed", s>>
        BY <2>4, <3>2 DEF PrefixHead
      <3>4. Op(r, "freed") /\ Arg(r) = s
        BY <3>2, <3>3 DEF Op, Arg
      <3> QED BY <1>2, <3>4 DEF Freeing
    <2> QED BY <2>3, <2>4 DEF FsIInvOf, Coherent
  <1> QED BY <1>1, <1>2 DEF InUseAllocated

\* iput() of the last reference finds the inode unlocked.
LEMMA InvIputWontBlock ==
    ASSUME NEW z, FsIInvOf(z)
    PROVE  IputWontBlock
  <1> SUFFICES ASSUME NEW p \in FsProc, Op(p, "put"), LastUse(Arg(p))
               PROVE  icache[Arg(p)].holder = NoFsProc
    BY DEF IputWontBlock
  <1>1. PICK s : s = Arg(p)
    OBVIOUS
  <1>2. \/ z[p].ph = "put" /\ s = z[p].s
        \/ z[p].ph = "none" /\ z[p].b = "put" /\ s = z[p].t
    BY <1>1, AtPut
  <1>3. PlaceOK(z[p], p)
    BY DEF FsIInvOf, Placed
  <1>4. s \in ISlot /\ icache[s].ref = 1
    BY <1>1, <1>2, <1>3 DEF PlaceOK, PutB, LastUse
  <1>5. RefCount(z, p, s) >= 1
    <2>1. CASE z[p].ph = "put" /\ s = z[p].s
      BY <1>4, <2>1, UsesCounted DEF HasPut
    <2>2. CASE z[p].ph = "none" /\ z[p].b = "put" /\ s = z[p].t
      BY <1>4, <2>2, UsesCounted DEF Uses, HasLast, PutB
    <2> QED BY <1>2, <2>1, <2>2
  <1>6. RefCount(z, p, s) = 1 /\ \A q \in FsProc \ {p} : RefCount(z, q, s) = 0
    BY <1>4, <1>5, RefCounted
  <1>7. ASSUME NEW q \in FsProc, Locks(z, q, s) PROVE FALSE
    <2>1. RefCount(z, q, s) >= 1
      BY <1>4, <1>7, UsesCounted
    <2>2. q = p
      BY <1>6, <2>1
    <2>3. CASE z[p].ph = "put" /\ s = z[p].s
      <3>1. RefCount(z, p, s) >= 2
        BY <1>4, <1>7, <2>2, <2>3, UsesCounted
      <3> QED BY <1>6, <3>1
    <2>4. CASE z[p].ph = "none" /\ z[p].b = "put"
      BY <1>7, <2>2, <2>4 DEF Locks
    <2> QED BY <1>2, <2>3, <2>4
  <1>8. icache[s].holder \in FsProc \cup {NoFsProc} /\ \A q \in FsProc : icache[s].holder = q <=> Locks(z, q, s)
    BY <1>4 DEF FsIInvOf, FsTyped, IcacheType, HoldersOK
  <1> QED BY <1>1, <1>7, <1>8

\* Between calls, the references are those of the open files.
LEMMA InvRefsBalanced ==
    ASSUME NEW z, FsIInvOf(z)
    PROVE  RefsBalanced
  <1> SUFFICES ASSUME FsIdle, NEW s \in ISlot
               PROVE  icache[s].ref = Cardinality({p \in FsProc : fd[p] = s})
    BY DEF RefsBalanced
  <1>1. \A p \in FsProc : z[p].ph = "none" /\ z[p].b = "idle"
    BY NextOp DEF FsIdle
  <1>2. \A p \in FsProc : RefCount(z, p, s) = One(fd[p] = s)
    BY <1>1 DEF RefCount, One, HasCur, HasIp, HasPut, HasLast, WalkB, FillB, UnlinkB, BadB, PutB, ExistB
  <1> DEFINE A == {p \in FsProc : fd[p] = s}
             R == References(z, s)
             f == [x \in R |-> x[1]]
  <1>3. R = {x \in FsProc \X Nat : x[2] = 1 /\ fd[x[1]] = s}
    BY <1>2 DEF References, One
  <1>4. f \in [R -> A]
    BY <1>3
  <1>5. \A x, y \in R : f[x] = f[y] => x = y
    BY <1>3
  <1>6. \A p \in A : \E x \in R : f[x] = p
    <2> TAKE p \in A
    <2>1. <<p, 1>> \in R
      BY <1>3
    <2> WITNESS <<p, 1>> \in R
    <2> QED BY <2>1
  <1>7. IsFiniteSet(R) /\ icache[s].ref = Cardinality(R)
    BY DEF FsIInvOf, RefsExact
  <1> HIDE DEF A, R, f
  <1>8. f \in Bijection(R, A)
    BY <1>4, <1>5, <1>6, Fun_IsBij
  <1>9. ExistsBijection(R, A)
    BY <1>8, Fun_ExistsBij
  <1>10. Cardinality(A) = Cardinality(R)
    BY <1>7, <1>9, FS_Bijection
  <1> QED BY <1>7, <1>10 DEF A

\* The invariant implies the properties.
LEMMA InvProperties == FsIInv => InodeTypeOK /\ InodesInUse /\ TreeConsistent
  <1> SUFFICES ASSUME FsIInv PROVE InodeTypeOK /\ InodesInUse /\ TreeConsistent
    OBVIOUS
  <1>1. PICK z : FsIInvOf(z)
    BY DEF FsIInv
  <1>2. InodeTypeOK
    BY <1>1 DEF FsIInvOf, FsTyped, IcacheType, InodeTypeOK
  <1>3. InodesInUse
    BY <1>1, InvCachedOnce, InvInUse, InvIputWontBlock DEF InodesInUse
  <1>4. NoDanglingEntry
    BY <1>1, NamedLinked DEF NoDanglingEntry
  <1>5. RefsBalanced
    BY <1>1, InvRefsBalanced
  <1> QED BY <1>2, <1>3, <1>4, <1>5 DEF TreeConsistent

-----------------------------------------------------------------------------
\* The calls of xv7/kernel/sysfile.c and the inode cache of fs.c keep FsIInv,
\* however their critical sections interleave.
THEOREM InodeInvariant == FsSpec => []FsIInv
  <1>1. FsInit => FsIInv
    BY FsInitInv
  <1>2. FsIInv /\ [FsNext]_inodeVars => FsIInv'
    BY FsNextInv
  <1> QED BY <1>1, <1>2, PTL DEF FsSpec

\* The fields of struct inode and struct dinode keep their types; nlink does
\* not become negative.
THEOREM InodeTypeCorrect == FsSpec => []InodeTypeOK
  <1>1. FsIInv => InodeTypeOK
    BY InvProperties
  <1> QED BY <1>1, InodeInvariant, PTL

\* iget(), iput() and ialloc() never meet on an inode in use: it has one entry
\* in the cache and is allocated, and iput() does not wait for its lock while
\* it holds icache.lock.
THEOREM InodeStaysInUse == FsSpec => []InodesInUse
  <1>1. FsIInv => InodesInUse
    BY InvProperties
  <1> QED BY <1>1, InodeInvariant, PTL

\* open(), mkdir(), link() and unlink() leave no name of a free inode, and no
\* reference too many or too few.
THEOREM InodeTreeConsistent == FsSpec => []TreeConsistent
  <1>1. FsIInv => TreeConsistent
    BY InvProperties
  <1> QED BY <1>1, InodeInvariant, PTL
=============================================================================
