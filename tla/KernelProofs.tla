---------------------------- MODULE KernelProofs ----------------------------
(***************************************************************************)
(* Theorems about the virtual memory of xv7 (Vm), its network (Net), and   *)
(* the contents of its files (Bmap).                                       *)
(***************************************************************************)
EXTENDS Vm, Net, Bmap, ModArith, FiniteSetTheorems, FunctionTheorems, SequenceTheorems, TLAPS

-----------------------------------------------------------------------------
(* Sequences without repetition.                                            *)
\* No two entries of a sequence are the same.
Inj(s) == \A i, j \in DOMAIN s : s[i] = s[j] => i = j

\* Ordered() lists each member of a finite set of numbers once: the number of
\* smaller members tells them apart.
LEMMA OrderedIs ==
    ASSUME NEW S \in SUBSET Int, IsFiniteSet(S)
    PROVE  Ordered(S) \in Seq(S) /\ Inj(Ordered(S)) /\ ToSet(Ordered(S)) = S
<1> DEFINE n == Cardinality(S)
           B(x) == {y \in S : y < x}
           r == [x \in S |-> Cardinality(B(x)) + 1]
           o == Ordered(S)
<1>0. n \in Nat BY FS_CardinalityType
<1>1. ASSUME NEW x \in S
      PROVE  IsFiniteSet(B(x)) /\ Cardinality(B(x)) \in Nat /\ Cardinality(B(x)) < n
  <2>1. B(x) \in SUBSET S /\ B(x) # S OBVIOUS
  <2>2. IsFiniteSet(B(x)) /\ Cardinality(B(x)) <= n /\ Cardinality(B(x)) # n
    BY <2>1, FS_Subset
  <2>3. Cardinality(B(x)) \in Nat BY <2>2, FS_CardinalityType
  <2> QED BY <1>0, <2>2, <2>3
<1>2. ASSUME NEW x \in S, NEW y \in S, x < y PROVE Cardinality(B(x)) < Cardinality(B(y))
  <2>0. \A z \in S : z < x => z < y BY <1>2
  <2>n. ~ (x < x) OBVIOUS
  <2>s. B(x) \in SUBSET B(y) BY <2>0, Zenon
  <2>1. B(x) \in SUBSET B(y) /\ x \in B(y) /\ x \notin B(x) BY <1>2, <2>n, <2>s, Zenon
  <2>2. B(x) # B(y) BY <2>1
  <2>3. Cardinality(B(x)) <= Cardinality(B(y)) /\ Cardinality(B(x)) # Cardinality(B(y))
    <3> HIDE DEF B
    <3> QED BY <1>1, <2>1, <2>2, FS_Subset
  <2> QED BY <1>1, <2>3
<1>3. r \in Injection(S, 1..n)
  <2>1. r \in [S -> 1..n]
    <3>1. \A x \in S : Cardinality(B(x)) + 1 \in 1..n BY <1>0, <1>1
    <3> QED BY <3>1
  <2>2. ASSUME NEW x \in S, NEW y \in S, r[x] = r[y] PROVE x = y
    <3>1. r[x] = Cardinality(B(x)) + 1 /\ r[y] = Cardinality(B(y)) + 1 OBVIOUS
    <3>2. Cardinality(B(x)) = Cardinality(B(y)) BY <1>1, <2>2, <3>1
    <3>3. ~ (x < y) /\ ~ (y < x) BY <1>1, <1>2, <3>2
    <3> QED BY <3>3
  <2> HIDE DEF r
  <2> QED BY <2>1, <2>2, Fun_IsInj
<1>4. r \in Surjection(S, 1..n)
  <2>1. IsFiniteSet(1..n) /\ Cardinality(1..n) = n BY <1>0, FS_Interval
  <2> HIDE DEF r
  <2> QED BY <1>3, <2>1, FS_Injection
<1>5. ASSUME NEW i \in 1..n PROVE o[i] \in S /\ r[o[i]] = i
  <2>0. \A t \in 1..n : \E x \in S : r[x] = t
    <3> HIDE DEF r, n
    <3> QED BY <1>4, Fun_SurjectionProperties, Zenon
  <2>1. PICK x \in S : r[x] = i BY <2>0
  <2>2. Cardinality({y \in S : y < x}) = i - 1 BY <1>1, <2>1
  <2>3. o[i] = CHOOSE z \in S : Cardinality({y \in S : y < z}) = i - 1 BY DEF Ordered
  <2>4. o[i] \in S /\ Cardinality({y \in S : y < o[i]}) = i - 1 BY <2>2, <2>3, Zenon
  <2> QED BY <2>4
<1>6. o \in Seq(S) /\ DOMAIN o = 1..n
  <2> DEFINE E(i) == CHOOSE x \in S : Cardinality({y \in S : y < x}) = i - 1
  <2>0. o = [i \in 1..n |-> E(i)] BY Zenon DEF Ordered
  <2> HIDE DEF o, E
  <2>1. o = [i \in 1..n |-> o[i]] /\ DOMAIN o = 1..n BY <2>0
  <2>2. o \in [1..n -> S] BY <1>5, <2>1
  <2> QED BY <1>0, <2>1, <2>2
<1>7. Inj(o)
  <2> HIDE DEF r
  <2> QED BY <1>5, <1>6 DEF Inj
<1>8. ToSet(o) = S
  <2> HIDE DEF o, r, n
  <2>1. ASSUME NEW x \in S PROVE \E i \in 1..n : o[i] = x
    <3>0. r \in [S -> 1..n] BY <1>3, Fun_InjectionProperties
    <3>1. r[x] \in 1..n BY <3>0
    <3>2. o[r[x]] \in S /\ r[o[r[x]]] = r[x] BY <1>5, <3>1
    <3>3. \A a, b \in S : r[a] = r[b] => a = b BY <1>3, Fun_InjectionProperties
    <3>4. o[r[x]] = x BY <3>2, <3>3
    <3> QED BY <3>1, <3>4
  <2> QED BY <1>5, <1>6, <2>1 DEF ToSet
<1> QED BY <1>6, <1>7, <1>8

\* Sequences that are joined.
LEMMA JoinedIs ==
    ASSUME NEW F, NEW s \in Seq(F), NEW t \in Seq(F), Inj(s), Inj(t),
           ToSet(s) \cap ToSet(t) = {}
    PROVE  s \o t \in Seq(F) /\ Inj(s \o t) /\ ToSet(s \o t) = ToSet(s) \cup ToSet(t)
<1> DEFINE u == s \o t
<1>1. Len(s) \in Nat /\ Len(t) \in Nat /\ DOMAIN s = 1..Len(s) /\ DOMAIN t = 1..Len(t) OBVIOUS
<1>6. u \in Seq(F) /\ Len(u) = Len(s) + Len(t) /\ DOMAIN u = 1..(Len(s) + Len(t)) BY <1>1
<1>7. \A i \in 1..(Len(s) + Len(t)) :
        u[i] = IF i <= Len(s) THEN s[i] ELSE t[i - Len(s)]
  BY <1>1
<1> HIDE DEF u
<1>2. \A i \in 1..(Len(s) + Len(t)) : i > Len(s) => i - Len(s) \in 1..Len(t) BY <1>1
<1>8. /\ \A i \in 1..(Len(s) + Len(t)) : i <= Len(s) => i \in 1..Len(s) /\ u[i] \in ToSet(s)
      /\ \A i \in 1..(Len(s) + Len(t)) : i > Len(s) => u[i] \in ToSet(t)
  BY <1>1, <1>2, <1>7 DEF ToSet
<1>9. Inj(u)
  <2> SUFFICES ASSUME NEW i \in 1..(Len(s) + Len(t)), NEW j \in 1..(Len(s) + Len(t)), u[i] = u[j]
               PROVE  i = j
    BY <1>6 DEF Inj
  <2>1. CASE i <= Len(s) /\ j <= Len(s) BY <1>1, <1>7, <1>8, <2>1 DEF Inj
  <2>2. CASE i > Len(s) /\ j > Len(s)
    <3>1. i - Len(s) \in DOMAIN t /\ j - Len(s) \in DOMAIN t BY <1>1, <1>2, <2>2
    <3>2. t[i - Len(s)] = t[j - Len(s)] BY <1>1, <1>7, <2>2
    <3>3. i - Len(s) = j - Len(s) BY <3>1, <3>2 DEF Inj
    <3> QED BY <1>1, <3>3
  <2>3. CASE i <= Len(s) /\ j > Len(s)
    <3>1. u[i] \in ToSet(s) /\ u[j] \in ToSet(t) BY <1>1, <1>8, <2>3
    <3> QED BY <3>1
  <2>4. CASE i > Len(s) /\ j <= Len(s)
    <3>1. u[j] \in ToSet(s) /\ u[i] \in ToSet(t) BY <1>1, <1>8, <2>4
    <3> QED BY <3>1
  <2> QED BY <1>1, <2>1, <2>2, <2>3, <2>4
<1>10. ToSet(u) = ToSet(s) \cup ToSet(t)
  <2>1. ToSet(u) \subseteq ToSet(s) \cup ToSet(t) BY <1>1, <1>6, <1>8 DEF ToSet
  <2>2. ASSUME NEW x \in ToSet(s) PROVE x \in ToSet(u)
    <3>1. PICK i \in 1..Len(s) : s[i] = x BY <1>1 DEF ToSet
    <3>2. i \in 1..(Len(s) + Len(t)) /\ u[i] = x BY <1>1, <1>7, <3>1
    <3> QED BY <1>6, <3>2 DEF ToSet
  <2>3. ASSUME NEW x \in ToSet(t) PROVE x \in ToSet(u)
    <3>1. PICK i \in 1..Len(t) : t[i] = x BY <1>1 DEF ToSet
    <3>2. i + Len(s) \in 1..(Len(s) + Len(t)) /\ i + Len(s) > Len(s) /\ (i + Len(s)) - Len(s) = i BY <1>1
    <3>3. u[i + Len(s)] = x BY <1>1, <1>7, <3>1, <3>2
    <3> QED BY <1>6, <3>2, <3>3 DEF ToSet
  <2> QED BY <2>1, <2>2, <2>3
<1> QED BY <1>6, <1>9, <1>10 DEF u

\* What freeing the frames of s in turn makes of the free list.
LEMMA PushedIs ==
    ASSUME NEW F, NEW s \in Seq(F), NEW t \in Seq(F), Inj(s), Inj(t),
           ToSet(s) \cap ToSet(t) = {}
    PROVE  /\ Reverse(s) \o t \in Seq(F)
           /\ Inj(Reverse(s) \o t)
           /\ ToSet(Reverse(s) \o t) = ToSet(s) \cup ToSet(t)
<1> DEFINE r == Reverse(s)
<1>1. Len(s) \in Nat /\ Len(t) \in Nat /\ DOMAIN s = 1..Len(s) /\ DOMAIN t = 1..Len(t) OBVIOUS
<1>2. r \in Seq(F) /\ Len(r) = Len(s) /\ DOMAIN r = 1..Len(s) /\ \A i \in 1..Len(s) : r[i] = s[Len(s) - i + 1]
  <2>1. \A i \in 1..Len(s) : s[Len(s) - i + 1] \in F
    <3>1. \A i \in 1..Len(s) : Len(s) - i + 1 \in 1..Len(s) BY <1>1
    <3> QED BY <1>1, <3>1
  <2>2. r = [i \in 1..Len(s) |-> s[Len(s) - i + 1]] BY DEF Reverse
  <2> QED BY <1>1, <2>1, <2>2
<1>3. \A i \in 1..Len(s) : \E j \in 1..Len(s) : r[i] = s[j] /\ r[j] = s[i] /\ j = Len(s) - i + 1
  <2> TAKE i \in 1..Len(s)
  <2>1. Len(s) - i + 1 \in 1..Len(s) /\ Len(s) - (Len(s) - i + 1) + 1 = i BY <1>1
  <2> HIDE DEF r
  <2> QED BY <1>2, <2>1
<1>4. Inj(r)
  <2> SUFFICES ASSUME NEW i \in 1..Len(s), NEW j \in 1..Len(s), r[i] = r[j] PROVE i = j
    BY <1>2 DEF Inj
  <2>1. Len(s) - i + 1 \in 1..Len(s) /\ Len(s) - j + 1 \in 1..Len(s) BY <1>1
  <2>2. Len(s) - i + 1 = Len(s) - j + 1
    <3> HIDE DEF r
    <3> QED BY <1>1, <1>2, <2>1 DEF Inj
  <2> QED BY <1>1, <2>2
<1> HIDE DEF r
<1>5. ToSet(r) = ToSet(s)
  <2>1. ToSet(r) = {r[i] : i \in 1..Len(s)} /\ ToSet(s) = {s[i] : i \in 1..Len(s)}
    BY <1>1, <1>2 DEF ToSet
  <2>2. ASSUME NEW i \in 1..Len(s) PROVE r[i] \in ToSet(s) /\ s[i] \in ToSet(r)
    <3>1. PICK j \in 1..Len(s) : r[i] = s[j] /\ r[j] = s[i] BY <1>3
    <3> QED BY <2>1, <3>1
  <2> QED BY <2>1, <2>2
<1> QED BY <1>2, <1>4, <1>5, JoinedIs DEF r

\* A part of a sequence.
LEMMA PartIs ==
    ASSUME NEW F, NEW s \in Seq(F), Inj(s), NEW m \in Nat, m >= 1, NEW n \in Nat, n <= Len(s)
    PROVE  /\ SubSeq(s, m, n) \in Seq(F)
           /\ Inj(SubSeq(s, m, n))
           /\ ToSet(SubSeq(s, m, n)) = {s[i] : i \in m..n}
           /\ Len(SubSeq(s, m, n)) = IF m <= n THEN n - m + 1 ELSE 0
           /\ \A i \in 1..n - m + 1 : SubSeq(s, m, n)[i] = s[m + i - 1]
<1> DEFINE u == SubSeq(s, m, n)
<1>1. Len(s) \in Nat /\ DOMAIN s = 1..Len(s) OBVIOUS
<1>2. u = [i \in 1..(n - m + 1) |-> s[m + i - 1]] /\ Len(u) = IF m <= n THEN n - m + 1 ELSE 0
  BY <1>1
<1>3. \A i \in 1..(n - m + 1) : m + i - 1 \in m..n /\ m + i - 1 \in 1..Len(s) BY <1>1
<1>4. u \in Seq(F) BY <1>1, <1>2, <1>3
<1>5. DOMAIN u = 1..(n - m + 1) /\ \A i \in 1..(n - m + 1) : u[i] = s[m + i - 1] BY <1>2
<1> HIDE DEF u
<1>6. Inj(u)
  <2> SUFFICES ASSUME NEW i \in 1..(n - m + 1), NEW j \in 1..(n - m + 1), u[i] = u[j] PROVE i = j
    BY <1>5 DEF Inj
  <2>1. m + i - 1 = m + j - 1 BY <1>1, <1>3, <1>5 DEF Inj
  <2> QED BY <2>1
<1>7. ToSet(u) = {s[i] : i \in m..n}
  <2>1. ToSet(u) \subseteq {s[i] : i \in m..n} BY <1>3, <1>5 DEF ToSet
  <2>2. ASSUME NEW i \in m..n PROVE s[i] \in ToSet(u)
    <3>1. i - m + 1 \in 1..(n - m + 1) /\ m + (i - m + 1) - 1 = i OBVIOUS
    <3>2. u[i - m + 1] = s[i] BY <1>5, <3>1
    <3> QED BY <1>5, <3>1, <3>2 DEF ToSet
  <2> QED BY <2>1, <2>2
<1> QED BY <1>2, <1>4, <1>5, <1>6, <1>7 DEF u

-----------------------------------------------------------------------------
(* The inductive invariant of Vm: where each frame is.                      *)
\* The places where a frame can be, but for the free list.
Kind == {"tf", "root", "heap", "map", "fault", "exec", "execroot", "lost"}

\* Frame f is in place i of kind k of process p.
Own(f, k, p, i) ==
    \/ k = "tf" /\ i = 0 /\ tf[p] = f
    \/ k = "root" /\ i = 0 /\ root[p] = f
    \/ k = "heap" /\ i \in 1..Len(heap[p]) /\ heap[p][i] = f
    \/ k = "map" /\ i \in VA /\ pt[p][i] = f
    \/ k = "fault" /\ i = 0 /\ job[p].kind = "fault" /\ job[p].frame = f
    \/ k = "exec" /\ job[p].kind = "exec" /\ i \in 1..Len(job[p].pages) /\ job[p].pages[i] = f
    \/ k = "execroot" /\ i = 0 /\ job[p].kind = "exec" /\ job[p].root = f
    \/ k = "lost" /\ i = 0 /\ p = First /\ f \in lost

\* Frame f is in one of these places.
Sole(f) ==
    \E k \in Kind, p \in VmProc, i \in Nat :
        \A l \in Kind, q \in VmProc, j \in Nat :
            Own(f, l, q, j) <=> l = k /\ q = p /\ j = i

IsFree(f) == f \in ToSet(freelist)

\* A frame is free, once, or in one place.
FramesInv ==
    /\ Inj(freelist)
    /\ \A f \in Frame : IsFree(f) =>
          ref_count[f] = 0 /\ \A k \in Kind, p \in VmProc, i \in Nat : ~Own(f, k, p, i)
    /\ \A f \in Frame : ~IsFree(f) => ref_count[f] = 1 /\ Sole(f)

\* The values of job.
Jobs ==
    {NoJob, [kind |-> "killed"]}
        \cup [kind : {"grow"}, newsz : Nat]
        \cup [kind : {"fork"}, child : VmProc]
        \cup [kind : {"exec"}, root : Frame, pages : Seq(Frame)]
        \cup [kind : {"fault"}, va : VA, frame : Frame]

\* The values of the variables.
VmTypes ==
    /\ job \in [VmProc -> Jobs]
    /\ freelist \in Seq(Frame) /\ ref_count \in [Frame -> Nat]
    /\ vmState \in [VmProc -> {"unused", "live", "zombie"}]
    /\ tf \in [VmProc -> Frame \cup {NoFrame}] /\ root \in [VmProc -> Frame \cup {NoFrame}]
    /\ heap \in [VmProc -> Seq(Frame)] /\ vsz \in [VmProc -> 0..NFrames]
    /\ pt \in [VmProc -> [VA -> Frame \cup {NoFrame}]]
    /\ ofile \in [VmProc -> SUBSET VmFile] /\ fileRef \in [VmFile -> Nat]
    /\ lost \subseteq Frame

\* Process p is setting up slot c in fork().
Forks(p, c) == job[p].kind = "fork" /\ job[p].child = c

\* What a step does to the places.  Nothing:
Keeps ==
    /\ UNCHANGED memVars
    /\ \A f \in Frame, k \in Kind, p \in VmProc, i \in Nat : Own(f, k, p, i)' <=> Own(f, k, p, i)

\* it allocates a frame, which goes to one place;
Gains(k0, p0, i0) ==
    /\ ~OutOfMemory /\ kalloc
    /\ \A f \in Frame, k \in Kind, p \in VmProc, i \in Nat :
          Own(f, k, p, i)' <=> Own(f, k, p, i) \/ (f = Head(freelist) /\ k = k0 /\ p = p0 /\ i = i0)

\* it frees frames, which are in no place afterwards;
Frees(s) ==
    /\ s \in Seq(Frame) /\ Inj(s) /\ kfree(s)
    /\ \A f \in Frame : f \in ToSet(s) => ~IsFree(f)
    /\ \A f \in Frame, k \in Kind, p \in VmProc, i \in Nat :
          IsFree(f) \/ f \in ToSet(s) => ~Own(f, k, p, i)'
    /\ \A f \in Frame : ~IsFree(f) /\ f \notin ToSet(s) => Sole(f)'

\* it gives up the places D: their frames are those of s, which are freed, and
\* those of L, which nothing refers to any more.
Drops(s, D, L) ==
    /\ s \in Seq(Frame) /\ Inj(s) /\ kfree(s)
    /\ \A f \in Frame : f \in L => f \notin ToSet(s)
    /\ \A f \in Frame : f \in ToSet(s) \/ f \in L =>
          \E k \in Kind, p \in VmProc, i \in Nat : <<k, p, i>> \in D /\ Own(f, k, p, i)
    /\ \A f \in Frame, k \in Kind, p \in VmProc, i \in Nat :
          <<k, p, i>> \in D /\ Own(f, k, p, i) => f \in ToSet(s) \/ f \in L
    /\ \A f \in Frame, k \in Kind, p \in VmProc, i \in Nat :
          Own(f, k, p, i)' <=>
            \/ Own(f, k, p, i) /\ <<k, p, i>> \notin D
            \/ f \in L /\ k = "lost" /\ p = First /\ i = 0

\* What a slot holds in each state of its process.
SlotInv ==
    /\ \A p \in VmProc : vmState[p] # "live" => job[p] = NoJob
    /\ \A p \in VmProc : vmState[p] # "unused" => tf[p] # NoFrame /\ root[p] # NoFrame
    /\ \A p \in VmProc : vmState[p] = "unused" => vsz[p] = 0 /\ ~LeafLeft(p)
    /\ \A p, c \in VmProc : Forks(p, c) =>
          /\ vmState[c] = "unused" /\ tf[c] # NoFrame
          /\ root[c] = NoFrame => heap[c] = <<>>
          /\ Len(heap[c]) <= vsz[p]
    /\ \A p, q, c \in VmProc : Forks(p, c) /\ Forks(q, c) => p = q

\* How far the loops of sbrk() and exec() have come.
LoopInv ==
    \A p \in VmProc :
        /\ job[p].kind = "grow" => vsz[p] <= Len(heap[p]) /\ Len(heap[p]) <= job[p].newsz
        /\ job[p].kind = "exec" => Len(job[p].pages) <= SegPages + StackPages

\* The inductive invariant of Vm.
VmInv == VmTypes /\ FramesInv /\ SlotInv /\ LoopInv /\ HeapMatchesSize /\ FreeSlotEmpty

-----------------------------------------------------------------------------
(* What a step does to the places, and why each frame keeps one.            *)
\* Two places of one frame are the same place, and it is not free.
LEMMA OwnUnique ==
    ASSUME FramesInv, NEW f \in Frame, NEW k \in Kind, NEW p \in VmProc, NEW i \in Nat,
           Own(f, k, p, i)
    PROVE  /\ ~IsFree(f) /\ ref_count[f] = 1
           /\ \A l \in Kind, q \in VmProc, j \in Nat : Own(f, l, q, j) => l = k /\ q = p /\ j = i
<1>1. ~IsFree(f) /\ ref_count[f] = 1 BY DEF FramesInv
<1>2. Sole(f) BY <1>1 DEF FramesInv
<1>3. PICK k0 \in Kind, p0 \in VmProc, i0 \in Nat :
        \A l \in Kind, q \in VmProc, j \in Nat : Own(f, l, q, j) <=> l = k0 /\ q = p0 /\ j = i0
  BY <1>2 DEF Sole
<1> QED BY <1>1, <1>3

\* A frame that stays where it is, or goes to one place.
LEMMA SoleKept ==
    ASSUME FramesInv, NEW f \in Frame, ~IsFree(f),
           \A k \in Kind, p \in VmProc, i \in Nat : Own(f, k, p, i)' <=> Own(f, k, p, i)
    PROVE  Sole(f)'
<1>1. Sole(f) BY DEF FramesInv
<1>2. PICK k0 \in Kind, p0 \in VmProc, i0 \in Nat :
        \A l \in Kind, q \in VmProc, j \in Nat : Own(f, l, q, j) <=> l = k0 /\ q = p0 /\ j = i0
  BY <1>1 DEF Sole
<1>3. \A l \in Kind, q \in VmProc, j \in Nat : Own(f, l, q, j)' <=> l = k0 /\ q = p0 /\ j = i0
  BY <1>2
<1> QED BY SMTT(30), <1>3 DEF Sole

\* A step that allocates and frees nothing, and moves nothing.
LEMMA KeepStep ==
    ASSUME FramesInv, Keeps PROVE FramesInv'
<1> USE DEF Keeps
<1>1. \A f : IsFree(f)' <=> IsFree(f) BY DEF IsFree, memVars
<1>2. ref_count' = ref_count /\ freelist' = freelist BY DEF memVars
<1>3. Inj(freelist)' BY <1>2 DEF FramesInv
<1>4. ASSUME NEW f \in Frame, IsFree(f)'
      PROVE  ref_count'[f] = 0 /\ \A k \in Kind, p \in VmProc, i \in Nat : ~Own(f, k, p, i)'
  BY <1>1, <1>2, <1>4 DEF FramesInv
<1>5. ASSUME NEW f \in Frame, ~IsFree(f)' PROVE ref_count'[f] = 1 /\ Sole(f)'
  <2>1. ~IsFree(f) BY <1>1, <1>5
  <2> QED BY <1>2, <2>1, SoleKept DEF FramesInv
<1> QED BY <1>3, <1>4, <1>5 DEF FramesInv

\* kalloc(): the frame goes to one place.
LEMMA AllocStep ==
    ASSUME VmAssumption, FramesInv, freelist \in Seq(Frame), ref_count \in [Frame -> Nat],
           NEW k0 \in Kind, NEW p0 \in VmProc, NEW i0 \in Nat, Gains(k0, p0, i0)
    PROVE  FramesInv' /\ freelist' \in Seq(Frame) /\ ref_count' \in [Frame -> Nat]
<1> USE DEF Gains
<1> DEFINE h == Head(freelist)
<1>0. freelist # <<>> /\ Len(freelist) \in Nat /\ DOMAIN freelist = 1..Len(freelist) BY DEF OutOfMemory
<1>1. /\ h \in Frame /\ h = freelist[1] /\ 1 \in 1..Len(freelist)
      /\ freelist' = Tail(freelist) /\ freelist' \in Seq(Frame)
      /\ DOMAIN freelist' = 1..Len(freelist) - 1
      /\ \A i \in 1..Len(freelist) - 1 : freelist'[i] = freelist[i + 1] /\ i + 1 \in 1..Len(freelist)
  BY <1>0 DEF kalloc
<1> HIDE DEF h
<1>2. ref_count' \in [Frame -> Nat] /\ ref_count'[h] = 1 /\ \A f \in Frame : f # h => ref_count'[f] = ref_count[f]
  BY <1>1 DEF kalloc, h
<1>3. \A i, j \in 1..Len(freelist) : freelist[i] = freelist[j] => i = j BY <1>0 DEF FramesInv, Inj
<1>4. Inj(freelist)'
  <2> SUFFICES ASSUME NEW i \in 1..Len(freelist) - 1, NEW j \in 1..Len(freelist) - 1,
                      freelist'[i] = freelist'[j]
               PROVE  i = j
    BY <1>1 DEF Inj
  <2>1. freelist[i + 1] = freelist[j + 1] /\ i + 1 \in 1..Len(freelist) /\ j + 1 \in 1..Len(freelist)
    BY <1>1
  <2>2. i + 1 = j + 1 BY <2>1, <1>3
  <2> QED BY <2>2
<1>5. IsFree(h) BY <1>0, <1>1 DEF IsFree, ToSet
<1>6. h \notin ToSet(freelist')
  <2>1. \A i \in 1..Len(freelist) - 1 : freelist'[i] # h
    <3> TAKE i \in 1..Len(freelist) - 1
    <3>1. i + 1 # 1 /\ i + 1 \in 1..Len(freelist) BY <1>1
    <3>2. freelist[i + 1] # freelist[1] BY <1>1, <1>3, <3>1
    <3> QED BY <1>1, <3>2
  <2> QED BY <1>1, <2>1 DEF ToSet
<1>7. ASSUME NEW f \in Frame, f # h PROVE IsFree(f)' <=> IsFree(f)
  <2>1. ASSUME IsFree(f)' PROVE IsFree(f)
    <3>1. PICK i \in 1..Len(freelist) - 1 : freelist'[i] = f BY <1>1, <2>1 DEF IsFree, ToSet
    <3> QED BY <1>0, <1>1, <3>1 DEF IsFree, ToSet
  <2>2. ASSUME IsFree(f) PROVE IsFree(f)'
    <3>1. PICK i \in 1..Len(freelist) : freelist[i] = f BY <1>0, <2>2 DEF IsFree, ToSet
    <3>2. i # 1 BY <1>1, <1>7, <3>1
    <3>3. i - 1 \in 1..Len(freelist) - 1 /\ (i - 1) + 1 = i BY <1>0, <3>2
    <3>4. freelist'[i - 1] = f BY <1>1, <3>1, <3>3
    <3> QED BY <1>1, <3>3, <3>4 DEF IsFree, ToSet
  <2> QED BY <2>1, <2>2
<1>8. ASSUME NEW f \in Frame, IsFree(f)'
      PROVE  ref_count'[f] = 0 /\ \A k \in Kind, p \in VmProc, i \in Nat : ~Own(f, k, p, i)'
  <2>1. f # h BY <1>6, <1>8 DEF IsFree
  <2>2. IsFree(f) BY <1>7, <1>8, <2>1
  <2> QED BY <1>2, <2>1, <2>2 DEF FramesInv, h
<1>9. ASSUME NEW f \in Frame, ~IsFree(f)' PROVE ref_count'[f] = 1 /\ Sole(f)'
  <2>1. CASE f = h
    <3>1. \A k \in Kind, p \in VmProc, i \in Nat : ~Own(f, k, p, i) BY <1>5, <2>1 DEF FramesInv
    <3>2. \A k \in Kind, p \in VmProc, i \in Nat : Own(f, k, p, i)' <=> k = k0 /\ p = p0 /\ i = i0
      BY <2>1, <3>1 DEF h
    <3>3. Sole(f)'
      <4> SUFFICES \E k \in Kind, p \in VmProc, i \in Nat :
                      \A l \in Kind, q \in VmProc, j \in Nat :
                          Own(f, l, q, j)' <=> l = k /\ q = p /\ j = i
        BY DEF Sole
      <4> WITNESS k0 \in Kind, p0 \in VmProc, i0 \in Nat
      <4> QED BY <3>2
    <3> QED BY <1>2, <2>1, <3>3
  <2>2. CASE f # h
    <3>1. ~IsFree(f) BY <1>7, <1>9, <2>2
    <3>2. \A k \in Kind, p \in VmProc, i \in Nat : Own(f, k, p, i)' <=> Own(f, k, p, i) BY <2>2 DEF h
    <3>3. Sole(f)' BY <3>1, <3>2, SoleKept
    <3> QED BY <1>2, <2>2, <3>1, <3>3 DEF FramesInv
  <2> QED BY <2>1, <2>2
<1> QED BY <1>1, <1>2, <1>4, <1>8, <1>9 DEF FramesInv

\* kfree() of frames that are in no place afterwards.
LEMMA FreeStep ==
    ASSUME VmAssumption, FramesInv, freelist \in Seq(Frame), ref_count \in [Frame -> Nat],
           NEW s, Frees(s)
    PROVE  FramesInv' /\ freelist' \in Seq(Frame) /\ ref_count' \in [Frame -> Nat]
<1> USE DEF Frees
<1>0. Len(s) \in Nat /\ Len(freelist) \in Nat /\ DOMAIN s = 1..Len(s) /\ DOMAIN freelist = 1..Len(freelist) OBVIOUS
<1>1. ToSet(s) \cap ToSet(freelist) = {}
  <2>1. ToSet(s) \subseteq Frame BY <1>0 DEF ToSet
  <2> QED BY <2>1 DEF IsFree
<1>2. /\ freelist' \in Seq(Frame) /\ Inj(freelist')
      /\ ToSet(freelist') = ToSet(s) \cup ToSet(freelist)
  BY <1>1, PushedIs DEF kfree, FramesInv
<1>3. \A f \in Frame : IsFree(f)' <=> f \in ToSet(s) \/ IsFree(f) BY <1>2 DEF IsFree
<1>4. \A f \in Frame : ref_count'[f] = IF f \in ToSet(s) THEN 0 ELSE ref_count[f] BY DEF kfree
<1>5. ref_count' \in [Frame -> Nat]
  <2>1. ref_count' = [f \in Frame |-> IF f \in ToSet(s) THEN 0 ELSE ref_count[f]] BY DEF kfree
  <2> QED BY <2>1
<1>6. ASSUME NEW f \in Frame, IsFree(f)'
      PROVE  ref_count'[f] = 0 /\ \A k \in Kind, p \in VmProc, i \in Nat : ~Own(f, k, p, i)'
  BY <1>3, <1>4, <1>6 DEF FramesInv
<1>7. ASSUME NEW f \in Frame, ~IsFree(f)' PROVE ref_count'[f] = 1 /\ Sole(f)'
  BY <1>3, <1>4, <1>7 DEF FramesInv
<1> QED BY <1>2, <1>5, <1>6, <1>7 DEF FramesInv

\* A step that gives up the places D: their frames are those of s, which are
\* freed, and those of L, which nothing refers to any more.
LEMMA DropStep ==
    ASSUME VmAssumption, FramesInv, freelist \in Seq(Frame), ref_count \in [Frame -> Nat],
           NEW s, NEW D, NEW L, Drops(s, D, L)
    PROVE  FramesInv' /\ freelist' \in Seq(Frame) /\ ref_count' \in [Frame -> Nat]
<1> USE DEF Drops
<1>0. First \in VmProc /\ "lost" \in Kind BY DEF First, Kind, VmAssumption
<1>1. ASSUME NEW f \in Frame, f \in ToSet(s) \/ f \in L
      PROVE  /\ ~IsFree(f)
             /\ \A k \in Kind, p \in VmProc, i \in Nat : ~(Own(f, k, p, i) /\ <<k, p, i>> \notin D)
  <2>1. PICK k \in Kind, p \in VmProc, i \in Nat : <<k, p, i>> \in D /\ Own(f, k, p, i) BY <1>1
  <2>2. ~IsFree(f) BY <2>1, OwnUnique
  <2>3. \A l \in Kind, q \in VmProc, j \in Nat : Own(f, l, q, j) => l = k /\ q = p /\ j = i
    BY <2>1, OwnUnique
  <2> QED BY <2>1, <2>2, <2>3
<1>2. ASSUME NEW f \in Frame, NEW k \in Kind, NEW p \in VmProc, NEW i \in Nat, IsFree(f) \/ f \in ToSet(s)
      PROVE  ~Own(f, k, p, i)'
  <2>1. CASE f \in ToSet(s)
    <3>1. f \notin L BY <2>1
    <3>2. ~(Own(f, k, p, i) /\ <<k, p, i>> \notin D) BY <1>1, <2>1
    <3> QED BY <3>1, <3>2
  <2>2. CASE IsFree(f)
    <3>1. ~Own(f, k, p, i) /\ f \notin L BY <1>1, <2>2 DEF FramesInv
    <3> QED BY <3>1
  <2> QED BY <1>2, <2>1, <2>2
<1>3. ASSUME NEW f \in Frame, ~IsFree(f), f \notin ToSet(s) PROVE Sole(f)'
  <2>1. CASE f \in L
    <3>1. \A k \in Kind, p \in VmProc, i \in Nat : Own(f, k, p, i)' <=> k = "lost" /\ p = First /\ i = 0
      <4>1. \A k \in Kind, p \in VmProc, i \in Nat : ~(Own(f, k, p, i) /\ <<k, p, i>> \notin D)
        BY <1>1, <2>1
      <4> TAKE k \in Kind, p \in VmProc, i \in Nat
      <4>2. Own(f, k, p, i)' <=> (Own(f, k, p, i) /\ <<k, p, i>> \notin D) \/ (f \in L /\ k = "lost" /\ p = First /\ i = 0)
        OBVIOUS
      <4> QED BY <2>1, <4>1, <4>2
    <3>2. \E k \in Kind, p \in VmProc, i \in Nat :
             \A l \in Kind, q \in VmProc, j \in Nat :
                 Own(f, l, q, j)' <=> l = k /\ q = p /\ j = i
      <4> "lost" \in Kind /\ First \in VmProc /\ 0 \in Nat BY <1>0
      <4> WITNESS "lost" \in Kind, First \in VmProc, 0 \in Nat
      <4> QED BY <3>1
    <3> QED BY <3>2 DEF Sole
  <2>2. CASE f \notin L
    <3>1. \A k \in Kind, p \in VmProc, i \in Nat : Own(f, k, p, i)' <=> Own(f, k, p, i)
      BY <1>3, <2>2
    <3> QED BY <1>3, <3>1, SoleKept
  <2> QED BY <2>1, <2>2
<1>4. \A f \in Frame : f \in ToSet(s) => ~IsFree(f) BY <1>1
<1>5. Frees(s)
  <2>1. s \in Seq(Frame) /\ Inj(s) /\ kfree(s) OBVIOUS
  <2> HIDE DEF Drops
  <2> QED BY <1>2, <1>3, <1>4, <2>1 DEF Frees
<1> HIDE DEF Drops
<1> QED BY <1>5, FreeStep

-----------------------------------------------------------------------------
(* The heap, the mmap area and kderef().                                    *)
\* The frames in a heap, or in the page table that exec() builds, differ.
LEMMA HeapInj ==
    ASSUME VmTypes, FramesInv, NEW p \in VmProc
    PROVE  Inj(heap[p])
<1>1. heap[p] \in Seq(Frame) BY DEF VmTypes
<1>2. Len(heap[p]) \in Nat /\ DOMAIN heap[p] = 1..Len(heap[p]) BY <1>1
<1>3. ASSUME NEW i \in 1..Len(heap[p]), NEW j \in 1..Len(heap[p]), heap[p][i] = heap[p][j]
      PROVE  i = j
  <2> DEFINE f == heap[p][i]
  <2>1. f \in Frame BY <1>1
  <2>2. Own(f, "heap", p, i) /\ Own(f, "heap", p, j) BY <1>2, <1>3 DEF Own
  <2>3. "heap" \in Kind /\ i \in Nat /\ j \in Nat BY <1>2 DEF Kind
  <2> HIDE DEF f
  <2> QED BY <2>1, <2>2, <2>3, OwnUnique
<1> QED BY <1>2, <1>3 DEF Inj

\* So are the pages that exec() has mapped.
LEMMA PagesInj ==
    ASSUME VmTypes, FramesInv, NEW p \in VmProc, job[p].kind = "exec", job[p].pages \in Seq(Frame)
    PROVE  Inj(job[p].pages)
<1>2. Len(job[p].pages) \in Nat /\ DOMAIN job[p].pages = 1..Len(job[p].pages) OBVIOUS
<1>3. ASSUME NEW i \in 1..Len(job[p].pages), NEW j \in 1..Len(job[p].pages),
             job[p].pages[i] = job[p].pages[j]
      PROVE  i = j
  <2> DEFINE f == job[p].pages[i]
  <2>1. f \in Frame OBVIOUS
  <2>2. Own(f, "exec", p, i) /\ Own(f, "exec", p, j) BY <1>2, <1>3 DEF Own
  <2>3. "exec" \in Kind /\ i \in Nat /\ j \in Nat BY <1>2 DEF Kind
  <2> HIDE DEF f
  <2> QED BY <2>1, <2>2, <2>3, OwnUnique
<1> QED BY <1>2, <1>3 DEF Inj

\* The frames of some addresses of the mmap area are listed once each.
LEMMA MappedIs ==
    ASSUME VmAssumption, VmTypes, FramesInv, NEW p \in VmProc, NEW vas
    PROVE  /\ Mapped(p, vas) \in Seq(Frame)
           /\ Inj(Mapped(p, vas))
           /\ \A f : f \in ToSet(Mapped(p, vas)) <=>
                        \E va \in VA : va \in vas /\ pt[p][va] = f /\ f # NoFrame
<1> DEFINE S == {va \in VA \cap vas : pt[p][va] # NoFrame}
           s == Ordered(S)
           m == [i \in DOMAIN s |-> pt[p][s[i]]]
<1>0. m = Mapped(p, vas) BY DEF Mapped
<1>1. S \in SUBSET Int /\ IsFiniteSet(S)
  <2>0. MMAP_NUM * MMAP_PAGES - 1 \in Int BY DEF VmAssumption
  <2>1. IsFiniteSet(VA) /\ VA \in SUBSET Int BY <2>0, FS_Interval DEF VA
  <2>2. S \subseteq VA OBVIOUS
  <2> QED BY <2>1, <2>2, FS_Subset
<1> HIDE DEF S
<1>2. s \in Seq(S) /\ Inj(s) /\ ToSet(s) = S BY <1>1, OrderedIs
<1> HIDE DEF s
<1>3. Len(s) \in Nat /\ DOMAIN s = 1..Len(s) /\ \A i \in 1..Len(s) : s[i] \in S BY <1>2
<1>4. \A va \in S : va \in VA /\ va \in Nat /\ va \in vas /\ pt[p][va] \in Frame /\ pt[p][va] # NoFrame
  <2>1. pt[p] \in [VA -> Frame \cup {NoFrame}] BY DEF VmTypes
  <2>2. VA \subseteq Nat BY DEF VA
  <2> QED BY <2>1, <2>2 DEF S
<1>5. m \in Seq(Frame) /\ DOMAIN m = 1..Len(s) /\ \A i \in 1..Len(s) : m[i] = pt[p][s[i]]
  BY <1>3, <1>4
<1> HIDE DEF m
<1>6. Inj(m)
  <2> SUFFICES ASSUME NEW i \in 1..Len(s), NEW j \in 1..Len(s), m[i] = m[j] PROVE i = j
    BY <1>5 DEF Inj
  <2> DEFINE f == m[i]
  <2>1. s[i] \in S /\ s[j] \in S /\ f = pt[p][s[i]] /\ f = pt[p][s[j]] BY <1>3, <1>5
  <2>2. f \in Frame /\ "map" \in Kind /\ s[i] \in Nat /\ s[j] \in Nat BY <1>4, <2>1 DEF Kind
  <2>3. Own(f, "map", p, s[i]) /\ Own(f, "map", p, s[j]) BY <1>4, <2>1 DEF Own
  <2> HIDE DEF f
  <2>4. s[i] = s[j] BY <2>2, <2>3, OwnUnique
  <2> QED BY <1>2, <1>3, <2>4 DEF Inj
<1>7. \A f : f \in ToSet(m) <=> \E va \in VA : va \in vas /\ pt[p][va] = f /\ f # NoFrame
  <2> TAKE f
  <2>1. ASSUME f \in ToSet(m) PROVE \E va \in VA : va \in vas /\ pt[p][va] = f /\ f # NoFrame
    <3>1. PICK i \in 1..Len(s) : m[i] = f BY <1>5, <2>1 DEF ToSet
    <3>2. s[i] \in S /\ pt[p][s[i]] = f BY <1>3, <1>5, <3>1
    <3> QED BY <1>4, <3>2
  <2>2. ASSUME NEW va \in VA, va \in vas, pt[p][va] = f, f # NoFrame PROVE f \in ToSet(m)
    <3>1. va \in S BY <2>2 DEF S
    <3>2. PICK i \in 1..Len(s) : s[i] = va BY <1>2, <1>3, <3>1 DEF ToSet
    <3>3. m[i] = f BY <1>5, <2>2, <3>2
    <3> QED BY <1>5, <3>3 DEF ToSet
  <2> QED BY <2>1, <2>2
<1> QED BY <1>0, <1>5, <1>6, <1>7

\* kderef() of frames with one reference each frees them all.
LEMMA KderefIs ==
    ASSUME ref_count \in [Frame -> Nat], NEW s \in Seq(Frame), Inj(s),
           \A i \in DOMAIN s : ref_count[s[i]] = 1, kderef(s)
    PROVE  \E t \in Seq(Frame) : Inj(t) /\ ToSet(t) = ToSet(s) /\ kfree(t)
<1> DEFINE S == {i \in DOMAIN s : ref_count[s[i]] = 1}
           o == Ordered(S)
           t == [j \in DOMAIN o |-> s[o[j]]]
<1>0. Len(s) \in Nat /\ DOMAIN s = 1..Len(s) OBVIOUS
<1>1. S = 1..Len(s) BY <1>0
<1>2. S \in SUBSET Int /\ IsFiniteSet(S)
  <2> HIDE DEF S
  <2> QED BY <1>0, <1>1, FS_Interval
<1>3. o \in Seq(S) /\ Inj(o) /\ ToSet(o) = S
  <2> HIDE DEF S
  <2> QED BY <1>2, OrderedIs
<1>d. freelist' = Reverse(t) \o freelist
      /\ ref_count' = [f \in Frame |-> IF f \in ToSet(s) THEN ref_count[f] - 1 ELSE ref_count[f]]
  BY Zenon DEF kderef
<1> HIDE DEF S, o
<1>4. Len(o) \in Nat /\ DOMAIN o = 1..Len(o) /\ \A j \in 1..Len(o) : o[j] \in 1..Len(s) BY <1>1, <1>3
<1>5. t \in Seq(Frame) /\ DOMAIN t = 1..Len(o) /\ \A j \in 1..Len(o) : t[j] = s[o[j]]
  BY <1>0, <1>4
<1> HIDE DEF t
<1>6. Inj(t)
  <2> SUFFICES ASSUME NEW i \in 1..Len(o), NEW j \in 1..Len(o), t[i] = t[j] PROVE i = j
    BY <1>5 DEF Inj
  <2>1. s[o[i]] = s[o[j]] /\ o[i] \in 1..Len(s) /\ o[j] \in 1..Len(s) BY <1>4, <1>5
  <2>2. o[i] = o[j] BY <1>0, <2>1 DEF Inj
  <2> QED BY <1>3, <1>4, <2>2 DEF Inj
<1>7. ToSet(t) = ToSet(s)
  <2>1. ASSUME NEW f \in ToSet(t) PROVE f \in ToSet(s)
    <3>1. PICK j \in 1..Len(o) : t[j] = f BY <1>5 DEF ToSet
    <3> QED BY <1>0, <1>4, <1>5, <3>1 DEF ToSet
  <2>2. ASSUME NEW f \in ToSet(s) PROVE f \in ToSet(t)
    <3>1. PICK i \in 1..Len(s) : s[i] = f BY <1>0 DEF ToSet
    <3>2. i \in ToSet(o) BY <1>1, <1>3
    <3>3. PICK j \in 1..Len(o) : o[j] = i BY <1>4, <3>2 DEF ToSet
    <3>4. t[j] = f BY <1>5, <3>1, <3>3
    <3> QED BY <1>5, <3>4 DEF ToSet
  <2> QED BY <2>1, <2>2
<1>8. ref_count' = [f \in Frame |-> IF f \in ToSet(t) THEN 0 ELSE ref_count[f]]
  <2>1. ASSUME NEW f \in Frame, f \in ToSet(s) PROVE ref_count[f] - 1 = 0
    <3>1. PICK i \in 1..Len(s) : s[i] = f BY <1>0, <2>1 DEF ToSet
    <3> QED BY <1>0, <3>1
  <2>2. \A f \in Frame : (IF f \in ToSet(s) THEN ref_count[f] - 1 ELSE ref_count[f])
                         = (IF f \in ToSet(t) THEN 0 ELSE ref_count[f])
    BY <1>7, <2>1
  <2> QED BY <1>d, <2>2
<1>9. kfree(t) BY <1>d, <1>8 DEF kfree
<1> QED BY <1>5, <1>6, <1>7, <1>9

-----------------------------------------------------------------------------
(* Facts that the steps share.                                              *)
\* What the calls in progress look like.
LEMMA JobIs ==
    ASSUME NEW j \in Jobs
    PROVE  /\ j.kind \in {"none", "killed", "grow", "fork", "exec", "fault"}
           /\ j.kind = "none" <=> j = NoJob
           /\ j.kind = "grow" => j.newsz \in Nat
           /\ j.kind = "fork" => j.child \in VmProc
           /\ j.kind = "exec" => j.root \in Frame /\ j.pages \in Seq(Frame)
           /\ j.kind = "fault" => j.va \in VA /\ j.frame \in Frame
           /\ \A c : j = [kind |-> "fork", child |-> c] <=> j.kind = "fork" /\ j.child = c
<1>1. CASE j = NoJob BY <1>1 DEF NoJob
<1>2. CASE j = [kind |-> "killed"] BY <1>2 DEF NoJob
<1>3. CASE j \in [kind : {"grow"}, newsz : Nat] BY <1>3 DEF NoJob
<1>4. CASE j \in [kind : {"fork"}, child : VmProc]
  <2>1. j = [kind |-> "fork", child |-> j.child] /\ j.child \in VmProc BY <1>4
  <2> QED BY <2>1 DEF NoJob
<1>5. CASE j \in [kind : {"exec"}, root : Frame, pages : Seq(Frame)] BY <1>5 DEF NoJob
<1>6. CASE j \in [kind : {"fault"}, va : VA, frame : Frame] BY <1>6 DEF NoJob
<1> QED BY <1>1, <1>2, <1>3, <1>4, <1>5, <1>6 DEF Jobs

\* The values that steps give to job.
LEMMA JobValues ==
    /\ NoJob \in Jobs /\ [kind |-> "killed"] \in Jobs
    /\ \A n \in Nat : [kind |-> "grow", newsz |-> n] \in Jobs
    /\ \A c \in VmProc : [kind |-> "fork", child |-> c] \in Jobs
    /\ \A r \in Frame, s \in Seq(Frame) : [kind |-> "exec", root |-> r, pages |-> s] \in Jobs
    /\ \A va \in VA, f \in Frame : [kind |-> "fault", va |-> va, frame |-> f] \in Jobs
BY DEF Jobs

\* A list of different frames is no longer than the memory.
LEMMA SeqFits ==
    ASSUME NEW s \in Seq(Frame), Inj(s) PROVE Len(s) <= NFrames
<1>1. Len(s) \in Nat /\ DOMAIN s = 1..Len(s) /\ s \in [1..Len(s) -> Frame] OBVIOUS
<1>2. s \in Injection(1..Len(s), Frame)
  <2>1. \A i, j \in 1..Len(s) : s[i] = s[j] => i = j BY <1>1 DEF Inj
  <2> QED BY <1>1, <2>1, Fun_IsInj
<1>3. NFrames \in Nat BY VmAssumption
<1>4. IsFiniteSet(Frame) /\ Cardinality(Frame) = NFrames
  BY <1>3, FS_Interval DEF Frame
<1>5. Cardinality(1..Len(s)) = Len(s) BY SMTT(30), <1>1, FS_Interval
<1>6. Cardinality(1..Len(s)) <= Cardinality(Frame) BY <1>2, <1>4, FS_Injection
<1> QED BY <1>4, <1>5, <1>6

\* What the parts of the invariant say.
LEMMA InvParts ==
    ASSUME VmInv
    PROVE  /\ VmTypes /\ FramesInv /\ SlotInv /\ LoopInv /\ HeapMatchesSize /\ FreeSlotEmpty
           /\ freelist \in Seq(Frame) /\ ref_count \in [Frame -> Nat] /\ job \in [VmProc -> Jobs]
           /\ vmState \in [VmProc -> {"unused", "live", "zombie"}]
           /\ tf \in [VmProc -> Frame \cup {NoFrame}] /\ root \in [VmProc -> Frame \cup {NoFrame}]
           /\ heap \in [VmProc -> Seq(Frame)] /\ vsz \in [VmProc -> 0..NFrames]
           /\ pt \in [VmProc -> [VA -> Frame \cup {NoFrame}]]
           /\ lost \subseteq Frame
           /\ \A p \in VmProc : heap[p] \in Seq(Frame) /\ Len(heap[p]) \in Nat /\ vsz[p] \in Nat
           /\ \A p \in VmProc : vmState[p] \in {"unused", "live", "zombie"}
           /\ \A p \in VmProc : job[p] \in Jobs
           /\ \A p \in VmProc : job[p] # NoJob => vmState[p] = "live"
           /\ NoFrame \notin Frame
BY DEF VmInv, VmTypes, SlotInv, Frame, NoFrame

\* A step that touches no memory and finishes no call.
LEMMA StillStep ==
    ASSUME VmInv, UNCHANGED <<memVars, vmState, tf, root, heap, vsz, pt, job, lost>>,
           ofile' \in [VmProc -> SUBSET VmFile], fileRef' \in [VmFile -> Nat]
    PROVE  VmInv'
<1>1. Keeps BY DEF Own, Keeps
<1>2. FramesInv' BY <1>1, InvParts, KeepStep
<1>3. VmTypes' BY InvParts DEF VmTypes, memVars
<1>4. SlotInv' /\ LoopInv' BY InvParts DEF SlotInv, LoopInv, LeafLeft, Forks
<1>5. HeapMatchesSize' /\ FreeSlotEmpty' BY InvParts DEF HeapMatchesSize, FreeSlotEmpty, LeafLeft
<1> QED BY <1>2, <1>3, <1>4, <1>5 DEF VmInv

\* A step that moves no frame, and starts or ends no call that holds one.
JobKeeps ==
    \A q \in VmProc :
        \/ job'[q] = job[q]
        \/ job[q].kind \notin {"exec", "fault"} /\ job'[q].kind \notin {"exec", "fault"}

\* A step that changes no place, and no call that holds frames.
LEMMA KeepsWhen ==
    ASSUME UNCHANGED <<memVars, tf, root, heap, pt, lost>>, JobKeeps
    PROVE  Keeps
<1>1. ASSUME NEW f \in Frame, NEW k \in Kind, NEW p \in VmProc, NEW i \in Nat
      PROVE  Own(f, k, p, i)' <=> Own(f, k, p, i)
  <2>1. CASE job'[p] = job[p] BY <2>1 DEF Own
  <2>2. CASE job[p].kind \notin {"exec", "fault"} /\ job'[p].kind \notin {"exec", "fault"}
    BY <2>2 DEF Own
  <2> QED BY <2>1, <2>2 DEF JobKeeps
<1> QED BY <1>1 DEF Keeps

\* A frame more at the end of a heap: uvmalloc() and uvmcopy().
LEMMA HeapGains ==
    ASSUME VmInv, NEW p \in VmProc, ~OutOfMemory, kalloc,
           heap' = [heap EXCEPT ![p] = Append(@, Head(freelist))],
           UNCHANGED <<tf, root, pt, job, lost>>
    PROVE  /\ FramesInv' /\ freelist' \in Seq(Frame) /\ ref_count' \in [Frame -> Nat]
           /\ heap' \in [VmProc -> Seq(Frame)] /\ Len(heap'[p]) = Len(heap[p]) + 1
           /\ \A q \in VmProc : q # p => heap'[q] = heap[q]
<1> DEFINE h == Head(freelist)
<1>1. FramesInv /\ freelist \in Seq(Frame) /\ ref_count \in [Frame -> Nat] /\ heap \in [VmProc -> Seq(Frame)]
  BY InvParts
<1>2. h \in Frame BY <1>1 DEF OutOfMemory
<1>3. /\ Append(heap[p], h) \in Seq(Frame)
      /\ Len(heap[p]) \in Nat /\ Len(Append(heap[p], h)) = Len(heap[p]) + 1
      /\ \A j \in 1..Len(heap[p]) : Append(heap[p], h)[j] = heap[p][j]
      /\ Append(heap[p], h)[Len(heap[p]) + 1] = h
  BY <1>1, <1>2
<1>4. /\ heap'[p] = Append(heap[p], h) /\ \A q \in VmProc : q # p => heap'[q] = heap[q]
      /\ heap' \in [VmProc -> Seq(Frame)]
  BY <1>1, <1>3
<1>5. Gains("heap", p, Len(heap[p]) + 1)
  <2> SUFFICES ASSUME NEW f \in Frame, NEW k \in Kind, NEW q \in VmProc, NEW i \in Nat
               PROVE  Own(f, k, q, i)' <=>
                        Own(f, k, q, i) \/ (f = h /\ k = "heap" /\ q = p /\ i = Len(heap[p]) + 1)
    BY DEF Gains
  <2>1. i \in 1..Len(heap'[q]) /\ heap'[q][i] = f
           <=> (i \in 1..Len(heap[q]) /\ heap[q][i] = f) \/ (f = h /\ q = p /\ i = Len(heap[p]) + 1)
    BY <1>3, <1>4
  <2> QED BY <2>1 DEF Own
<1>6. FramesInv' /\ freelist' \in Seq(Frame) /\ ref_count' \in [Frame -> Nat]
  <2>1. "heap" \in Kind /\ Len(heap[p]) + 1 \in Nat BY <1>3 DEF Kind
  <2> QED BY <1>1, <1>5, <2>1, AllocStep, VmAssumption
<1> QED BY <1>3, <1>4, <1>6

\* A heap cut to its first m frames: uvmdealloc().
LEMMA HeapCut ==
    ASSUME VmInv, NEW p \in VmProc, NEW m \in Nat, m <= Len(heap[p]),
           kfree(SubSeq(heap[p], m + 1, Len(heap[p]))),
           heap' = [heap EXCEPT ![p] = SubSeq(@, 1, m)],
           UNCHANGED <<tf, root, pt, lost>>, JobKeeps
    PROVE  /\ FramesInv' /\ freelist' \in Seq(Frame) /\ ref_count' \in [Frame -> Nat]
           /\ heap' \in [VmProc -> Seq(Frame)] /\ Len(heap'[p]) = m
           /\ \A q \in VmProc : q # p => heap'[q] = heap[q]
<1> DEFINE n == Len(heap[p])
           s == SubSeq(heap[p], m + 1, n)
           D == {"heap"} \X {p} \X (m + 1..n)
<1>1. /\ FramesInv /\ VmTypes /\ freelist \in Seq(Frame) /\ ref_count \in [Frame -> Nat]
      /\ heap \in [VmProc -> Seq(Frame)] /\ n \in Nat /\ heap[p] \in Seq(Frame)
  BY InvParts
<1>2. Inj(heap[p]) BY <1>1, HeapInj
<1>3. s \in Seq(Frame) /\ Inj(s) /\ ToSet(s) = {heap[p][i] : i \in m + 1..n}
  <2>1. m + 1 \in Nat /\ m + 1 >= 1 /\ n <= Len(heap[p]) BY <1>1
  <2> QED BY <1>1, <1>2, <2>1, PartIs
<1>4. /\ SubSeq(heap[p], 1, m) \in Seq(Frame) /\ Len(SubSeq(heap[p], 1, m)) = m
      /\ \A i \in 1..m : SubSeq(heap[p], 1, m)[i] = heap[p][i]
  BY <1>1
<1>5. /\ heap'[p] = SubSeq(heap[p], 1, m) /\ \A q \in VmProc : q # p => heap'[q] = heap[q]
      /\ heap' \in [VmProc -> Seq(Frame)]
  BY <1>1, <1>4
<1> HIDE DEF s
<1>6. Drops(s, D, {})
  <2>1. ASSUME NEW f \in Frame, f \in ToSet(s) \/ f \in {}
        PROVE  \E k \in Kind, q \in VmProc, i \in Nat : <<k, q, i>> \in D /\ Own(f, k, q, i)
    <3>1. PICK i \in m + 1..n : heap[p][i] = f BY <1>3, <2>1
    <3>2. "heap" \in Kind /\ i \in Nat /\ i \in 1..Len(heap[p]) BY <1>1 DEF Kind
    <3>3. Own(f, "heap", p, i) BY <3>1, <3>2 DEF Own
    <3> QED BY <3>2, <3>3
  <2>2. ASSUME NEW f \in Frame, NEW k \in Kind, NEW q \in VmProc, NEW i \in Nat,
               <<k, q, i>> \in D, Own(f, k, q, i)
        PROVE  f \in ToSet(s)
    BY <1>3, <2>2 DEF Own
  <2>3. ASSUME NEW f \in Frame, NEW k \in Kind, NEW q \in VmProc, NEW i \in Nat
        PROVE  Own(f, k, q, i)' <=> Own(f, k, q, i) /\ <<k, q, i>> \notin D
    <3>0. i \in 1..Len(heap'[q]) /\ heap'[q][i] = f
             <=> (i \in 1..Len(heap[q]) /\ heap[q][i] = f) /\ ~(q = p /\ i \in m + 1..n)
      <4>1. CASE q = p BY <1>1, <1>4, <1>5, <4>1
      <4>2. CASE q # p BY <1>5, <4>2
      <4> QED BY <4>1, <4>2
    <3>1. CASE k = "heap" BY <3>0, <3>1 DEF Own
    <3>2. CASE k # "heap"
      <4>1. <<k, q, i>> \notin D BY <3>2
      <4>2. CASE job'[q] = job[q] BY <3>2, <4>1, <4>2 DEF Own
      <4>3. CASE job[q].kind \notin {"exec", "fault"} /\ job'[q].kind \notin {"exec", "fault"}
        BY <3>2, <4>1, <4>3 DEF Own
      <4> QED BY <4>2, <4>3 DEF JobKeeps
    <3> QED BY <3>1, <3>2
  <2>4. kfree(s) BY DEF s
  <2> QED BY <1>3, <2>1, <2>2, <2>3, <2>4 DEF Drops
<1>7. FramesInv' /\ freelist' \in Seq(Frame) /\ ref_count' \in [Frame -> Nat]
  BY <1>1, <1>6, DropStep, VmAssumption
<1> QED BY <1>4, <1>5, <1>7

\* A step of a live process, or its exit, outside fork(): it leaves the others
\* alone.
Alone(p) ==
    /\ vmState[p] = "live" /\ job[p].kind # "fork"
    /\ vmState' \in [VmProc -> {"unused", "live", "zombie"}]
    /\ vmState'[p] \in {"live", "zombie"} /\ (vmState'[p] = "zombie" => job'[p] = NoJob)
    /\ tf'[p] # NoFrame /\ root'[p] # NoFrame
    /\ job' \in [VmProc -> Jobs] /\ job'[p].kind # "fork"
    /\ job'[p].kind = "grow" => vsz'[p] <= Len(heap'[p]) /\ Len(heap'[p]) <= job'[p].newsz
    /\ job'[p].kind = "exec" => Len(job'[p].pages) <= SegPages + StackPages
    /\ job'[p].kind # "grow" => Len(heap'[p]) = vsz'[p]
    /\ \A q \in VmProc : q # p =>
          /\ vmState'[q] = vmState[q] /\ tf'[q] = tf[q] /\ root'[q] = root[q]
          /\ heap'[q] = heap[q] /\ vsz'[q] = vsz[q] /\ pt'[q] = pt[q] /\ job'[q] = job[q]

\* What such a step preserves.
LEMMA AloneStep ==
    ASSUME VmInv, NEW p \in VmProc, Alone(p)
    PROVE  SlotInv' /\ LoopInv' /\ HeapMatchesSize' /\ FreeSlotEmpty'
<1> USE DEF Alone
<1>1. \A q, c \in VmProc : Forks(q, c)' <=> Forks(q, c) BY DEF Forks
<1>2. \A q, c \in VmProc : Forks(q, c) => q # p /\ c # p
  BY InvParts DEF SlotInv, Forks
<1>3. SlotInv'
  <2>1. \A q \in VmProc : vmState'[q] # "live" => job'[q] = NoJob
    BY ZenonT(40), InvParts DEF SlotInv
  <2>2. \A q \in VmProc : vmState'[q] # "unused" => tf'[q] # NoFrame /\ root'[q] # NoFrame
    BY ZenonT(40), InvParts DEF SlotInv
  <2>3. \A q \in VmProc : vmState'[q] = "unused" => vsz'[q] = 0 /\ ~LeafLeft(q)'
    <3> SUFFICES ASSUME NEW q \in VmProc, vmState'[q] = "unused" PROVE vsz'[q] = 0 /\ ~LeafLeft(q)'
      OBVIOUS
    <3>1. q # p /\ vmState[q] = "unused" OBVIOUS
    <3>2. vsz[q] = 0 /\ ~LeafLeft(q) BY <3>1, InvParts DEF SlotInv
    <3> QED BY <3>1, <3>2 DEF LeafLeft
  <2>4. \A q, c \in VmProc : Forks(q, c)' =>
          /\ vmState'[c] = "unused" /\ tf'[c] # NoFrame
          /\ root'[c] = NoFrame => heap'[c] = <<>>
          /\ Len(heap'[c]) <= vsz'[q]
    BY <1>1, <1>2, InvParts DEF SlotInv
  <2>5. \A q, r, c \in VmProc : Forks(q, c)' /\ Forks(r, c)' => q = r
    BY <1>1, InvParts DEF SlotInv
  <2> QED BY <2>1, <2>2, <2>3, <2>4, <2>5 DEF SlotInv
<1>4. LoopInv' BY InvParts DEF LoopInv
<1>5. HeapMatchesSize' BY InvParts DEF HeapMatchesSize
<1>6. FreeSlotEmpty'
  <2>1. \A q, c \in VmProc : job'[q] = [kind |-> "fork", child |-> c] <=> Forks(q, c)'
    <3> TAKE q, c \in VmProc
    <3>1. job'[q] \in Jobs OBVIOUS
    <3> HIDE DEF Alone
    <3> QED BY <3>1, JobIs DEF Forks
  <2>2. \A q, c \in VmProc : job[q] = [kind |-> "fork", child |-> c] <=> Forks(q, c)
    <3> TAKE q, c \in VmProc
    <3>1. job[q] \in Jobs BY InvParts
    <3> HIDE DEF Alone
    <3> QED BY <3>1, JobIs DEF Forks
  <2> SUFFICES ASSUME NEW c \in VmProc, vmState'[c] = "unused", \A q \in VmProc : ~Forks(q, c)'
               PROVE  tf'[c] = NoFrame /\ root'[c] = NoFrame /\ heap'[c] = <<>> /\ ~LeafLeft(c)'
    BY <2>1 DEF FreeSlotEmpty
  <2>3. c # p /\ vmState[c] = "unused" OBVIOUS
  <2>4. ~ \E q \in VmProc : job[q] = [kind |-> "fork", child |-> c] BY <1>1, <2>2
  <2>5. tf[c] = NoFrame /\ root[c] = NoFrame /\ heap[c] = <<>> /\ ~LeafLeft(c)
    BY <2>3, <2>4, InvParts DEF FreeSlotEmpty
  <2> QED BY <2>3, <2>5 DEF LeafLeft
<1> QED BY <1>3, <1>4, <1>5, <1>6

-----------------------------------------------------------------------------
(* sbrk().                                                                  *)
\* sbrk().
LEMMA GrowStep ==
    ASSUME VmInv, NEW p \in VmProc, NEW n \in 1..2, Grow(p, n) PROVE VmInv'
<1> USE DEF Grow, Call
<1> DEFINE j == [kind |-> "grow", newsz |-> vsz[p] + n]
<1>1. /\ vsz[p] \in Nat /\ job[p].kind = "none" /\ Len(heap[p]) = vsz[p] /\ vmState[p] = "live"
      /\ job \in [VmProc -> Jobs]
  BY SMTT(30), InvParts DEF HeapMatchesSize, NoJob
<1>2. j \in Jobs /\ job' = [job EXCEPT ![p] = j] BY <1>1, JobValues
<1>3. job' \in [VmProc -> Jobs] /\ job'[p] = j /\ \A q \in VmProc : q # p => job'[q] = job[q]
  BY <1>1, <1>2
<1>4. JobKeeps BY <1>1, <1>3 DEF JobKeeps
<1>5. FramesInv'
  <2>1. Keeps BY <1>4, KeepsWhen DEF vmProcVars
  <2> QED BY <2>1, InvParts, KeepStep
<1>6. VmTypes' BY <1>3, InvParts DEF VmTypes, VmInv, memVars, vmProcVars, fileVars
<1>7. Alone(p)
  <2>1. j.kind = "grow" /\ j.newsz = vsz[p] + n /\ Len(heap[p]) <= j.newsz BY <1>1
  <2> QED BY <1>1, <1>3, <2>1, InvParts DEF Alone, SlotInv, vmProcVars
<1> QED BY <1>5, <1>6, <1>7, AloneStep DEF VmInv

\* A turn of the loop of uvmalloc().
LEMMA GrowPageStep ==
    ASSUME VmInv, NEW p \in VmProc, GrowPage(p) PROVE VmInv'
<1> USE DEF GrowPage
<1>1. /\ job[p].kind = "grow" /\ vmState[p] = "live" /\ job[p].newsz \in Nat
      /\ vsz[p] <= Len(heap[p]) /\ vsz[p] \in Nat /\ Len(heap[p]) \in Nat
  BY InvParts, JobIs DEF LoopInv, NoJob
<1>2. /\ FramesInv' /\ freelist' \in Seq(Frame) /\ ref_count' \in [Frame -> Nat]
      /\ heap' \in [VmProc -> Seq(Frame)] /\ Len(heap'[p]) = Len(heap[p]) + 1
      /\ \A q \in VmProc : q # p => heap'[q] = heap[q]
  BY HeapGains
<1>3. VmTypes' BY <1>2, InvParts DEF VmTypes, VmInv, fileVars
<1>4. Alone(p)
  <2>1. vsz[p] <= Len(heap'[p]) /\ Len(heap'[p]) <= job[p].newsz BY <1>1, <1>2
  <2> QED BY <1>1, <1>2, <2>1, InvParts DEF Alone, SlotInv
<1> QED BY <1>2, <1>3, <1>4, AloneStep DEF VmInv

\* uvmalloc() takes back what it has mapped.
LEMMA GrowFailsStep ==
    ASSUME VmInv, NEW p \in VmProc, GrowFails(p) PROVE VmInv'
<1> USE DEF GrowFails
<1>1. /\ job[p].kind = "grow" /\ vmState[p] = "live" /\ vsz[p] \in Nat /\ vsz[p] <= Len(heap[p])
      /\ job \in [VmProc -> Jobs]
  BY InvParts DEF LoopInv, NoJob
<1>2. /\ job' \in [VmProc -> Jobs] /\ job'[p] = NoJob /\ NoJob.kind = "none"
      /\ \A q \in VmProc : q # p => job'[q] = job[q]
  BY <1>1, JobValues DEF NoJob
<1>3. JobKeeps BY <1>1, <1>2 DEF JobKeeps
<1>4. /\ FramesInv' /\ freelist' \in Seq(Frame) /\ ref_count' \in [Frame -> Nat]
      /\ heap' \in [VmProc -> Seq(Frame)] /\ Len(heap'[p]) = vsz[p]
      /\ \A q \in VmProc : q # p => heap'[q] = heap[q]
  BY <1>1, <1>3, HeapCut
<1>5. VmTypes' BY <1>2, <1>4, InvParts DEF VmTypes, VmInv, fileVars
<1>6. Alone(p) BY <1>1, <1>2, <1>4, InvParts DEF Alone, SlotInv
<1> QED BY <1>4, <1>5, <1>6, AloneStep DEF VmInv

\* growproc() sets p->sz.
LEMMA GrowDoneStep ==
    ASSUME VmInv, NEW p \in VmProc, GrowDone(p) PROVE VmInv'
<1> USE DEF GrowDone
<1>1. /\ job[p].kind = "grow" /\ vmState[p] = "live" /\ Len(heap[p]) \in Nat
      /\ heap[p] \in Seq(Frame) /\ job \in [VmProc -> Jobs] /\ VmTypes /\ FramesInv
      /\ job[p].newsz = Len(heap[p])
  BY InvParts DEF NoJob
<1>2. /\ job' \in [VmProc -> Jobs] /\ job'[p] = NoJob /\ NoJob.kind = "none"
      /\ \A q \in VmProc : q # p => job'[q] = job[q]
  BY <1>1, JobValues DEF NoJob
<1>3. JobKeeps BY <1>1, <1>2 DEF JobKeeps
<1>4. FramesInv'
  <2>1. Keeps BY <1>3, KeepsWhen
  <2> QED BY <1>1, <2>1, KeepStep
<1>5. /\ vsz' \in [VmProc -> 0..NFrames] /\ vsz'[p] = Len(heap[p])
      /\ \A q \in VmProc : q # p => vsz'[q] = vsz[q]
  <2>1. Inj(heap[p]) BY <1>1, HeapInj
  <2>2. Len(heap[p]) <= NFrames BY <1>1, <2>1, SeqFits
  <2>3. Len(heap[p]) \in 0..NFrames BY <1>1, <2>2, VmAssumption
  <2> QED BY <1>1, <2>3, InvParts
<1>6. VmTypes' BY <1>2, <1>5, InvParts DEF VmTypes, VmInv, fileVars, memVars
<1>7. Alone(p) BY <1>1, <1>2, <1>5, InvParts DEF Alone, SlotInv
<1> QED BY <1>4, <1>6, <1>7, AloneStep DEF VmInv

\* uvmdealloc() frees the pages above the new size.
LEMMA ShrinkStep ==
    ASSUME VmInv, NEW p \in VmProc, Shrink(p) PROVE VmInv'
<1> USE DEF Call
<1>0. PICK n \in 1..vsz[p] :
          /\ kfree(SubSeq(heap[p], vsz[p] - n + 1, vsz[p]))
          /\ heap' = [heap EXCEPT ![p] = SubSeq(@, 1, vsz[p] - n)]
          /\ vsz' = [vsz EXCEPT ![p] = @ - n]
  BY DEF Shrink
<1>1. /\ vmState[p] = "live" /\ job[p] = NoJob /\ job[p].kind = "none"
      /\ UNCHANGED <<vmState, tf, root, pt, ptw, fileVars, minfo, job, lost, vmPanic>>
  BY DEF Shrink, NoJob
<1>2. /\ vsz[p] \in Nat /\ Len(heap[p]) = vsz[p] /\ vsz \in [VmProc -> 0..NFrames]
      /\ vsz[p] - n \in Nat /\ vsz[p] - n <= Len(heap[p]) /\ vsz[p] \in 0..NFrames
  <2>1. vsz[p] \in Nat /\ vsz \in [VmProc -> 0..NFrames] /\ vsz[p] \in 0..NFrames BY InvParts
  <2>2. Len(heap[p]) = vsz[p] BY <1>1, InvParts DEF HeapMatchesSize
  <2>3. vsz[p] - n \in Nat /\ vsz[p] - n <= vsz[p] BY <2>1
  <2> QED BY <2>1, <2>2, <2>3
<1>3. JobKeeps BY <1>1 DEF JobKeeps
<1>4. /\ FramesInv' /\ freelist' \in Seq(Frame) /\ ref_count' \in [Frame -> Nat]
      /\ heap' \in [VmProc -> Seq(Frame)] /\ Len(heap'[p]) = vsz[p] - n
      /\ \A q \in VmProc : q # p => heap'[q] = heap[q]
  BY <1>0, <1>1, <1>2, <1>3, HeapCut
<1>5. /\ vsz' \in [VmProc -> 0..NFrames] /\ vsz'[p] = vsz[p] - n
      /\ \A q \in VmProc : q # p => vsz'[q] = vsz[q]
  <2>1. vsz[p] - n \in 0..NFrames BY <1>2, VmAssumption
  <2> QED BY <1>0, <1>2, <2>1
<1>6. VmTypes' BY <1>1, <1>4, <1>5, InvParts DEF VmTypes, VmInv, fileVars
<1>7. Alone(p) BY <1>1, <1>4, <1>5, InvParts DEF Alone, SlotInv
<1> QED BY <1>4, <1>6, <1>7, AloneStep DEF VmInv

-----------------------------------------------------------------------------
(* fork().                                                                  *)
\* A step of fork() in p, that sets up slot c: it leaves the others alone.
ForkAlone(p, c) ==
    /\ p # c /\ vmState[p] = "live" /\ vmState[c] = "unused"
    /\ job[p] = NoJob \/ Forks(p, c)
    /\ \A q \in VmProc : q # p => ~Forks(q, c)
    /\ job' \in [VmProc -> Jobs] /\ job'[p].kind \in {"none", "fork"}
    /\ \A q \in VmProc : q # p => job'[q] = job[q]
    /\ vmState' \in [VmProc -> {"unused", "live", "zombie"}]
    /\ \A q \in VmProc : pt'[q] = pt[q]
    /\ \A q \in VmProc : q # c =>
          /\ vmState'[q] = vmState[q] /\ tf'[q] = tf[q] /\ root'[q] = root[q]
          /\ heap'[q] = heap[q] /\ vsz'[q] = vsz[q]
    /\ vmState'[c] \in {"unused", "live"}
    /\ Forks(p, c)' =>
          /\ vmState'[c] = "unused" /\ tf'[c] # NoFrame
          /\ root'[c] = NoFrame => heap'[c] = <<>>
          /\ Len(heap'[c]) <= vsz[p]
    /\ job'[p].kind = "fork" => Forks(p, c)'
    /\ vmState'[c] = "unused" => vsz'[c] = 0
    /\ vmState'[c] = "live" => tf'[c] # NoFrame /\ root'[c] # NoFrame /\ Len(heap'[c]) = vsz'[c]
    /\ vmState'[c] = "unused" /\ ~Forks(p, c)' =>
          tf'[c] = NoFrame /\ root'[c] = NoFrame /\ heap'[c] = <<>>

\* What such a step of fork() preserves.
LEMMA ForkAloneStep ==
    ASSUME VmInv, NEW p \in VmProc, NEW c \in VmProc, ForkAlone(p, c)
    PROVE  SlotInv' /\ LoopInv' /\ HeapMatchesSize' /\ FreeSlotEmpty'
<1> USE DEF ForkAlone
<1>0. /\ job[c] = NoJob /\ job'[c] = NoJob /\ NoJob.kind = "none" /\ job[p].kind \in {"none", "fork"}
      /\ \A d \in VmProc : Forks(p, d) => d = c
  BY InvParts DEF NoJob, Forks
<1>1. \A q, d \in VmProc : q # p => (Forks(q, d)' <=> Forks(q, d)) BY DEF Forks
<1>2. \A d \in VmProc : Forks(p, d)' => d = c BY DEF Forks
<1>3. \A q, d \in VmProc : q # p /\ Forks(q, d) => d # c /\ q # c /\ vmState[d] = "unused"
  <2> SUFFICES ASSUME NEW q \in VmProc, NEW d \in VmProc, q # p, Forks(q, d)
               PROVE  d # c /\ q # c /\ vmState[d] = "unused"
    OBVIOUS
  <2>1. q # c BY <1>0 DEF Forks
  <2>2. vmState[d] = "unused" BY InvParts DEF SlotInv
  <2> QED BY <2>1, <2>2
<1>4. SlotInv'
  <2>1. \A q \in VmProc : vmState'[q] # "live" => job'[q] = NoJob
    <3> TAKE q \in VmProc
    <3>1. CASE q = p \/ q = c BY <1>0, <3>1
    <3>2. CASE q # p /\ q # c
      <4>1. job'[q] = job[q] /\ vmState'[q] = vmState[q] BY <3>2
      <4> QED BY <4>1, InvParts DEF SlotInv
    <3> QED BY <3>1, <3>2
  <2>2. \A q \in VmProc : vmState'[q] # "unused" => tf'[q] # NoFrame /\ root'[q] # NoFrame
    BY InvParts DEF SlotInv
  <2>3. \A q \in VmProc : vmState'[q] = "unused" => vsz'[q] = 0 /\ ~LeafLeft(q)'
    <3> SUFFICES ASSUME NEW q \in VmProc, vmState'[q] = "unused" PROVE vsz'[q] = 0 /\ ~LeafLeft(q)'
      OBVIOUS
    <3>1. vmState[q] = "unused" OBVIOUS
    <3>2. vsz[q] = 0 /\ ~LeafLeft(q) BY <3>1, InvParts DEF SlotInv
    <3> QED BY <3>1, <3>2 DEF LeafLeft
  <2>4. \A q, d \in VmProc : Forks(q, d)' =>
          /\ vmState'[d] = "unused" /\ tf'[d] # NoFrame
          /\ root'[d] = NoFrame => heap'[d] = <<>>
          /\ Len(heap'[d]) <= vsz'[q]
    <3> SUFFICES ASSUME NEW q \in VmProc, NEW d \in VmProc, Forks(q, d)'
                 PROVE  /\ vmState'[d] = "unused" /\ tf'[d] # NoFrame
                        /\ root'[d] = NoFrame => heap'[d] = <<>>
                        /\ Len(heap'[d]) <= vsz'[q]
      OBVIOUS
    <3>1. CASE q = p BY <1>2, <3>1
    <3>2. CASE q # p
      <4>1. Forks(q, d) BY <1>1, <3>2
      <4>2. d # c /\ q # c BY <1>3, <3>2, <4>1
      <4>3. /\ vmState[d] = "unused" /\ tf[d] # NoFrame
            /\ root[d] = NoFrame => heap[d] = <<>>
            /\ Len(heap[d]) <= vsz[q]
        BY <4>1, InvParts DEF SlotInv
      <4> QED BY <4>2, <4>3
    <3> QED BY <3>1, <3>2
  <2>5. \A q, r, d \in VmProc : Forks(q, d)' /\ Forks(r, d)' => q = r
    <3> SUFFICES ASSUME NEW q \in VmProc, NEW r \in VmProc, NEW d \in VmProc, Forks(q, d)', Forks(r, d)'
                 PROVE  q = r
      OBVIOUS
    <3>1. CASE q # p /\ r # p
      <4>1. Forks(q, d) /\ Forks(r, d) BY <1>1, <3>1
      <4> QED BY <4>1, InvParts DEF SlotInv
    <3>2. CASE q = p \/ r = p BY <1>1, <1>2, <1>3, <3>2
    <3> QED BY <3>1, <3>2
  <2> QED BY <2>1, <2>2, <2>3, <2>4, <2>5 DEF SlotInv
<1>5. LoopInv'
  <2>1. job'[p].kind # "grow" /\ job'[p].kind # "exec" OBVIOUS
  <2>2. \A q \in VmProc : q # p /\ q # c =>
          job'[q] = job[q] /\ vsz'[q] = vsz[q] /\ heap'[q] = heap[q]
    OBVIOUS
  <2>3. job'[c].kind = "none" BY <1>0
  <2> HIDE DEF ForkAlone
  <2> QED BY <2>1, <2>2, <2>3, InvParts DEF LoopInv
<1>6. HeapMatchesSize'
  <2> SUFFICES ASSUME NEW q \in VmProc, vmState'[q] # "unused", job'[q].kind # "grow"
               PROVE  Len(heap'[q]) = vsz'[q]
    BY DEF HeapMatchesSize
  <2>1. CASE q = c BY <2>1
  <2>2. CASE q # c
    <3>1. job[q].kind # "grow" BY <1>0
    <3>2. Len(heap[q]) = vsz[q] BY <2>2, <3>1, InvParts DEF HeapMatchesSize
    <3> QED BY <2>2, <3>2
  <2> QED BY <2>1, <2>2
<1>7. FreeSlotEmpty'
  <2>1. \A q, d \in VmProc : job'[q] = [kind |-> "fork", child |-> d] <=> Forks(q, d)'
    <3> TAKE q, d \in VmProc
    <3>1. job'[q] \in Jobs OBVIOUS
    <3> HIDE DEF ForkAlone
    <3> QED BY <3>1, JobIs DEF Forks
  <2>2. \A q, d \in VmProc : job[q] = [kind |-> "fork", child |-> d] <=> Forks(q, d)
    <3> TAKE q, d \in VmProc
    <3>1. job[q] \in Jobs BY InvParts
    <3> HIDE DEF ForkAlone
    <3> QED BY <3>1, JobIs DEF Forks
  <2> SUFFICES ASSUME NEW d \in VmProc, vmState'[d] = "unused", \A q \in VmProc : ~Forks(q, d)'
               PROVE  tf'[d] = NoFrame /\ root'[d] = NoFrame /\ heap'[d] = <<>> /\ ~LeafLeft(d)'
    BY <2>1 DEF FreeSlotEmpty
  <2>l. ~LeafLeft(d)' BY <1>4 DEF SlotInv
  <2>3. CASE d = c BY <2>l, <2>3
  <2>4. CASE d # c
    <3>1. vmState[d] = "unused" BY <2>4
    <3>2. \A q \in VmProc : ~Forks(q, d) BY <1>0, <1>1, <2>4
    <3>3. tf[d] = NoFrame /\ root[d] = NoFrame /\ heap[d] = <<>>
      BY <2>2, <3>1, <3>2, InvParts DEF FreeSlotEmpty
    <3> QED BY <2>4, <2>l, <3>3
  <2> QED BY <2>3, <2>4
<1> QED BY <1>4, <1>5, <1>6, <1>7

\* What a process in fork() knows of the slot it sets up.
LEMMA ForkIs ==
    ASSUME VmInv, NEW p \in VmProc, job[p].kind = "fork"
    PROVE  /\ job[p].child \in VmProc /\ job[p].child # p /\ Forks(p, job[p].child)
           /\ vmState[p] = "live" /\ vmState[job[p].child] = "unused" /\ job[job[p].child] = NoJob
           /\ vsz[job[p].child] = 0 /\ tf[job[p].child] \in Frame
           /\ root[job[p].child] \in Frame \cup {NoFrame}
           /\ root[job[p].child] = NoFrame => heap[job[p].child] = <<>>
           /\ Len(heap[job[p].child]) <= vsz[p] /\ Len(heap[p]) = vsz[p]
           /\ \A q \in VmProc : q # p => ~Forks(q, job[p].child)
<1>1. job[p].child \in VmProc /\ Forks(p, job[p].child) /\ job[p] # NoJob
  BY InvParts, JobIs DEF Forks, NoJob
<1>2. vmState[p] = "live" BY <1>1, InvParts DEF SlotInv
<1>3. Len(heap[p]) = vsz[p] BY <1>2, InvParts DEF HeapMatchesSize
<1>4. /\ vmState[job[p].child] = "unused" /\ tf[job[p].child] # NoFrame
      /\ root[job[p].child] = NoFrame => heap[job[p].child] = <<>>
      /\ Len(heap[job[p].child]) <= vsz[p]
      /\ \A q \in VmProc : q # p => ~Forks(q, job[p].child)
  BY <1>1, InvParts DEF SlotInv
<1>5. vsz[job[p].child] = 0 BY <1>1, <1>4, InvParts DEF SlotInv
<1> QED BY <1>1, <1>2, <1>3, <1>4, <1>5, InvParts

\* A frame for p's trap frame, or for its page table.
LEMMA TfGains ==
    ASSUME VmInv, NEW c \in VmProc, tf[c] = NoFrame, ~OutOfMemory, kalloc,
           tf' = [tf EXCEPT ![c] = Head(freelist)], UNCHANGED <<root, heap, pt, lost>>, JobKeeps
    PROVE  /\ FramesInv' /\ freelist' \in Seq(Frame) /\ ref_count' \in [Frame -> Nat]
           /\ tf' \in [VmProc -> Frame \cup {NoFrame}] /\ tf'[c] \in Frame
<1> DEFINE h == Head(freelist)
<1>1. h \in Frame BY InvParts DEF OutOfMemory
<1>2. /\ tf'[c] = h /\ \A q \in VmProc : q # c => tf'[q] = tf[q]
      /\ tf' \in [VmProc -> Frame \cup {NoFrame}]
  BY <1>1, InvParts
<1>3. Gains("tf", c, 0)
  <2> HIDE DEF h
  <2> SUFFICES ASSUME NEW f \in Frame, NEW k \in Kind, NEW q \in VmProc, NEW i \in Nat
               PROVE  Own(f, k, q, i)' <=> Own(f, k, q, i) \/ (f = h /\ k = "tf" /\ q = c /\ i = 0)
    BY DEF Gains, h
  <2>0. tf[c] # f BY InvParts
  <2>1. CASE k = "tf" BY <1>2, <2>0, <2>1 DEF Own
  <2>2. CASE k # "tf"
    <3>1. CASE job'[q] = job[q] BY <2>2, <3>1 DEF Own
    <3>2. CASE job[q].kind \notin {"exec", "fault"} /\ job'[q].kind \notin {"exec", "fault"}
      BY <2>2, <3>2 DEF Own
    <3> QED BY <3>1, <3>2 DEF JobKeeps
  <2> QED BY <2>1, <2>2
<1>4. "tf" \in Kind /\ 0 \in Nat BY DEF Kind
<1>5. FramesInv' /\ freelist' \in Seq(Frame) /\ ref_count' \in [Frame -> Nat]
  BY <1>3, <1>4, InvParts, AllocStep, VmAssumption
<1> QED BY <1>1, <1>2, <1>5

\* A page table of its own for a slot.
LEMMA RootGains ==
    ASSUME VmInv, NEW c \in VmProc, root[c] = NoFrame, ~OutOfMemory, kalloc,
           root' = [root EXCEPT ![c] = Head(freelist)], UNCHANGED <<tf, heap, pt, job, lost>>
    PROVE  /\ FramesInv' /\ freelist' \in Seq(Frame) /\ ref_count' \in [Frame -> Nat]
           /\ root' \in [VmProc -> Frame \cup {NoFrame}] /\ root'[c] \in Frame
<1> DEFINE h == Head(freelist)
<1>1. h \in Frame BY InvParts DEF OutOfMemory
<1>2. /\ root'[c] = h /\ \A q \in VmProc : q # c => root'[q] = root[q]
      /\ root' \in [VmProc -> Frame \cup {NoFrame}]
  BY <1>1, InvParts
<1>3. Gains("root", c, 0)
  <2> HIDE DEF h
  <2> SUFFICES ASSUME NEW f \in Frame, NEW k \in Kind, NEW q \in VmProc, NEW i \in Nat
               PROVE  Own(f, k, q, i)' <=> Own(f, k, q, i) \/ (f = h /\ k = "root" /\ q = c /\ i = 0)
    BY DEF Gains, h
  <2>0. root[c] # f BY InvParts
  <2>1. CASE k = "root" BY <1>2, <2>0, <2>1 DEF Own
  <2>2. CASE k # "root" BY <2>2 DEF Own
  <2> QED BY <2>1, <2>2
<1>4. "root" \in Kind /\ 0 \in Nat BY DEF Kind
<1>5. FramesInv' /\ freelist' \in Seq(Frame) /\ ref_count' \in [Frame -> Nat]
  BY <1>3, <1>4, InvParts, AllocStep, VmAssumption
<1> QED BY <1>1, <1>2, <1>5

\* A panic changes nothing else.
LEMMA PanicStep ==
    ASSUME VmInv, NEW why, Panic(why) PROVE VmInv'
<1>1. ofile' \in [VmProc -> SUBSET VmFile] /\ fileRef' \in [VmFile -> Nat]
  BY DEF Panic, VmInv, VmTypes, fileVars
<1>2. UNCHANGED <<memVars, vmState, tf, root, heap, vsz, pt, job, lost>> BY DEF Panic, vmProcVars
<1> QED BY <1>1, <1>2, StillStep

\* fork().
LEMMA ForkStep ==
    ASSUME VmInv, NEW p \in VmProc, NEW np \in VmProc, Fork(p, np) PROVE VmInv'
<1> DEFINE j == [kind |-> "fork", child |-> np]
<1>1. /\ vmState[p] = "live" /\ job[p] = NoJob /\ NoJob.kind = "none" /\ vmState[np] = "unused" /\ p # np
      /\ \A q \in VmProc : job[q] # j
      /\ UNCHANGED <<vmState, root, heap, vsz, pt, ptw, ofile, fileRef, minfo, lost, vmPanic>>
  BY DEF Fork, Call, NoJob, fileVars
<1>f. ofile' \in [VmProc -> SUBSET VmFile] /\ fileRef' \in [VmFile -> Nat]
  BY <1>1 DEF VmInv, VmTypes
<1>2. CASE OutOfMemory
  <2>1. UNCHANGED <<memVars, tf, job>> BY <1>2 DEF Fork
  <2> QED BY <1>1, <1>f, <2>1, StillStep
<1>3. CASE ~OutOfMemory
  <2>1. kalloc /\ tf' = [tf EXCEPT ![np] = Head(freelist)] /\ job' = [job EXCEPT ![p] = j]
    BY <1>3 DEF Fork
  <2>2. j \in Jobs /\ j.kind = "fork" /\ j.child = np BY JobValues
  <2> HIDE DEF j
  <2>3. job' \in [VmProc -> Jobs] /\ job'[p] = j /\ \A q \in VmProc : q # p => job'[q] = job[q]
    BY <2>1, <2>2, InvParts
  <2>4. JobKeeps BY <1>1, <2>2, <2>3 DEF JobKeeps
  <2>5. \A q \in VmProc : ~Forks(q, np)
    <3> TAKE q \in VmProc
    <3>1. job[q] \in Jobs /\ job[q] # [kind |-> "fork", child |-> np] BY <1>1, InvParts DEF j
    <3> QED BY <3>1, JobIs DEF Forks
  <2>6. tf[np] = NoFrame /\ root[np] = NoFrame /\ heap[np] = <<>>
    BY <1>1, InvParts DEF FreeSlotEmpty, j
  <2>7. /\ FramesInv' /\ freelist' \in Seq(Frame) /\ ref_count' \in [Frame -> Nat]
        /\ tf' \in [VmProc -> Frame \cup {NoFrame}] /\ tf'[np] \in Frame
    BY <1>1, <1>3, <2>1, <2>4, <2>6, TfGains
  <2>8. VmTypes' BY <1>1, <1>f, <2>3, <2>7, InvParts DEF VmTypes
  <2>9. \A q \in VmProc : q # np => tf'[q] = tf[q] BY <2>1, InvParts
  <2>10. Forks(p, np)' BY <2>2, <2>3 DEF Forks
  <2>11. Len(heap'[np]) <= vsz[p] /\ tf'[np] # NoFrame /\ vsz'[np] = 0
    <3>1. Len(heap'[np]) = 0 BY <1>1, <2>6
    <3> QED BY <1>1, <2>7, <3>1, InvParts DEF SlotInv
  <2>12. ForkAlone(p, np)
    BY <1>1, <2>2, <2>3, <2>5, <2>6, <2>9, <2>10, <2>11, InvParts DEF ForkAlone
  <2> QED BY <2>7, <2>8, <2>12, ForkAloneStep DEF VmInv
<1> QED BY <1>2, <1>3

\* proc_pagetable() allocates the root, or panics.
LEMMA ForkPagetableStep ==
    ASSUME VmInv, NEW p \in VmProc, ForkPagetable(p) PROVE VmInv'
<1>0. job[p].kind = "fork" BY DEF ForkPagetable
<1>c. PICK c \in VmProc : c = job[p].child BY <1>0, ForkIs
<1>1. job[p].kind = "fork" /\ root[c] = NoFrame BY <1>c DEF ForkPagetable
<1>2. CASE OutOfMemory
  <2>1. Panic("uvmcreate: out of memory") BY <1>2 DEF ForkPagetable
  <2> QED BY <2>1, PanicStep
<1>3. CASE ~OutOfMemory
  <2>1. /\ kalloc /\ root' = [root EXCEPT ![c] = Head(freelist)]
        /\ UNCHANGED <<vmState, tf, heap, vsz, pt, ptw, ofile, fileRef, minfo, job, lost, vmPanic, vmCalls>>
    BY <1>3, <1>c DEF ForkPagetable, fileVars
  <2>2. /\ c \in VmProc /\ c # p /\ Forks(p, c) /\ vmState[p] = "live" /\ vmState[c] = "unused"
        /\ vsz[c] = 0 /\ tf[c] \in Frame /\ heap[c] = <<>> /\ Len(heap[c]) <= vsz[p]
        /\ \A q \in VmProc : q # p => ~Forks(q, c)
    BY <1>1, <1>c, ForkIs
  <2>3. /\ FramesInv' /\ freelist' \in Seq(Frame) /\ ref_count' \in [Frame -> Nat]
        /\ root' \in [VmProc -> Frame \cup {NoFrame}] /\ root'[c] \in Frame
    BY <1>1, <1>3, <2>1, <2>2, RootGains
  <2>4. VmTypes' BY <2>1, <2>3, InvParts DEF VmTypes, VmInv
  <2>5. \A q \in VmProc : q # c => root'[q] = root[q] BY <2>1, InvParts
  <2>6. Forks(p, c)' BY <2>1, <2>2 DEF Forks
  <2>7. tf'[c] # NoFrame BY <2>1, <2>2, InvParts
  <2>8. ForkAlone(p, c)
    BY <1>1, <2>1, <2>2, <2>5, <2>6, <2>7, InvParts DEF ForkAlone
  <2> QED BY <2>2, <2>3, <2>4, <2>8, ForkAloneStep DEF VmInv
<1> QED BY <1>2, <1>3

\* A turn of the loop of uvmcopy().
LEMMA ForkCopyStep ==
    ASSUME VmInv, NEW p \in VmProc, ForkCopy(p) PROVE VmInv'
<1>0. job[p].kind = "fork" BY DEF ForkCopy
<1>c. PICK c \in VmProc : c = job[p].child BY <1>0, ForkIs
<1>1. /\ job[p].kind = "fork" /\ root[c] # NoFrame /\ Len(heap[c]) < vsz[p] /\ ~OutOfMemory
      /\ kalloc /\ heap' = [heap EXCEPT ![c] = Append(@, Head(freelist))]
      /\ UNCHANGED <<vmState, tf, root, vsz, pt, ptw, ofile, fileRef, minfo, job, lost, vmPanic, vmCalls>>
  BY <1>c DEF ForkCopy, fileVars
<1>2. /\ c \in VmProc /\ c # p /\ Forks(p, c) /\ vmState[p] = "live" /\ vmState[c] = "unused"
      /\ vsz[c] = 0 /\ tf[c] \in Frame
      /\ \A q \in VmProc : q # p => ~Forks(q, c)
  BY <1>1, <1>c, ForkIs
<1>3. /\ FramesInv' /\ freelist' \in Seq(Frame) /\ ref_count' \in [Frame -> Nat]
      /\ heap' \in [VmProc -> Seq(Frame)] /\ Len(heap'[c]) = Len(heap[c]) + 1
      /\ \A q \in VmProc : q # c => heap'[q] = heap[q]
  BY <1>1, <1>2, HeapGains
<1>4. VmTypes' BY <1>1, <1>3, InvParts DEF VmTypes, VmInv
<1>5. Forks(p, c)' BY <1>1, <1>2 DEF Forks
<1>6. tf'[c] # NoFrame BY <1>1, <1>2, InvParts
<1>7. Len(heap'[c]) <= vsz[p] BY <1>1, <1>2, <1>3, InvParts
<1>8. ForkAlone(p, c)
  BY <1>1, <1>2, <1>3, <1>5, <1>6, <1>7, InvParts DEF ForkAlone
<1> QED BY <1>2, <1>3, <1>4, <1>8, ForkAloneStep DEF VmInv

\* The end of fork(): the child owns what has been copied.
LEMMA ForkDoneStep ==
    ASSUME VmInv, NEW p \in VmProc, ForkDone(p) PROVE VmInv'
<1>0. job[p].kind = "fork" BY DEF ForkDone
<1>c. PICK c \in VmProc : c = job[p].child BY <1>0, ForkIs
<1>1. /\ job[p].kind = "fork" /\ root[c] # NoFrame /\ Len(heap[c]) = vsz[p]
      /\ vsz' = [vsz EXCEPT ![c] = vsz[p]]
      /\ vmState' = [vmState EXCEPT ![c] = "live"]
      /\ job' = [job EXCEPT ![p] = NoJob]
      /\ UNCHANGED <<memVars, tf, root, heap, pt, ptw, lost, vmCalls>>
  BY <1>c DEF ForkDone
<1>2. /\ c \in VmProc /\ c # p /\ Forks(p, c) /\ vmState[p] = "live" /\ vmState[c] = "unused"
      /\ tf[c] \in Frame
      /\ \A q \in VmProc : q # p => ~Forks(q, c)
  BY <1>1, <1>c, ForkIs
<1>f. ofile' \in [VmProc -> SUBSET VmFile] /\ fileRef' \in [VmFile -> Nat]
  <2>0. ofile \in [VmProc -> SUBSET VmFile] /\ fileRef \in [VmFile -> Nat] BY DEF VmInv, VmTypes
  <2>1. CASE \E f \in ofile[p] : fileRef[f] < 1
    <3>1. ofile' = ofile /\ fileRef' = fileRef BY <2>1 DEF ForkDone, fileVars
    <3> QED BY <2>0, <3>1
  <2>2. CASE ~ \E f \in ofile[p] : fileRef[f] < 1
    <3>1. /\ ofile' = [ofile EXCEPT ![c] = ofile[p]]
          /\ fileRef' = [f \in VmFile |-> fileRef[f] + (IF f \in ofile[p] THEN 1 ELSE 0)]
      BY <1>c, <2>2 DEF ForkDone
    <3>2. \A f \in VmFile : fileRef[f] + (IF f \in ofile[p] THEN 1 ELSE 0) \in Nat BY <2>0
    <3> QED BY <1>2, <2>0, <3>1, <3>2
  <2> QED BY <2>1, <2>2
<1>3. /\ job' \in [VmProc -> Jobs] /\ job'[p] = NoJob /\ NoJob.kind = "none"
      /\ \A q \in VmProc : q # p => job'[q] = job[q]
  BY <1>1, InvParts, JobValues DEF NoJob
<1>4. JobKeeps BY <1>1, <1>3 DEF JobKeeps
<1>5. FramesInv'
  <2>1. Keeps BY <1>1, <1>4, KeepsWhen
  <2> QED BY <2>1, InvParts, KeepStep
<1>6. /\ vsz' \in [VmProc -> 0..NFrames] /\ vsz'[c] = vsz[p]
      /\ \A q \in VmProc : q # c => vsz'[q] = vsz[q]
  BY <1>1, <1>2, InvParts
<1>7. /\ vmState' \in [VmProc -> {"unused", "live", "zombie"}] /\ vmState'[c] = "live"
      /\ \A q \in VmProc : q # c => vmState'[q] = vmState[q]
  BY <1>1, <1>2, InvParts
<1>8. VmTypes' BY <1>1, <1>3, <1>6, <1>7, <1>f, InvParts DEF VmTypes, memVars
<1>9. ~Forks(p, c)' BY <1>3 DEF Forks
<1>10. tf'[c] # NoFrame /\ root'[c] # NoFrame /\ Len(heap'[c]) = vsz'[c]
  BY <1>1, <1>2, <1>6, InvParts
<1>11. ForkAlone(p, c)
  BY <1>1, <1>2, <1>3, <1>6, <1>7, <1>9, <1>10, InvParts DEF ForkAlone
<1> QED BY <1>2, <1>5, <1>8, <1>11, ForkAloneStep DEF VmInv

\* Short sequences.
LEMMA EmptyIs ==
    ASSUME NEW F PROVE <<>> \in Seq(F) /\ Inj(<<>>) /\ ToSet(<<>>) = {}
BY DEF Inj, ToSet

\* A sequence of one entry.
LEMMA SingleIs ==
    ASSUME NEW F, NEW x \in F PROVE <<x>> \in Seq(F) /\ Inj(<<x>>) /\ ToSet(<<x>>) = {x}
<1>1. <<x>> \in Seq(F) /\ DOMAIN <<x>> = {1} /\ <<x>>[1] = x OBVIOUS
<1>2. ToSet(<<x>>) = {x} BY <1>1 DEF ToSet
<1> QED BY <1>1, <1>2 DEF Inj

\* A sequence and one more.
LEMMA OneMore ==
    ASSUME NEW F, NEW s \in Seq(F), Inj(s), NEW x \in F, x \notin ToSet(s)
    PROVE  s \o <<x>> \in Seq(F) /\ Inj(s \o <<x>>) /\ ToSet(s \o <<x>>) = ToSet(s) \cup {x}
<1> DEFINE t == <<x>>
<1>1. t \in Seq(F) /\ Inj(t) /\ ToSet(t) = {x} BY SingleIs
<1> HIDE DEF t
<1>2. ToSet(s) \cap ToSet(t) = {} BY <1>1
<1>3. s \o t \in Seq(F) /\ Inj(s \o t) /\ ToSet(s \o t) = ToSet(s) \cup ToSet(t)
  BY <1>1, <1>2, JoinedIs
<1> QED BY <1>1, <1>3 DEF t

\* Nothing joined to a sequence.
LEMMA NoneMore ==
    ASSUME NEW F, NEW s \in Seq(F) PROVE s \o <<>> = s
OBVIOUS

\* The trap frame, the root and the heap of a process are different frames.
LEMMA PlacesDiffer ==
    ASSUME VmInv, NEW p \in VmProc
    PROVE  /\ Inj(heap[p])
           /\ tf[p] \in Frame => tf[p] \notin ToSet(heap[p]) /\ tf[p] # root[p]
           /\ root[p] \in Frame => root[p] \notin ToSet(heap[p])
           /\ \A f \in Frame : f \in ToSet(heap[p]) <=> \E i \in Nat : Own(f, "heap", p, i)
           /\ \A f \in Frame : f = tf[p] <=> Own(f, "tf", p, 0)
           /\ \A f \in Frame : f = root[p] <=> Own(f, "root", p, 0)
<1>1. "heap" \in Kind /\ "tf" \in Kind /\ "root" \in Kind /\ 0 \in Nat BY DEF Kind
<1>2. /\ FramesInv /\ VmTypes /\ heap[p] \in Seq(Frame) /\ Len(heap[p]) \in Nat
      /\ DOMAIN heap[p] = 1..Len(heap[p])
  BY InvParts
<1>3. \A f \in Frame : f \in ToSet(heap[p]) <=> \E i \in Nat : Own(f, "heap", p, i)
  <2> TAKE f \in Frame
  <2>1. ASSUME f \in ToSet(heap[p]) PROVE \E i \in Nat : Own(f, "heap", p, i)
    <3>1. PICK i \in 1..Len(heap[p]) : heap[p][i] = f BY <1>2, <2>1 DEF ToSet
    <3>2. i \in Nat /\ Own(f, "heap", p, i) BY <1>2, <3>1 DEF Own
    <3> QED BY <3>2
  <2>2. ASSUME NEW i \in Nat, Own(f, "heap", p, i) PROVE f \in ToSet(heap[p])
    <3>1. i \in 1..Len(heap[p]) /\ heap[p][i] = f BY <2>2 DEF Own
    <3> QED BY <1>2, <3>1 DEF ToSet
  <2> QED BY <2>1, <2>2
<1>4. /\ \A f \in Frame : f = tf[p] <=> Own(f, "tf", p, 0)
      /\ \A f \in Frame : f = root[p] <=> Own(f, "root", p, 0)
  BY DEF Own
<1>5. ASSUME tf[p] \in Frame PROVE tf[p] \notin ToSet(heap[p]) /\ tf[p] # root[p]
  <2>1. Own(tf[p], "tf", p, 0) BY <1>4, <1>5
  <2>2. \A l \in Kind, q \in VmProc, j \in Nat : Own(tf[p], l, q, j) => l = "tf"
    BY <1>1, <1>2, <1>5, <2>1, OwnUnique
  <2> QED BY <1>1, <1>3, <1>4, <1>5, <2>2
<1>6. ASSUME root[p] \in Frame PROVE root[p] \notin ToSet(heap[p])
  <2>1. Own(root[p], "root", p, 0) BY <1>4, <1>6
  <2>2. \A l \in Kind, q \in VmProc, j \in Nat : Own(root[p], l, q, j) => l = "root"
    BY <1>1, <1>2, <1>6, <2>1, OwnUnique
  <2> QED BY <1>1, <1>3, <1>6, <2>2
<1> QED BY <1>2, <1>3, <1>4, <1>5, <1>6, HeapInj

\* uvmcopy() fails: the copies, the trap frame and the root are given back.
LEMMA ForkFailsStep ==
    ASSUME VmInv, NEW p \in VmProc, ForkFails(p) PROVE VmInv'
<1>0. job[p].kind = "fork" BY DEF ForkFails
<1>c. PICK c \in VmProc : c = job[p].child BY <1>0, ForkIs
<1>1. root[c] # NoFrame BY <1>c DEF ForkFails
<1>2. CASE heap[c] = <<>>
  <2>1. Panic("uvmunmap: walk") BY <1>c, <1>2 DEF ForkFails
  <2> QED BY <2>1, PanicStep
<1>3. CASE heap[c] # <<>>
  <2>1. /\ c # p /\ Forks(p, c) /\ vmState[p] = "live" /\ vmState[c] = "unused"
        /\ vsz[c] = 0 /\ tf[c] \in Frame /\ root[c] \in Frame
        /\ \A q \in VmProc : q # p => ~Forks(q, c)
    BY <1>0, <1>1, <1>c, ForkIs
  <2>2. FreedWith(root[c], <<>>, vsz[c]) = <<>> BY <2>1 DEF FreedWith
  <2>3. LostWith(root[c], <<>>, vsz[c]) = {root[c]} BY <2>1, EmptyIs DEF LostWith
  <2> DEFINE s == heap[c] \o <<tf[c]>>
             D == {"tf", "root", "heap"} \X {c} \X Nat
             L == {root[c]}
  <2>4. s \in Seq(Frame) /\ Inj(s) /\ ToSet(s) = ToSet(heap[c]) \cup {tf[c]}
    BY <2>1, PlacesDiffer, InvParts, OneMore
  <2>5. /\ kfree(s) /\ lost' = lost \cup L
        /\ heap' = [heap EXCEPT ![c] = <<>>]
        /\ tf' = [tf EXCEPT ![c] = NoFrame]
        /\ root' = [root EXCEPT ![c] = NoFrame]
        /\ job' = [job EXCEPT ![p] = NoJob]
        /\ UNCHANGED <<vmState, vsz, pt, ptw, ofile, fileRef, minfo, vmPanic, vmCalls>>
    <3>1. s \o <<>> = s BY <2>4, NoneMore
    <3>2. kfree(s \o <<>>)
      <4>1. kfree(heap[c] \o <<tf[c]>> \o FreedWith(root[c], <<>>, vsz[c])) BY <1>c, <1>3 DEF ForkFails
      <4> QED BY <2>2, <4>1
    <3>3. lost' = lost \cup LostWith(root[c], <<>>, vsz[c]) BY <1>c, <1>3 DEF ForkFails
    <3>4. /\ heap' = [heap EXCEPT ![c] = <<>>]
          /\ tf' = [tf EXCEPT ![c] = NoFrame]
          /\ root' = [root EXCEPT ![c] = NoFrame]
          /\ job' = [job EXCEPT ![p] = NoJob]
          /\ UNCHANGED <<vmState, vsz, pt, ptw, ofile, fileRef, minfo, vmPanic, vmCalls>>
      BY <1>c, <1>3 DEF ForkFails, fileVars
    <3> HIDE DEF s
    <3> QED BY <2>3, <3>1, <3>2, <3>3, <3>4
  <2> HIDE DEF s
  <2>6. /\ job' \in [VmProc -> Jobs] /\ job'[p] = NoJob /\ NoJob.kind = "none"
        /\ \A q \in VmProc : q # p => job'[q] = job[q]
    BY <2>5, InvParts, JobValues DEF NoJob
  <2>7. /\ heap' \in [VmProc -> Seq(Frame)] /\ heap'[c] = <<>>
        /\ tf' \in [VmProc -> Frame \cup {NoFrame}] /\ tf'[c] = NoFrame
        /\ root' \in [VmProc -> Frame \cup {NoFrame}] /\ root'[c] = NoFrame
        /\ \A q \in VmProc : q # c => heap'[q] = heap[q] /\ tf'[q] = tf[q] /\ root'[q] = root[q]
        /\ Len(<<>>) = 0
    BY <2>5, InvParts, EmptyIs
  <2>8. Drops(s, D, L)
    <3>0. "heap" \in Kind /\ "tf" \in Kind /\ "root" \in Kind /\ 0 \in Nat BY DEF Kind
    <3>1. \A f \in Frame : f \in L => f \notin ToSet(s) BY <2>1, <2>4, PlacesDiffer
    <3>2. ASSUME NEW f \in Frame, f \in ToSet(s) \/ f \in L
          PROVE  \E k \in Kind, q \in VmProc, i \in Nat : <<k, q, i>> \in D /\ Own(f, k, q, i)
      <4>1. CASE f \in ToSet(heap[c])
        <5>1. PICK i \in Nat : Own(f, "heap", c, i) BY <4>1, PlacesDiffer
        <5> QED BY <3>0, <5>1
      <4>2. CASE f = tf[c]
        <5>1. Own(f, "tf", c, 0) BY <4>2, PlacesDiffer
        <5> QED BY <3>0, <5>1
      <4>3. CASE f = root[c]
        <5>1. Own(f, "root", c, 0) BY <4>3, PlacesDiffer
        <5> QED BY <3>0, <5>1
      <4> QED BY <2>4, <3>2, <4>1, <4>2, <4>3
    <3>3. ASSUME NEW f \in Frame, NEW k \in Kind, NEW q \in VmProc, NEW i \in Nat,
                 <<k, q, i>> \in D, Own(f, k, q, i)
          PROVE  f \in ToSet(s) \/ f \in L
      <4>1. CASE k = "heap" BY <2>4, <3>3, <4>1, PlacesDiffer
      <4>2. CASE k = "tf" BY <2>4, <3>3, <4>2 DEF Own
      <4>3. CASE k = "root" BY <2>4, <3>3, <4>3 DEF Own
      <4> QED BY <3>3, <4>1, <4>2, <4>3
    <3>4. ASSUME NEW f \in Frame, NEW k \in Kind, NEW q \in VmProc, NEW i \in Nat
          PROVE  Own(f, k, q, i)' <=>
                   \/ Own(f, k, q, i) /\ <<k, q, i>> \notin D
                   \/ f \in L /\ k = "lost" /\ q = First /\ i = 0
      <4>0. f # NoFrame BY InvParts
      <4>1. CASE k \in {"tf", "root", "heap"} /\ q = c
        <5>1. ~Own(f, k, q, i)'
          BY <2>7, <4>0, <4>1 DEF Own
        <5> QED BY <4>1, <5>1
      <4>2. CASE k \in {"tf", "root", "heap"} /\ q # c
        <5>1. Own(f, k, q, i)' <=> Own(f, k, q, i) BY <2>7, <4>2 DEF Own
        <5> QED BY <4>2, <5>1
      <4>3. CASE k = "lost" BY <2>5, <4>3 DEF Own
      <4>4. CASE k \in {"map", "fault", "exec", "execroot"}
        <5>1. <<k, q, i>> \notin D /\ k # "lost" BY <4>4
        <5>2. CASE q = p BY <1>0, <2>5, <2>6, <4>4, <5>1, <5>2 DEF Own
        <5>3. CASE q # p BY <2>5, <2>6, <4>4, <5>1, <5>3 DEF Own
        <5> QED BY <5>2, <5>3
      <4> QED BY <4>1, <4>2, <4>3, <4>4 DEF Kind
    <3>5. kfree(s) BY <2>5
    <3> HIDE DEF D, L
    <3> QED BY <2>4, <3>1, <3>2, <3>3, <3>4, <3>5 DEF Drops
  <2>9. FramesInv' /\ freelist' \in Seq(Frame) /\ ref_count' \in [Frame -> Nat]
    <3> HIDE DEF D, L
    <3> QED BY <2>8, InvParts, DropStep, VmAssumption
  <2>10. VmTypes'
    <3>1. lost' \subseteq Frame BY <2>1, <2>5, InvParts
    <3> QED BY <2>5, <2>6, <2>7, <2>9, <3>1, InvParts DEF VmTypes, VmInv
  <2>11. ~Forks(p, c)' BY <2>6 DEF Forks
  <2>12. vmState'[c] = "unused" /\ vsz'[c] = 0 BY <2>1, <2>5
  <2>13. ForkAlone(p, c)
    BY <2>1, <2>5, <2>6, <2>7, <2>11, <2>12, InvParts DEF ForkAlone
  <2> QED BY <2>9, <2>10, <2>13, ForkAloneStep DEF VmInv
<1> QED BY <1>2, <1>3

-----------------------------------------------------------------------------
(* exec().                                                                  *)
\* What a process in exec() holds.
LEMMA ExecIs ==
    ASSUME VmInv, NEW p \in VmProc, job[p].kind = "exec"
    PROVE  /\ job[p] = [kind |-> "exec", root |-> job[p].root, pages |-> job[p].pages]
           /\ job[p].root \in Frame /\ job[p].pages \in Seq(Frame) /\ Len(job[p].pages) \in Nat
           /\ Inj(job[p].pages) /\ job[p].root \notin ToSet(job[p].pages)
           /\ Len(job[p].pages) <= SegPages + StackPages
           /\ vmState[p] = "live" /\ Len(heap[p]) = vsz[p] /\ tf[p] # NoFrame /\ root[p] # NoFrame
           /\ \A f \in Frame : f \in ToSet(job[p].pages) <=> \E i \in Nat : Own(f, "exec", p, i)
           /\ \A f \in Frame : f = job[p].root <=> Own(f, "execroot", p, 0)
<1>1. job[p] \in Jobs /\ FramesInv /\ VmTypes BY InvParts
<1>2. job[p].root \in Frame /\ job[p].pages \in Seq(Frame) BY <1>1, JobIs
<1>3. job[p] = [kind |-> "exec", root |-> job[p].root, pages |-> job[p].pages]
  <2>1. job[p] \in [kind : {"exec"}, root : Frame, pages : Seq(Frame)] BY <1>1 DEF Jobs, NoJob
  <2> QED BY <2>1
<1>4. Inj(job[p].pages) BY <1>1, <1>2, PagesInj
<1>5. Len(job[p].pages) \in Nat /\ DOMAIN job[p].pages = 1..Len(job[p].pages) BY <1>2
<1>6. \A f \in Frame : f \in ToSet(job[p].pages) <=> \E i \in Nat : Own(f, "exec", p, i)
  <2> TAKE f \in Frame
  <2>1. ASSUME f \in ToSet(job[p].pages) PROVE \E i \in Nat : Own(f, "exec", p, i)
    <3>1. PICK i \in 1..Len(job[p].pages) : job[p].pages[i] = f BY <1>5, <2>1 DEF ToSet
    <3>2. i \in Nat /\ Own(f, "exec", p, i) BY <1>5, <3>1 DEF Own
    <3> QED BY <3>2
  <2>2. ASSUME NEW i \in Nat, Own(f, "exec", p, i) PROVE f \in ToSet(job[p].pages)
    <3>1. i \in 1..Len(job[p].pages) /\ job[p].pages[i] = f BY <2>2 DEF Own
    <3> QED BY <1>5, <3>1 DEF ToSet
  <2> QED BY <2>1, <2>2
<1>7. \A f \in Frame : f = job[p].root <=> Own(f, "execroot", p, 0) BY DEF Own
<1>8. job[p].root \notin ToSet(job[p].pages)
  <2>0. "exec" \in Kind /\ "execroot" \in Kind /\ 0 \in Nat BY DEF Kind
  <2>1. Own(job[p].root, "execroot", p, 0) BY <1>2, <1>7
  <2>2. \A l \in Kind, q \in VmProc, j \in Nat : Own(job[p].root, l, q, j) => l = "execroot"
    BY <1>1, <1>2, <2>0, <2>1, OwnUnique
  <2> QED BY <1>2, <1>6, <2>0, <2>2
<1>9. job[p] # NoJob BY DEF NoJob
<1>10. vmState[p] = "live" BY <1>9, InvParts
<1>11. Len(heap[p]) = vsz[p] BY <1>10, InvParts DEF HeapMatchesSize
<1>12. tf[p] # NoFrame /\ root[p] # NoFrame BY <1>10, InvParts DEF SlotInv
<1> QED BY <1>2, <1>3, <1>4, <1>5, <1>6, <1>7, <1>8, <1>10, <1>11, <1>12, InvParts DEF LoopInv

\* exec().
LEMMA ExecStep ==
    ASSUME VmInv, NEW p \in VmProc, Exec(p) PROVE VmInv'
<1>1. /\ vmState[p] = "live" /\ job[p] = NoJob /\ NoJob.kind = "none"
      /\ UNCHANGED <<vmState, tf, root, heap, vsz, pt, ptw, ofile, fileRef, minfo, lost>>
  BY DEF Exec, Call, NoJob, vmProcVars, fileVars
<1>f. ofile' \in [VmProc -> SUBSET VmFile] /\ fileRef' \in [VmFile -> Nat]
  BY <1>1 DEF VmInv, VmTypes
<1>2. CASE OutOfMemory
  <2>1. UNCHANGED <<memVars, job>> BY <1>2 DEF Exec
  <2> QED BY <1>1, <1>f, <2>1, StillStep
<1>3. CASE ~OutOfMemory
  <2> DEFINE h == Head(freelist)
             j == [kind |-> "exec", root |-> h, pages |-> <<>>]
  <2>1. kalloc /\ job' = [job EXCEPT ![p] = j] BY <1>3 DEF Exec
  <2>2. h \in Frame BY <1>3, InvParts DEF OutOfMemory
  <2> HIDE DEF h
  <2>3. j \in Jobs /\ j.kind = "exec" /\ j.root = h /\ j.pages = <<>> /\ Len(j.pages) = 0
    <3>1. <<>> \in Seq(Frame) /\ Len(<<>>) = 0 BY EmptyIs
    <3>2. j \in Jobs BY <2>2, <3>1, JobValues
    <3> QED BY <3>1, <3>2
  <2> HIDE DEF j
  <2>4. job' \in [VmProc -> Jobs] /\ job'[p] = j /\ \A q \in VmProc : q # p => job'[q] = job[q]
    BY <2>1, <2>3, InvParts
  <2>5. Gains("execroot", p, 0)
    <3> SUFFICES ASSUME NEW f \in Frame, NEW k \in Kind, NEW q \in VmProc, NEW i \in Nat
                 PROVE  Own(f, k, q, i)' <=> Own(f, k, q, i) \/ (f = h /\ k = "execroot" /\ q = p /\ i = 0)
      BY <1>3, <2>1 DEF Gains, h
    <3>1. CASE q # p BY <1>1, <2>4, <3>1 DEF Own
    <3>2. CASE q = p BY <1>1, <2>3, <2>4, <3>2 DEF Own
    <3> QED BY <3>1, <3>2
  <2>6. FramesInv' /\ freelist' \in Seq(Frame) /\ ref_count' \in [Frame -> Nat]
    <3>1. "execroot" \in Kind /\ 0 \in Nat BY DEF Kind
    <3> QED BY <2>5, <3>1, InvParts, AllocStep, VmAssumption
  <2>7. VmTypes' BY <1>1, <1>f, <2>4, <2>6, InvParts DEF VmTypes
  <2>8. Len(heap[p]) = vsz[p] BY <1>1, InvParts DEF HeapMatchesSize
  <2>9. 0 <= SegPages + StackPages BY VmAssumption DEF StackPages
  <2>10. Alone(p) BY <1>1, <2>3, <2>4, <2>8, <2>9, InvParts DEF Alone, SlotInv
  <2> QED BY <2>6, <2>7, <2>10, AloneStep DEF VmInv
<1> QED BY <1>2, <1>3

\* exec() maps a page.
LEMMA ExecPageStep ==
    ASSUME VmInv, NEW p \in VmProc, ExecPage(p) PROVE VmInv'
<1>1. /\ job[p].kind = "exec" /\ Len(job[p].pages) < SegPages + StackPages /\ ~OutOfMemory /\ kalloc
      /\ job' = [job EXCEPT ![p].pages = Append(@, Head(freelist))]
      /\ UNCHANGED <<vmState, tf, root, heap, vsz, pt, ptw, ofile, fileRef, minfo, lost, vmPanic, vmCalls>>
  BY DEF ExecPage, vmProcVars, fileVars
<1>f. ofile' \in [VmProc -> SUBSET VmFile] /\ fileRef' \in [VmFile -> Nat]
  BY <1>1 DEF VmInv, VmTypes
<1> DEFINE h == Head(freelist)
           s == job[p].pages
           t == Append(s, h)
           j == [kind |-> "exec", root |-> job[p].root, pages |-> t]
<1>2. h \in Frame BY <1>1, InvParts DEF OutOfMemory
<1> HIDE DEF h
<1>3. s \in Seq(Frame) /\ Len(s) \in Nat /\ job[p].root \in Frame
      /\ job[p] = [kind |-> "exec", root |-> job[p].root, pages |-> s]
      /\ vmState[p] = "live" /\ Len(heap[p]) = vsz[p]
  BY <1>1, ExecIs
<1>4. /\ t \in Seq(Frame) /\ Len(t) = Len(s) + 1
      /\ \A i \in 1..Len(s) : t[i] = s[i]
      /\ t[Len(s) + 1] = h
  BY <1>2, <1>3
<1>5. job' = [job EXCEPT ![p] = j]
  <2>1. job' = [job EXCEPT ![p] = [job[p] EXCEPT !.pages = t]] BY <1>1 DEF h
  <2>2. \A r, u, v : [[kind |-> "exec", root |-> r, pages |-> u] EXCEPT !.pages = v]
                       = [kind |-> "exec", root |-> r, pages |-> v]
    OBVIOUS
  <2> HIDE DEF s, t
  <2>3. [job[p] EXCEPT !.pages = t] = j BY <1>3, <2>2
  <2> QED BY <2>1, <2>3
<1> HIDE DEF s, t
<1>6. j \in Jobs /\ j.kind = "exec" /\ j.root = job[p].root /\ j.pages = t
  BY <1>3, <1>4, JobValues
<1> HIDE DEF j
<1>7. job' \in [VmProc -> Jobs] /\ job'[p] = j /\ \A q \in VmProc : q # p => job'[q] = job[q]
  BY <1>5, <1>6, InvParts
<1>8. Gains("exec", p, Len(s) + 1)
  <2> SUFFICES ASSUME NEW f \in Frame, NEW k \in Kind, NEW q \in VmProc, NEW i \in Nat
               PROVE  Own(f, k, q, i)' <=> Own(f, k, q, i) \/ (f = h /\ k = "exec" /\ q = p /\ i = Len(s) + 1)
    BY <1>1 DEF Gains, h
  <2>1. CASE q # p BY <1>1, <1>7, <2>1 DEF Own
  <2>2. CASE q = p /\ k # "exec" BY <1>1, <1>6, <1>7, <2>2 DEF Own
  <2>3. CASE q = p /\ k = "exec"
    <3>1. i \in 1..Len(t) /\ t[i] = f <=> (i \in 1..Len(s) /\ s[i] = f) \/ (f = h /\ i = Len(s) + 1)
      BY <1>3, <1>4
    <3> QED BY <1>1, <1>6, <1>7, <2>3, <3>1 DEF Own, s
  <2> QED BY <2>1, <2>2, <2>3
<1>9. FramesInv' /\ freelist' \in Seq(Frame) /\ ref_count' \in [Frame -> Nat]
  <2>1. "exec" \in Kind /\ Len(s) + 1 \in Nat BY <1>3 DEF Kind
  <2> QED BY <1>8, <2>1, InvParts, AllocStep, VmAssumption
<1>10. VmTypes' BY <1>1, <1>f, <1>7, <1>9, InvParts DEF VmTypes
<1>11. Len(t) <= SegPages + StackPages BY <1>1, <1>3, <1>4, VmAssumption DEF s, StackPages
<1>12. Alone(p) BY <1>1, <1>3, <1>6, <1>7, <1>11, InvParts DEF Alone, SlotInv
<1> QED BY <1>9, <1>10, <1>12, AloneStep DEF VmInv

\* exec() fails, and gives up what it has: it frees s and loses L.
LEMMA ExecGivesUp ==
    ASSUME VmInv, NEW p \in VmProc, job[p].kind = "exec",
           NEW s \in Seq(Frame), Inj(s), kfree(s), NEW L \in SUBSET Frame,
           ToSet(s) \cap L = {}, ToSet(s) \cup L = ToSet(job[p].pages) \cup {job[p].root},
           lost' = lost \cup L, job' = [job EXCEPT ![p] = NoJob],
           UNCHANGED <<vmProcVars, fileVars, minfo, vmPanic, vmCalls>>
    PROVE  VmInv'
<1> DEFINE D == {"exec", "execroot"} \X {p} \X Nat
<1>1. UNCHANGED <<vmState, tf, root, heap, vsz, pt, ptw, ofile, fileRef, minfo, vmPanic, vmCalls>>
  BY DEF vmProcVars, fileVars
<1>2. /\ job' \in [VmProc -> Jobs] /\ job'[p] = NoJob /\ NoJob.kind = "none"
      /\ \A q \in VmProc : q # p => job'[q] = job[q]
  BY InvParts, JobValues DEF NoJob
<1>3. /\ job[p].root \in Frame /\ vmState[p] = "live" /\ Len(heap[p]) = vsz[p]
      /\ \A f \in Frame : f \in ToSet(job[p].pages) <=> \E i \in Nat : Own(f, "exec", p, i)
      /\ \A f \in Frame : f = job[p].root <=> Own(f, "execroot", p, 0)
  BY ExecIs
<1>4. Drops(s, D, L)
  <2>0. "exec" \in Kind /\ "execroot" \in Kind /\ 0 \in Nat BY DEF Kind
  <2>1. \A f \in Frame : f \in L => f \notin ToSet(s) OBVIOUS
  <2>2. ASSUME NEW f \in Frame, f \in ToSet(s) \/ f \in L
        PROVE  \E k \in Kind, q \in VmProc, i \in Nat : <<k, q, i>> \in D /\ Own(f, k, q, i)
    <3>1. CASE f \in ToSet(job[p].pages)
      <4>1. PICK i \in Nat : Own(f, "exec", p, i) BY <1>3, <3>1
      <4> QED BY <2>0, <4>1
    <3>2. CASE f = job[p].root
      <4>1. Own(f, "execroot", p, 0) BY <1>3, <3>2
      <4> QED BY <2>0, <4>1
    <3> QED BY <2>2, <3>1, <3>2
  <2>3. ASSUME NEW f \in Frame, NEW k \in Kind, NEW q \in VmProc, NEW i \in Nat,
               <<k, q, i>> \in D, Own(f, k, q, i)
        PROVE  f \in ToSet(s) \/ f \in L
    <3>1. CASE k = "exec"
      <4>1. f \in ToSet(job[p].pages) BY <1>3, <2>3, <3>1
      <4> QED BY <4>1
    <3>2. CASE k = "execroot"
      <4>1. f = job[p].root BY <2>3, <3>2 DEF Own
      <4> QED BY <4>1
    <3> QED BY <2>3, <3>1, <3>2
  <2>4. ASSUME NEW f \in Frame, NEW k \in Kind, NEW q \in VmProc, NEW i \in Nat
        PROVE  Own(f, k, q, i)' <=>
                 \/ Own(f, k, q, i) /\ <<k, q, i>> \notin D
                 \/ f \in L /\ k = "lost" /\ q = First /\ i = 0
    <3>1. CASE k = "lost" BY <3>1 DEF Own
    <3>2. CASE k \in {"tf", "root", "heap", "map"} BY <1>1, <3>2 DEF Own
    <3>3. CASE k \in {"fault", "exec", "execroot"} /\ q = p BY <1>2, <3>3 DEF Own
    <3>4. CASE k \in {"fault", "exec", "execroot"} /\ q # p BY <1>2, <3>4 DEF Own
    <3> QED BY <3>1, <3>2, <3>3, <3>4 DEF Kind
  <2> HIDE DEF D
  <2> QED BY <2>1, <2>2, <2>3, <2>4 DEF Drops
<1> HIDE DEF D
<1>5. FramesInv' /\ freelist' \in Seq(Frame) /\ ref_count' \in [Frame -> Nat]
  BY <1>4, InvParts, DropStep, VmAssumption
<1>6. VmTypes'
  <2>1. lost' \subseteq Frame BY InvParts
  <2> QED BY <1>1, <1>2, <1>5, <2>1, InvParts DEF VmTypes, VmInv
<1>7. Alone(p) BY <1>1, <1>2, <1>3, InvParts DEF Alone, SlotInv
<1> QED BY <1>5, <1>6, <1>7, AloneStep DEF VmInv

\* uvmalloc() fails in exec(): some pages are freed and the others lost.
LEMMA ExecOutOfMemoryStep ==
    ASSUME VmInv, NEW p \in VmProc, ExecOutOfMemory(p) PROVE VmInv'
<1> DEFINE pages == job[p].pages
           kept == ExecSz(Len(pages))
           s == SubSeq(pages, kept + 1, Len(pages))
           r == SubSeq(pages, 1, kept)
           L == {job[p].root} \cup ToSet(r)
<1>0. job[p].kind = "exec" BY DEF ExecOutOfMemory
<1>1. /\ job[p].kind = "exec" /\ Len(pages) < SegPages + StackPages
      /\ kfree(s \o FreedWith(job[p].root, pages, 0))
      /\ lost' = lost \cup LostWith(job[p].root, r, 0)
      /\ job' = [job EXCEPT ![p] = NoJob]
      /\ UNCHANGED <<vmProcVars, fileVars, minfo, vmPanic, vmCalls>>
  BY DEF ExecOutOfMemory
<1>2. /\ job[p].root \in Frame /\ pages \in Seq(Frame) /\ Len(pages) \in Nat /\ Inj(pages)
      /\ job[p].root \notin ToSet(pages) /\ DOMAIN pages = 1..Len(pages)
  <2>1. /\ job[p].root \in Frame /\ pages \in Seq(Frame) /\ Len(pages) \in Nat /\ Inj(pages)
        /\ job[p].root \notin ToSet(pages)
    BY <1>0, ExecIs
  <2> HIDE DEF pages
  <2> QED BY <2>1
<1>3. kept \in Nat /\ kept <= Len(pages)
  BY <1>1, <1>2, VmAssumption DEF ExecSz, StackPages
<1> HIDE DEF kept, pages
<1>4. s \in Seq(Frame) /\ Inj(s) /\ ToSet(s) = {pages[i] : i \in kept + 1..Len(pages)}
  <2>1. kept + 1 \in Nat /\ kept + 1 >= 1 /\ Len(pages) <= Len(pages) BY <1>2, <1>3
  <2> QED BY <1>2, <2>1, PartIs
<1>5. ToSet(r) = {pages[i] : i \in 1..kept}
  BY <1>2, <1>3, PartIs
<1> HIDE DEF s, r
<1>6. ToSet(pages) = ToSet(s) \cup ToSet(r)
  <2>1. ToSet(pages) = {pages[i] : i \in 1..Len(pages)} BY <1>2 DEF ToSet
  <2>2. \A i : i \in 1..Len(pages) <=> i \in 1..kept \/ i \in kept + 1..Len(pages) BY <1>2, <1>3
  <2> QED BY <1>4, <1>5, <2>1, <2>2
<1>7. ToSet(s) \cap ToSet(r) = {}
  <2>1. ASSUME NEW i \in kept + 1..Len(pages), NEW j \in 1..kept PROVE pages[i] # pages[j]
    <3>1. i \in 1..Len(pages) /\ j \in 1..Len(pages) /\ i # j BY <1>2, <1>3
    <3> QED BY <1>2, <3>1 DEF Inj
  <2> QED BY <1>4, <1>5, <2>1
<1>8. ToSet(s) \cap L = {} BY <1>2, <1>6, <1>7
<1>9. ToSet(pages) \subseteq Frame BY <1>2 DEF ToSet
<1>10. L \in SUBSET Frame BY <1>2, <1>6, <1>9
<1>11. ToSet(s) \cup L = ToSet(job[p].pages) \cup {job[p].root} BY <1>6 DEF pages
<1>12. kfree(s) /\ lost' = lost \cup L
  <2>1. FreedWith(job[p].root, pages, 0) = <<>> /\ LostWith(job[p].root, r, 0) = L
    BY DEF FreedWith, LostWith
  <2>2. s \o <<>> = s BY <1>4, NoneMore
  <2>3. kfree(s \o <<>>) /\ lost' = lost \cup L BY <1>1, <2>1
  <2> QED BY <2>2, <2>3
<1> HIDE DEF L
<1> QED BY <1>1, <1>4, <1>8, <1>10, <1>11, <1>12, ExecGivesUp

\* exec() leaves at `bad'.
LEMMA ExecBadStep ==
    ASSUME VmInv, NEW p \in VmProc, ExecBad(p) PROVE VmInv'
<1> DEFINE pages == job[p].pages
           r == job[p].root
<1>0. job[p].kind = "exec" BY DEF ExecBad
<1>1. /\ kfree(FreedWith(r, pages, Len(pages)))
      /\ lost' = lost \cup LostWith(r, pages, Len(pages))
      /\ job' = [job EXCEPT ![p] = NoJob]
      /\ UNCHANGED <<vmProcVars, fileVars, minfo, vmPanic, vmCalls>>
  BY DEF ExecBad
<1>2. /\ r \in Frame /\ pages \in Seq(Frame) /\ Len(pages) \in Nat /\ Inj(pages) /\ r \notin ToSet(pages)
  BY <1>0, ExecIs
<1> HIDE DEF pages, r
<1>3. CASE Len(pages) > 0
  <2>1. SubSeq(pages, 1, Len(pages)) = pages BY <1>2
  <2> DEFINE s == pages \o <<r>>
  <2>2. FreedWith(r, pages, Len(pages)) = s /\ LostWith(r, pages, Len(pages)) = {}
    BY <1>3, <2>1 DEF FreedWith, LostWith
  <2>3. s \in Seq(Frame) /\ Inj(s) /\ ToSet(s) = ToSet(pages) \cup {r} BY <1>2, OneMore
  <2> HIDE DEF s
  <2>4. kfree(s) /\ lost' = lost \cup {} BY <1>1, <2>2
  <2>5. ToSet(s) \cap {} = {} /\ ToSet(s) \cup {} = ToSet(job[p].pages) \cup {job[p].root} /\ {} \in SUBSET Frame
    BY <2>3 DEF pages, r
  <2> QED BY <1>0, <1>1, <2>3, <2>4, <2>5, ExecGivesUp
<1>4. CASE Len(pages) = 0
  <2>1. pages = <<>> BY <1>2, <1>4
  <2>2. FreedWith(r, pages, Len(pages)) = <<>> /\ LostWith(r, pages, Len(pages)) = {r} \cup ToSet(pages)
    BY <1>4 DEF FreedWith, LostWith
  <2>3. <<>> \in Seq(Frame) /\ Inj(<<>>) /\ ToSet(<<>>) = {} BY EmptyIs
  <2>4. {r} \cup ToSet(pages) = {r} BY <2>1, <2>3
  <2>5. kfree(<<>>) /\ lost' = lost \cup {r} BY <1>1, <2>2, <2>4
  <2>6. ToSet(<<>>) \cap {r} = {} /\ ToSet(<<>>) \cup {r} = ToSet(job[p].pages) \cup {job[p].root}
        /\ {r} \in SUBSET Frame
    BY <1>2, <2>1, <2>3 DEF pages, r
  <2> DEFINE s == <<>>
  <2>7. s \in Seq(Frame) /\ Inj(s) /\ kfree(s) /\ ToSet(s) \cap {r} = {}
        /\ ToSet(s) \cup {r} = ToSet(job[p].pages) \cup {job[p].root}
    BY <2>3, <2>5, <2>6
  <2> HIDE DEF s
  <2> QED BY <1>0, <1>1, <2>5, <2>6, <2>7, ExecGivesUp
<1> QED BY <1>2, <1>3, <1>4

-----------------------------------------------------------------------------
(* Files, mappings and exit().                                              *)
\* Files.
LEMMA FileCloseTypes ==
    ASSUME fileRef \in [VmFile -> Nat], NEW fs, FileClose(fs)
    PROVE  fileRef' \in [VmFile -> Nat]
<1>1. CASE \E f \in fs : fileRef[f] < 1 BY <1>1 DEF FileClose
<1>2. CASE ~ \E f \in fs : fileRef[f] < 1
  <2>1. fileRef' = [f \in VmFile |-> IF f \in fs THEN fileRef[f] - 1 ELSE fileRef[f]]
    BY <1>2 DEF FileClose
  <2>2. \A f \in VmFile : (IF f \in fs THEN fileRef[f] - 1 ELSE fileRef[f]) \in Nat BY <1>2
  <2> QED BY <2>1, <2>2
<1> QED BY <1>1, <1>2

\* fileclose() moves no memory.
LEMMA CloseStep ==
    ASSUME VmInv, NEW p \in VmProc, NEW f \in VmFile, Close(p, f) PROVE VmInv'
<1>0. ofile \in [VmProc -> SUBSET VmFile] /\ fileRef \in [VmFile -> Nat] BY DEF VmInv, VmTypes
<1>1. FileClose({f}) /\ ofile' = [ofile EXCEPT ![p] = @ \ {f}] BY DEF Close
<1>2. fileRef' \in [VmFile -> Nat] BY <1>0, <1>1, FileCloseTypes
<1>3. ofile' \in [VmProc -> SUBSET VmFile] BY <1>0, <1>1
<1>4. UNCHANGED <<memVars, vmState, tf, root, heap, vsz, pt, job, lost>> BY DEF Close, vmProcVars
<1> QED BY <1>2, <1>3, <1>4, StillStep

\* sys_mmap() moves no memory.
LEMMA MmapStep ==
    ASSUME VmInv, NEW p \in VmProc, NEW f \in VmFile, NEW len, NEW write, Mmap(p, f, len, write)
    PROVE  VmInv'
<1>0. ofile \in [VmProc -> SUBSET VmFile] /\ fileRef \in [VmFile -> Nat] BY DEF VmInv, VmTypes
<1>1. ofile' = ofile /\ (fileRef' = fileRef \/ fileRef' = [fileRef EXCEPT ![f] = @ + 1])
  BY DEF Mmap
<1>2. fileRef' \in [VmFile -> Nat] BY <1>0, <1>1
<1>3. UNCHANGED <<memVars, vmState, tf, root, heap, vsz, pt, job, lost>> BY DEF Mmap, vmProcVars
<1> QED BY <1>0, <1>1, <1>2, <1>3, StillStep

\* Pages of the mmap area are unmapped, and their frames freed.
LEMMA UnmapStep ==
    ASSUME VmInv, NEW p \in VmProc, NEW vas, kderef(Mapped(p, vas)), Unmap(p, vas),
           UNCHANGED <<tf, root, heap, lost>>, JobKeeps
    PROVE  /\ FramesInv' /\ freelist' \in Seq(Frame) /\ ref_count' \in [Frame -> Nat]
           /\ pt' \in [VmProc -> [VA -> Frame \cup {NoFrame}]]
           /\ \A q \in VmProc : q # p => pt'[q] = pt[q]
<1> DEFINE s == Mapped(p, vas)
           D == {"map"} \X {p} \X {va \in VA : va \in vas}
<1>1. VA \subseteq Nat BY DEF VA
<1>2. /\ s \in Seq(Frame) /\ Inj(s)
      /\ \A f : f \in ToSet(s) <=> \E va \in VA : va \in vas /\ pt[p][va] = f /\ f # NoFrame
  BY InvParts, MappedIs, VmAssumption
<1>3. \A i \in DOMAIN s : ref_count[s[i]] = 1
  <2> TAKE i \in DOMAIN s
  <2>1. s[i] \in Frame /\ s[i] \in ToSet(s)
    <3> HIDE DEF s
    <3> QED BY <1>2 DEF ToSet
  <2>2. PICK va \in VA : pt[p][va] = s[i] BY <1>2, <2>1
  <2>3. Own(s[i], "map", p, va) /\ "map" \in Kind /\ va \in Nat BY <1>1, <2>2 DEF Own, Kind
  <2> QED BY <2>1, <2>3, InvParts, OwnUnique
<1>d. kderef(s) OBVIOUS
<1> HIDE DEF s
<1>4. PICK t \in Seq(Frame) : Inj(t) /\ ToSet(t) = ToSet(s) /\ kfree(t)
  BY <1>2, <1>3, <1>d, InvParts, KderefIs
<1>5. /\ pt' \in [VmProc -> [VA -> Frame \cup {NoFrame}]]
      /\ \A q \in VmProc : q # p => pt'[q] = pt[q]
      /\ \A va \in VA : pt'[p][va] = IF va \in vas THEN NoFrame ELSE pt[p][va]
  <2>0. pt \in [VmProc -> [VA -> Frame \cup {NoFrame}]] BY InvParts
  <2>1. pt' = [pt EXCEPT ![p] = [va \in VA |-> IF va \in vas THEN NoFrame ELSE pt[p][va]]] BY DEF Unmap
  <2>2. [va \in VA |-> IF va \in vas THEN NoFrame ELSE pt[p][va]] \in [VA -> Frame \cup {NoFrame}]
    BY <2>0
  <2> QED BY <2>0, <2>1, <2>2
<1>6. Drops(t, D, {})
  <2>1. ASSUME NEW f \in Frame, f \in ToSet(t) \/ f \in {}
        PROVE  \E k \in Kind, q \in VmProc, i \in Nat : <<k, q, i>> \in D /\ Own(f, k, q, i)
    <3>1. PICK va \in VA : va \in vas /\ pt[p][va] = f BY <1>2, <1>4, <2>1
    <3>2. "map" \in Kind /\ va \in Nat /\ Own(f, "map", p, va) BY <1>1, <3>1 DEF Own, Kind
    <3> QED BY <3>1, <3>2
  <2>2. ASSUME NEW f \in Frame, NEW k \in Kind, NEW q \in VmProc, NEW i \in Nat,
               <<k, q, i>> \in D, Own(f, k, q, i)
        PROVE  f \in ToSet(t)
    <3>1. i \in VA /\ i \in vas /\ pt[p][i] = f /\ f # NoFrame BY <2>2, InvParts DEF Own
    <3> QED BY <1>2, <1>4, <3>1
  <2>3. ASSUME NEW f \in Frame, NEW k \in Kind, NEW q \in VmProc, NEW i \in Nat
        PROVE  Own(f, k, q, i)' <=> Own(f, k, q, i) /\ <<k, q, i>> \notin D
    <3>0. f # NoFrame BY InvParts
    <3>1. CASE k = "map" /\ q = p BY <1>5, <3>0, <3>1 DEF Own
    <3>2. CASE k = "map" /\ q # p BY <1>5, <3>2 DEF Own
    <3>3. CASE k # "map"
      <4>1. <<k, q, i>> \notin D BY <3>3
      <4>2. CASE job'[q] = job[q] BY <3>3, <4>1, <4>2 DEF Own
      <4>3. CASE job[q].kind \notin {"exec", "fault"} /\ job'[q].kind \notin {"exec", "fault"}
        BY <3>3, <4>1, <4>3 DEF Own
      <4> QED BY <4>2, <4>3 DEF JobKeeps
    <3> QED BY <3>1, <3>2, <3>3
  <2> HIDE DEF D
  <2> QED BY <1>4, <2>1, <2>2, <2>3 DEF Drops
<1>7. FramesInv' /\ freelist' \in Seq(Frame) /\ ref_count' \in [Frame -> Nat]
  <2> HIDE DEF D
  <2> QED BY <1>6, InvParts, DropStep, VmAssumption
<1> QED BY <1>5, <1>7

\* sys_munmap() gives back the frames it unmaps.
LEMMA MunmapStep ==
    ASSUME VmInv, NEW p \in VmProc, NEW addr, NEW len, Munmap(p, addr, len) PROVE VmInv'
<1> DEFINE vas == addr..addr + len - 1
<1>1. /\ vmState[p] = "live" /\ job[p] = NoJob /\ NoJob.kind = "none"
      /\ kderef(Mapped(p, vas)) /\ Unmap(p, vas)
      /\ UNCHANGED <<vmState, tf, root, heap, vsz, ofile, job, lost>>
  BY DEF Munmap, Call, NoJob
<1>2. JobKeeps BY <1>1 DEF JobKeeps
<1>3. fileRef' \in [VmFile -> Nat]
  <2>0. fileRef \in [VmFile -> Nat] BY DEF VmInv, VmTypes
  <2>1. FileClose({minfo[p][addr \div MMAP_PAGES].file}) \/ fileRef' = fileRef BY DEF Munmap
  <2> QED BY <2>0, <2>1, FileCloseTypes
<1> HIDE DEF vas
<1>4. /\ FramesInv' /\ freelist' \in Seq(Frame) /\ ref_count' \in [Frame -> Nat]
      /\ pt' \in [VmProc -> [VA -> Frame \cup {NoFrame}]]
      /\ \A q \in VmProc : q # p => pt'[q] = pt[q]
  BY <1>1, <1>2, UnmapStep
<1>5. VmTypes' BY <1>1, <1>3, <1>4, InvParts DEF VmTypes, VmInv
<1>6. Len(heap[p]) = vsz[p] BY <1>1, InvParts DEF HeapMatchesSize
<1>7. Alone(p) BY <1>1, <1>4, <1>6, InvParts DEF Alone, SlotInv
<1> QED BY <1>4, <1>5, <1>7, AloneStep DEF VmInv

\* exit(), called by the process or for it.
LEMMA ExitEffectsStep ==
    ASSUME VmInv, NEW p \in VmProc, vmState[p] = "live", job[p].kind \in {"none", "killed"},
           ExitEffects(p), job' = [job EXCEPT ![p] = NoJob]
    PROVE  VmInv'
<1> DEFINE vas == UNION {m.vstart..m.vend - 1 : m \in {minfo[p][i] : i \in {i \in VmSlot : minfo[p][i].used}}}
<1>1. /\ FileClose(ofile[p]) /\ ofile' = [ofile EXCEPT ![p] = {}]
      /\ kderef(Mapped(p, vas)) /\ Unmap(p, vas)
      /\ vmState' = [vmState EXCEPT ![p] = "zombie"]
      /\ UNCHANGED <<tf, root, heap, vsz, lost>>
  BY DEF ExitEffects
<1> HIDE DEF vas
<1>2. /\ job' \in [VmProc -> Jobs] /\ job'[p] = NoJob /\ NoJob.kind = "none"
      /\ \A q \in VmProc : q # p => job'[q] = job[q]
  BY InvParts, JobValues DEF NoJob
<1>3. JobKeeps BY <1>2 DEF JobKeeps
<1>4. fileRef' \in [VmFile -> Nat] /\ ofile' \in [VmProc -> SUBSET VmFile]
  <2>0. fileRef \in [VmFile -> Nat] /\ ofile \in [VmProc -> SUBSET VmFile] BY DEF VmInv, VmTypes
  <2> QED BY <1>1, <2>0, FileCloseTypes
<1>5. /\ FramesInv' /\ freelist' \in Seq(Frame) /\ ref_count' \in [Frame -> Nat]
      /\ pt' \in [VmProc -> [VA -> Frame \cup {NoFrame}]]
      /\ \A q \in VmProc : q # p => pt'[q] = pt[q]
  BY <1>1, <1>3, UnmapStep
<1>6. /\ vmState' \in [VmProc -> {"unused", "live", "zombie"}] /\ vmState'[p] = "zombie"
      /\ \A q \in VmProc : q # p => vmState'[q] = vmState[q]
  BY <1>1, InvParts
<1>7. VmTypes' BY <1>1, <1>2, <1>4, <1>5, <1>6, InvParts DEF VmTypes
<1>8. Len(heap[p]) = vsz[p] BY InvParts DEF HeapMatchesSize
<1>9. Alone(p) BY <1>1, <1>2, <1>5, <1>6, <1>8, InvParts DEF Alone, SlotInv
<1> QED BY <1>5, <1>7, <1>9, AloneStep DEF VmInv

\* exit() between two calls, or of a process that has been killed.
LEMMA ExitStep ==
    ASSUME VmInv, NEW p \in VmProc, Exit(p) \/ ExitKilled(p) PROVE VmInv'
<1>1. CASE Exit(p)
  <2>1. vmState[p] = "live" /\ job[p] = NoJob /\ ExitEffects(p) /\ job' = job
    BY <1>1 DEF Exit, Call
  <2>2. job' = [job EXCEPT ![p] = NoJob] BY <2>1, InvParts
  <2>3. job[p].kind = "none" BY <2>1 DEF NoJob
  <2> QED BY <2>1, <2>2, <2>3, ExitEffectsStep
<1>2. CASE ExitKilled(p)
  <2>1. job[p].kind = "killed" /\ ExitEffects(p) /\ job' = [job EXCEPT ![p] = NoJob]
    BY <1>2 DEF ExitKilled
  <2>2. vmState[p] = "live" BY <2>1, InvParts DEF NoJob
  <2> QED BY <2>1, <2>2, ExitEffectsStep
<1> QED BY <1>1, <1>2

-----------------------------------------------------------------------------
(* Page faults.                                                             *)
\* A step that frees nothing, but moves frames.
LEMMA MoveStep ==
    ASSUME FramesInv, UNCHANGED memVars,
           \A f \in Frame, k \in Kind, p \in VmProc, i \in Nat : IsFree(f) => ~Own(f, k, p, i)',
           \A f \in Frame : ~IsFree(f) => Sole(f)'
    PROVE  FramesInv'
<1>1. ref_count' = ref_count /\ freelist' = freelist BY DEF memVars
<1>2. \A f : IsFree(f)' <=> IsFree(f) BY <1>1 DEF IsFree
<1>3. Inj(freelist)' BY <1>1 DEF FramesInv
<1>4. ASSUME NEW f \in Frame, IsFree(f)'
      PROVE  ref_count'[f] = 0 /\ \A k \in Kind, p \in VmProc, i \in Nat : ~Own(f, k, p, i)'
  BY <1>1, <1>2, <1>4 DEF FramesInv
<1>5. ASSUME NEW f \in Frame, ~IsFree(f)' PROVE ref_count'[f] = 1 /\ Sole(f)'
  BY <1>1, <1>2, <1>5 DEF FramesInv
<1> QED BY <1>3, <1>4, <1>5 DEF FramesInv

\* The page fault.
LEMMA FaultStep ==
    ASSUME VmInv, NEW p \in VmProc, NEW va \in VA, Fault(p, va) PROVE VmInv'
<1>1. vmState[p] = "live" /\ job[p] = NoJob /\ job[p].kind = "none" BY DEF Fault, Call, NoJob
<1>2. CASE ExitEffects(p) /\ UNCHANGED job
  <2>1. job' = [job EXCEPT ![p] = NoJob] BY <1>1, <1>2, InvParts
  <2> QED BY <1>1, <1>2, <2>1, ExitEffectsStep
<1>3. CASE ~(ExitEffects(p) /\ UNCHANGED job)
  <2> DEFINE h == Head(freelist)
             j == [kind |-> "fault", va |-> va, frame |-> h]
  <2>1. /\ ~OutOfMemory /\ kalloc /\ job' = [job EXCEPT ![p] = j]
        /\ UNCHANGED <<vmState, tf, root, heap, vsz, pt, ptw, ofile, fileRef, minfo, lost, vmPanic>>
    BY <1>3 DEF Fault, vmProcVars, fileVars
  <2>2. h \in Frame BY <2>1, InvParts DEF OutOfMemory
  <2> HIDE DEF h
  <2>3. j \in Jobs /\ j.kind = "fault" /\ j.frame = h BY <2>2, JobValues
  <2> HIDE DEF j
  <2>4. job' \in [VmProc -> Jobs] /\ job'[p] = j /\ \A q \in VmProc : q # p => job'[q] = job[q]
    BY <2>1, <2>3, InvParts
  <2>5. Gains("fault", p, 0)
    <3> SUFFICES ASSUME NEW f \in Frame, NEW k \in Kind, NEW q \in VmProc, NEW i \in Nat
                 PROVE  Own(f, k, q, i)' <=> Own(f, k, q, i) \/ (f = h /\ k = "fault" /\ q = p /\ i = 0)
      BY <2>1 DEF Gains, h
    <3>1. CASE q # p BY <2>1, <2>4, <3>1 DEF Own
    <3>2. CASE q = p BY <1>1, <2>1, <2>3, <2>4, <3>2 DEF Own
    <3> QED BY <3>1, <3>2
  <2>6. FramesInv' /\ freelist' \in Seq(Frame) /\ ref_count' \in [Frame -> Nat]
    <3>1. "fault" \in Kind /\ 0 \in Nat BY DEF Kind
    <3> QED BY <2>5, <3>1, InvParts, AllocStep, VmAssumption
  <2>f. ofile' \in [VmProc -> SUBSET VmFile] /\ fileRef' \in [VmFile -> Nat]
    BY <2>1 DEF VmInv, VmTypes
  <2>7. VmTypes' BY <2>1, <2>f, <2>4, <2>6, InvParts DEF VmTypes
  <2>8. Len(heap[p]) = vsz[p] BY <1>1, InvParts DEF HeapMatchesSize
  <2>9. Alone(p) BY <1>1, <2>1, <2>3, <2>4, <2>8, InvParts DEF Alone, SlotInv
  <2> QED BY <2>6, <2>7, <2>9, AloneStep DEF VmInv
<1> QED BY <1>2, <1>3

\* What a process in a page fault holds.
LEMMA FaultIs ==
    ASSUME VmInv, NEW p \in VmProc, job[p].kind = "fault"
    PROVE  /\ job[p].va \in VA /\ job[p].frame \in Frame /\ Own(job[p].frame, "fault", p, 0)
           /\ vmState[p] = "live" /\ Len(heap[p]) = vsz[p]
<1>1. job[p].va \in VA /\ job[p].frame \in Frame /\ job[p] # NoJob BY InvParts, JobIs DEF NoJob
<1>2. Own(job[p].frame, "fault", p, 0) BY DEF Own
<1>3. vmState[p] = "live" BY <1>1, InvParts
<1>4. Len(heap[p]) = vsz[p] BY <1>3, InvParts DEF HeapMatchesSize
<1> QED BY <1>1, <1>2, <1>3, <1>4

\* The page of a fault goes into the page table.
LEMMA FaultMapStep ==
    ASSUME VmInv, NEW p \in VmProc, FaultMap(p) PROVE VmInv'
<1>0. job[p].kind = "fault" BY DEF FaultMap
<1>1. PICK va \in VA, h \in Frame : va = job[p].va /\ h = job[p].frame BY <1>0, FaultIs
<1>2. CASE pt[p][va] # NoFrame
  <2>1. Panic("remap") BY <1>1, <1>2 DEF FaultMap
  <2> QED BY <2>1, PanicStep
<1>3. CASE pt[p][va] = NoFrame
  <2>1. /\ pt' = [pt EXCEPT ![p][va] = h] /\ job' = [job EXCEPT ![p] = NoJob]
        /\ UNCHANGED <<memVars, vmState, tf, root, heap, vsz, ofile, fileRef, minfo, lost>>
    BY <1>1, <1>3 DEF FaultMap, fileVars
  <2>2. /\ job' \in [VmProc -> Jobs] /\ job'[p] = NoJob /\ NoJob.kind = "none"
        /\ \A q \in VmProc : q # p => job'[q] = job[q]
    BY <2>1, InvParts, JobValues DEF NoJob
  <2>3. /\ pt' \in [VmProc -> [VA -> Frame \cup {NoFrame}]]
        /\ \A q \in VmProc : q # p => pt'[q] = pt[q]
        /\ pt'[p][va] = h /\ \A v \in VA : v # va => pt'[p][v] = pt[p][v]
    <3>0. pt \in [VmProc -> [VA -> Frame \cup {NoFrame}]] BY InvParts
    <3>1. pt' = [pt EXCEPT ![p] = [pt[p] EXCEPT ![va] = h]] BY <2>1
    <3>2. [pt[p] EXCEPT ![va] = h] \in [VA -> Frame \cup {NoFrame}] BY <3>0
    <3> QED BY <3>0, <3>1, <3>2
  <2>4. \A f \in Frame, k \in Kind, q \in VmProc, i \in Nat :
          Own(f, k, q, i)' <=>
            \/ Own(f, k, q, i) /\ ~(k = "fault" /\ q = p)
            \/ f = h /\ k = "map" /\ q = p /\ i = va
    <3> SUFFICES ASSUME NEW f \in Frame, NEW k \in Kind, NEW q \in VmProc, NEW i \in Nat
                 PROVE  Own(f, k, q, i)' <=>
                          \/ Own(f, k, q, i) /\ ~(k = "fault" /\ q = p)
                          \/ f = h /\ k = "map" /\ q = p /\ i = va
      OBVIOUS
    <3>0. f # NoFrame BY InvParts
    <3>1. CASE k = "map" /\ q = p BY <1>3, <2>3, <3>0, <3>1 DEF Own
    <3>2. CASE k = "map" /\ q # p BY <2>3, <3>2 DEF Own
    <3>3. CASE k # "map" /\ q = p BY <1>0, <2>1, <2>2, <3>3 DEF Own
    <3>4. CASE k # "map" /\ q # p BY <2>1, <2>2, <3>4 DEF Own
    <3> QED BY <3>1, <3>2, <3>3, <3>4
  <2>5. /\ "fault" \in Kind /\ "map" \in Kind /\ 0 \in Nat /\ va \in Nat
        /\ Own(h, "fault", p, 0)
    BY <1>0, <1>1, FaultIs DEF Kind, VA
  <2>6. FramesInv /\ ~IsFree(h) /\
        \A l \in Kind, q \in VmProc, j \in Nat : Own(h, l, q, j) => l = "fault" /\ q = p /\ j = 0
    BY <2>5, InvParts, OwnUnique
  <2>7. FramesInv'
    <3>1. ASSUME NEW f \in Frame, NEW k \in Kind, NEW q \in VmProc, NEW i \in Nat, IsFree(f)
          PROVE  ~Own(f, k, q, i)'
      <4>1. f # h /\ ~Own(f, k, q, i) BY <2>6, <3>1 DEF FramesInv
      <4> QED BY <2>4, <4>1
    <3>2. ASSUME NEW f \in Frame, ~IsFree(f) PROVE Sole(f)'
      <4>1. CASE f = h
        <5>1. \A k \in Kind, q \in VmProc, i \in Nat : Own(f, k, q, i)' <=> k = "map" /\ q = p /\ i = va
          <6> TAKE k \in Kind, q \in VmProc, i \in Nat
          <6>1. Own(f, k, q, i)' <=>
                  \/ Own(f, k, q, i) /\ ~(k = "fault" /\ q = p)
                  \/ f = h /\ k = "map" /\ q = p /\ i = va
            BY <2>4
          <6>2. Own(f, k, q, i) => k = "fault" /\ q = p BY <2>6, <4>1
          <6> QED BY <4>1, <6>1, <6>2
        <5>2. \E l \in Kind, r \in VmProc, j \in Nat :
                \A k \in Kind, q \in VmProc, i \in Nat : Own(f, k, q, i)' <=> k = l /\ q = r /\ i = j
          <6> "map" \in Kind /\ va \in Nat BY <2>5
          <6> WITNESS "map" \in Kind, p \in VmProc, va \in Nat
          <6> QED BY <5>1
        <5> QED BY <5>2 DEF Sole
      <4>2. CASE f # h
        <5>1. \A k \in Kind, q \in VmProc, i \in Nat : Own(f, k, q, i)' <=> Own(f, k, q, i)
          <6> TAKE k \in Kind, q \in VmProc, i \in Nat
          <6>1. Own(f, k, q, i)' <=>
                  \/ Own(f, k, q, i) /\ ~(k = "fault" /\ q = p)
                  \/ f = h /\ k = "map" /\ q = p /\ i = va
            BY <2>4
          <6>2. Own(f, k, q, i) => ~(k = "fault" /\ q = p) BY <1>1, <4>2 DEF Own
          <6> QED BY <4>2, <6>1, <6>2
        <5> QED BY <2>6, <3>2, <5>1, SoleKept
      <4> QED BY <4>1, <4>2
    <3> QED BY <2>1, <2>6, <3>1, <3>2, MoveStep
  <2>8. VmTypes' BY <2>1, <2>2, <2>3, InvParts DEF VmTypes, VmInv, memVars
  <2>9. vmState[p] = "live" /\ Len(heap[p]) = vsz[p] BY <1>0, FaultIs
  <2>10. Alone(p) BY <1>0, <2>1, <2>2, <2>3, <2>9, InvParts DEF Alone, SlotInv
  <2> QED BY <2>7, <2>8, <2>10, AloneStep DEF VmInv
<1> QED BY <1>2, <1>3

\* The page of a fault is freed.
LEMMA FaultMapFailsStep ==
    ASSUME VmInv, NEW p \in VmProc, FaultMapFails(p) PROVE VmInv'
<1>0. job[p].kind = "fault" BY DEF FaultMapFails
<1> DEFINE k0 == [kind |-> "killed"]
           s == <<job[p].frame>>
           D == {"fault"} \X {p} \X {0}
<1>1. /\ kfree(s) /\ job' = [job EXCEPT ![p] = k0]
      /\ UNCHANGED <<vmState, tf, root, heap, vsz, pt, ptw, ofile, fileRef, minfo, lost>>
  BY DEF FaultMapFails, vmProcVars, fileVars
<1>2. k0 \in Jobs /\ k0.kind = "killed" BY JobValues
<1> HIDE DEF k0
<1>3. job' \in [VmProc -> Jobs] /\ job'[p] = k0 /\ \A q \in VmProc : q # p => job'[q] = job[q]
  BY <1>1, <1>2, InvParts
<1>4. /\ job[p].frame \in Frame /\ Own(job[p].frame, "fault", p, 0)
      /\ vmState[p] = "live" /\ Len(heap[p]) = vsz[p]
  BY <1>0, FaultIs
<1>5. s \in Seq(Frame) /\ Inj(s) /\ ToSet(s) = {job[p].frame} BY <1>4, SingleIs
<1> HIDE DEF s
<1>6. Drops(s, D, {})
  <2>1. ASSUME NEW f \in Frame, f \in ToSet(s) \/ f \in {}
        PROVE  \E k \in Kind, q \in VmProc, i \in Nat : <<k, q, i>> \in D /\ Own(f, k, q, i)
    <3>1. "fault" \in Kind /\ 0 \in Nat /\ Own(f, "fault", p, 0) BY <1>4, <1>5, <2>1 DEF Kind
    <3> QED BY <3>1
  <2>2. ASSUME NEW f \in Frame, NEW k \in Kind, NEW q \in VmProc, NEW i \in Nat,
               <<k, q, i>> \in D, Own(f, k, q, i)
        PROVE  f \in ToSet(s)
    BY <1>5, <2>2 DEF Own
  <2>3. ASSUME NEW f \in Frame, NEW k \in Kind, NEW q \in VmProc, NEW i \in Nat
        PROVE  Own(f, k, q, i)' <=> Own(f, k, q, i) /\ <<k, q, i>> \notin D
    <3>1. CASE q = p BY <1>0, <1>1, <1>2, <1>3, <3>1 DEF Own
    <3>2. CASE q # p BY <1>1, <1>3, <3>2 DEF Own
    <3> QED BY <3>1, <3>2
  <2> HIDE DEF D
  <2> QED BY <1>1, <1>5, <2>1, <2>2, <2>3 DEF Drops
<1>7. FramesInv' /\ freelist' \in Seq(Frame) /\ ref_count' \in [Frame -> Nat]
  <2> HIDE DEF D
  <2> QED BY <1>6, InvParts, DropStep, VmAssumption
<1>8. VmTypes' BY <1>1, <1>3, <1>7, InvParts DEF VmTypes, VmInv
<1>9. Alone(p) BY <1>0, <1>1, <1>2, <1>3, <1>4, InvParts DEF Alone, SlotInv
<1> QED BY <1>7, <1>8, <1>9, AloneStep DEF VmInv

-----------------------------------------------------------------------------
(* The page table that exec() gives up, wait(), and the theorem.            *)
\* The frames of p's page table and memory that are freed, and those that are lost.
Freed(p) == FreedWith(root[p], heap[p], vsz[p])
Loses(p) == LostWith(root[p], heap[p] \o Mapped(p, VA), vsz[p])

\* What is left of a page table and its memory: freed, or lost.
LEMMA FreedIs ==
    ASSUME VmInv, NEW p \in VmProc, Len(heap[p]) = vsz[p], root[p] \in Frame,
           ~(vsz[p] > 0 /\ LeafLeft(p))
    PROVE  /\ Freed(p) \in Seq(Frame) /\ Inj(Freed(p))
           /\ Loses(p) \in SUBSET Frame /\ ToSet(Freed(p)) \cap Loses(p) = {}
           /\ \A f \in Frame : f \in ToSet(Freed(p)) \/ f \in Loses(p) <=>
                 f = root[p] \/ f \in ToSet(heap[p]) \/ \E va \in VA : pt[p][va] = f
<1> DEFINE w == Freed(p)
           L == Loses(p)
<1>1. /\ heap[p] \in Seq(Frame) /\ Len(heap[p]) \in Nat /\ vsz[p] \in Nat /\ NoFrame \notin Frame
      /\ FramesInv /\ VmTypes
  BY InvParts
<1>2. Inj(heap[p]) /\ root[p] \notin ToSet(heap[p]) BY PlacesDiffer
<1> DEFINE m == Mapped(p, VA)
<1>3. /\ m \in Seq(Frame)
      /\ \A f : f \in ToSet(m) <=> \E va \in VA : va \in VA /\ pt[p][va] = f /\ f # NoFrame
  BY <1>1, MappedIs, VmAssumption
<1> HIDE DEF m
<1>4. CASE vsz[p] > 0
  <2>1. SubSeq(heap[p], 1, vsz[p]) = heap[p] BY <1>1
  <2>2. w = heap[p] \o <<root[p]>> /\ L = {} BY <1>4, <2>1 DEF FreedWith, LostWith, Freed, Loses
  <2>3. heap[p] \o <<root[p]>> \in Seq(Frame) /\ Inj(heap[p] \o <<root[p]>>)
        /\ ToSet(heap[p] \o <<root[p]>>) = ToSet(heap[p]) \cup {root[p]}
    BY <1>1, <1>2, OneMore
  <2>4. \A va \in VA : pt[p][va] = NoFrame BY <1>4 DEF LeafLeft
  <2>5. w \in Seq(Frame) /\ Inj(w) /\ ToSet(w) = ToSet(heap[p]) \cup {root[p]} BY <2>2, <2>3
  <2> QED BY <1>1, <2>2, <2>4, <2>5
<1>5. CASE vsz[p] = 0
  <2>1. heap[p] = <<>> BY <1>1, <1>5
  <2>2. w = <<>> /\ L = {root[p]} \cup ToSet(heap[p] \o m) BY <1>5 DEF FreedWith, LostWith, Freed, Loses, m
  <2>3. heap[p] \o m = m BY <1>3, <2>1
  <2>4. <<>> \in Seq(Frame) /\ Inj(<<>>) /\ ToSet(<<>>) = {} BY EmptyIs
  <2>5. w \in Seq(Frame) /\ Inj(w) /\ ToSet(w) = {} BY <2>2, <2>4
  <2>6. ToSet(heap[p]) = {} BY <2>1, <2>4
  <2>7. L = {root[p]} \cup ToSet(m) BY <2>2, <2>3
  <2>8. ToSet(m) \subseteq Frame BY <1>3 DEF ToSet
  <2>9. \A f \in Frame : f \in ToSet(m) <=> \E va \in VA : pt[p][va] = f BY <1>1, <1>3
  <2> QED BY <2>5, <2>6, <2>7, <2>8, <2>9
<1> QED BY <1>1, <1>4, <1>5

\* exec() frees the old page table and takes the new one.
LEMMA ExecDoneStep ==
    ASSUME VmInv, NEW p \in VmProc, ExecDone(p) PROVE VmInv'
<1>0. job[p].kind = "exec" BY DEF ExecDone
<1>1. CASE vsz[p] > 0 /\ LeafLeft(p)
  <2>1. Panic("freewalk: leaf") BY <1>1 DEF ExecDone
  <2> QED BY <2>1, PanicStep
<1>2. CASE ~(vsz[p] > 0 /\ LeafLeft(p))
  <2>1. PICK w, L : w = Freed(p) /\ L = Loses(p) OBVIOUS
  <2>2. PICK r, g : r = job[p].root /\ g = job[p].pages OBVIOUS
  <2>3. /\ kfree(w) /\ lost' = lost \cup L
        /\ root' = [root EXCEPT ![p] = r]
        /\ heap' = [heap EXCEPT ![p] = g]
        /\ vsz' = [vsz EXCEPT ![p] = Len(g)]
        /\ Unmap(p, VA)
        /\ job' = [job EXCEPT ![p] = NoJob]
        /\ UNCHANGED <<vmState, tf, ofile, fileRef, minfo, vmPanic, vmCalls>>
    BY <1>2, <2>1, <2>2 DEF ExecDone, fileVars, Freed, Loses
  <2>4. /\ r \in Frame /\ g \in Seq(Frame) /\ Len(g) \in Nat /\ Inj(g)
        /\ vmState[p] = "live" /\ Len(heap[p]) = vsz[p] /\ tf[p] # NoFrame /\ root[p] \in Frame
    BY <1>0, <2>2, ExecIs, InvParts
  <2>5. /\ w \in Seq(Frame) /\ Inj(w) /\ L \in SUBSET Frame /\ ToSet(w) \cap L = {}
        /\ \A f \in Frame : f \in ToSet(w) \/ f \in L <=>
              f = root[p] \/ f \in ToSet(heap[p]) \/ \E va \in VA : pt[p][va] = f
    BY <1>2, <2>1, <2>4, FreedIs
  <2>6. /\ job' \in [VmProc -> Jobs] /\ job'[p] = NoJob /\ NoJob.kind = "none"
        /\ \A q \in VmProc : q # p => job'[q] = job[q]
    BY <2>3, InvParts, JobValues DEF NoJob
  <2>7. /\ heap' \in [VmProc -> Seq(Frame)] /\ heap'[p] = g
        /\ root' \in [VmProc -> Frame \cup {NoFrame}] /\ root'[p] = r
        /\ \A q \in VmProc : q # p => heap'[q] = heap[q] /\ root'[q] = root[q]
    BY <2>3, <2>4, InvParts
  <2>8. /\ vsz' \in [VmProc -> 0..NFrames] /\ vsz'[p] = Len(g)
        /\ \A q \in VmProc : q # p => vsz'[q] = vsz[q]
    <3>1. Len(g) <= NFrames BY <2>4, SeqFits
    <3>2. Len(g) \in 0..NFrames BY <2>4, <3>1, VmAssumption
    <3> QED BY <2>3, <3>2, InvParts
  <2>9. /\ pt' \in [VmProc -> [VA -> Frame \cup {NoFrame}]]
        /\ \A q \in VmProc : q # p => pt'[q] = pt[q]
        /\ \A va \in VA : pt'[p][va] = NoFrame
    <3>0. pt \in [VmProc -> [VA -> Frame \cup {NoFrame}]] BY InvParts
    <3>1. pt' = [pt EXCEPT ![p] = [va \in VA |-> IF va \in VA THEN NoFrame ELSE pt[p][va]]]
      BY <2>3 DEF Unmap
    <3>2. [va \in VA |-> IF va \in VA THEN NoFrame ELSE pt[p][va]] \in [VA -> Frame \cup {NoFrame}]
      OBVIOUS
    <3> QED BY <3>0, <3>1, <3>2
  <2> DEFINE A(k, q) == q = p /\ k \in {"root", "heap", "map", "exec", "execroot", "fault"}
  <2>10. \A f \in Frame, k \in Kind, q \in VmProc, i \in Nat :
          Own(f, k, q, i)' <=>
            \/ Own(f, k, q, i) /\ ~A(k, q)
            \/ q = p /\ k = "heap" /\ Own(f, "exec", p, i)
            \/ q = p /\ k = "root" /\ Own(f, "execroot", p, i)
            \/ f \in L /\ k = "lost" /\ q = First /\ i = 0
    <3> SUFFICES ASSUME NEW f \in Frame, NEW k \in Kind, NEW q \in VmProc, NEW i \in Nat
                 PROVE  Own(f, k, q, i)' <=>
                            \/ Own(f, k, q, i) /\ ~A(k, q)
                            \/ q = p /\ k = "heap" /\ Own(f, "exec", p, i)
                            \/ q = p /\ k = "root" /\ Own(f, "execroot", p, i)
                            \/ f \in L /\ k = "lost" /\ q = First /\ i = 0
      OBVIOUS
    <3>0. f # NoFrame BY InvParts
    <3>1. CASE k = "lost" BY <2>3, <3>1 DEF Own
    <3>2. CASE k # "lost" /\ q # p BY <2>3, <2>6, <2>7, <2>9, <3>2 DEF Own
    <3>3. CASE q = p /\ k \in {"heap", "root"} BY <1>0, <2>2, <2>7, <3>3 DEF Own
    <3>4. CASE q = p /\ k \in {"map", "exec", "execroot", "fault"} BY <2>6, <2>9, <3>0, <3>4 DEF Own
    <3>5. CASE q = p /\ k = "tf" BY <2>3, <3>5 DEF Own
    <3> QED BY <3>1, <3>2, <3>3, <3>4, <3>5 DEF Kind
  <2>11. "heap" \in Kind /\ "root" \in Kind /\ "lost" \in Kind /\ First \in VmProc /\ 0 \in Nat
         /\ "map" \in Kind /\ "exec" \in Kind /\ "execroot" \in Kind /\ VA \subseteq Nat
    BY VmAssumption DEF Kind, First, VA
  <2>12. \A f \in Frame : f \in ToSet(w) \/ f \in L =>
           \E k \in {"root", "heap", "map"}, i \in Nat : Own(f, k, p, i)
    <3> TAKE f \in Frame
    <3> HAVE f \in ToSet(w) \/ f \in L
    <3>1. CASE f = root[p]
      <4>1. Own(f, "root", p, 0) BY <3>1 DEF Own
      <4> QED BY <4>1
    <3>2. CASE f \in ToSet(heap[p])
      <4>1. PICK i \in Nat : Own(f, "heap", p, i) BY <3>2, PlacesDiffer
      <4> QED BY <4>1
    <3>3. CASE \E va \in VA : pt[p][va] = f
      <4>1. PICK va \in VA : pt[p][va] = f BY <3>3
      <4>2. va \in Nat /\ Own(f, "map", p, va) BY <2>11, <4>1 DEF Own
      <4> QED BY <4>2
    <3> QED BY <2>5, <3>1, <3>2, <3>3
  <2>13. \A f \in Frame, k \in {"root", "heap", "map"}, i \in Nat :
            Own(f, k, p, i) => f \in ToSet(w) \/ f \in L
    <3> SUFFICES ASSUME NEW f \in Frame, NEW k \in {"root", "heap", "map"}, NEW i \in Nat, Own(f, k, p, i)
                 PROVE  f \in ToSet(w) \/ f \in L
      OBVIOUS
    <3>1. CASE k = "root"
      <4>1. f = root[p] BY <3>1 DEF Own
      <4> QED BY <2>5, <4>1
    <3>2. CASE k = "heap"
      <4>1. f \in ToSet(heap[p]) BY <3>2, PlacesDiffer
      <4> QED BY <2>5, <4>1
    <3>3. CASE k = "map"
      <4>1. \E va \in VA : pt[p][va] = f BY <3>3 DEF Own
      <4> QED BY <2>5, <4>1
    <3> QED BY <3>1, <3>2, <3>3
  <2> HIDE DEF A
  <2>14. \A f \in Frame : f \in ToSet(w) \/ f \in L => 
            /\ ~IsFree(f)
            /\ \A k \in Kind, q \in VmProc, i \in Nat : Own(f, k, q, i) => q = p /\ k \in {"root", "heap", "map"}
    <3> SUFFICES ASSUME NEW f \in Frame, f \in ToSet(w) \/ f \in L
                 PROVE  /\ ~IsFree(f)
                        /\ \A k \in Kind, q \in VmProc, i \in Nat :
                              Own(f, k, q, i) => q = p /\ k \in {"root", "heap", "map"}
      OBVIOUS
    <3>1. PICK l \in {"root", "heap", "map"}, j \in Nat : Own(f, l, p, j) BY <2>12
    <3>2. l \in Kind BY <2>11
    <3> QED BY <3>1, <3>2, InvParts, OwnUnique
  <2>15. ASSUME NEW f \in Frame, f \in ToSet(w) \/ f \in L,
                NEW k \in Kind, NEW q \in VmProc, NEW i \in Nat
         PROVE  Own(f, k, q, i)' <=> f \in L /\ k = "lost" /\ q = First /\ i = 0
    <3>1. Own(f, k, q, i) => A(k, q) BY <2>14, <2>15 DEF A
    <3>2. ~Own(f, "exec", p, i) /\ ~Own(f, "execroot", p, i) BY <2>11, <2>14, <2>15
    <3> QED BY <2>10, <3>1, <3>2
  <2>16. Frees(w)
    <3>1. \A f \in Frame : f \in ToSet(w) => ~IsFree(f) BY <2>14
    <3>2. ASSUME NEW f \in Frame, NEW k \in Kind, NEW q \in VmProc, NEW i \in Nat,
                 IsFree(f) \/ f \in ToSet(w)
          PROVE  ~Own(f, k, q, i)'
      <4>1. CASE f \in ToSet(w)
        <5>1. f \notin L BY <2>5, <4>1
        <5> QED BY <2>15, <4>1, <5>1
      <4>2. CASE IsFree(f)
        <5>1. f \notin L BY <2>14, <4>2
        <5>2. ~Own(f, k, q, i) /\ ~Own(f, "exec", p, i) /\ ~Own(f, "execroot", p, i)
          BY <2>11, <4>2, InvParts DEF FramesInv
        <5> QED BY <2>10, <5>1, <5>2
      <4> QED BY <3>2, <4>1, <4>2
    <3>3. ASSUME NEW f \in Frame, ~IsFree(f), f \notin ToSet(w) PROVE Sole(f)'
      <4>1. CASE f \in L
        <5>1. \A k \in Kind, q \in VmProc, i \in Nat : Own(f, k, q, i)' <=> k = "lost" /\ q = First /\ i = 0
          BY <2>15, <4>1
        <5>2. \E l \in Kind, r1 \in VmProc, j \in Nat :
                \A k \in Kind, q \in VmProc, i \in Nat : Own(f, k, q, i)' <=> k = l /\ q = r1 /\ i = j
          <6> "lost" \in Kind /\ First \in VmProc /\ 0 \in Nat BY <2>11
          <6> WITNESS "lost" \in Kind, First \in VmProc, 0 \in Nat
          <6> QED BY <5>1
        <5> QED BY <5>2 DEF Sole
      <4>2. CASE f \notin L
        <5>1. PICK k0 \in Kind, p0 \in VmProc, i0 \in Nat :
                \A l \in Kind, q \in VmProc, j \in Nat : Own(f, l, q, j) <=> l = k0 /\ q = p0 /\ j = i0
          BY <3>3, InvParts DEF FramesInv, Sole
        <5>2. ~(k0 \in {"root", "heap", "map"} /\ p0 = p) /\ ~(k0 = "fault" /\ p0 = p)
          <6>1. Own(f, k0, p0, i0) BY <5>1
          <6>2. ~(k0 = "fault" /\ p0 = p) BY <1>0, <6>1 DEF Own
          <6>3. ~(k0 \in {"root", "heap", "map"} /\ p0 = p) BY <2>13, <3>3, <4>2, <6>1
          <6> QED BY <6>2, <6>3
        <5> DEFINE k1 == IF p0 = p /\ k0 = "exec" THEN "heap"
                         ELSE IF p0 = p /\ k0 = "execroot" THEN "root" ELSE k0
        <5>3. k1 \in Kind BY <2>11
        <5>4. \A k \in Kind, q \in VmProc, i \in Nat : Own(f, k, q, i)' <=> k = k1 /\ q = p0 /\ i = i0
          <6> TAKE k \in Kind, q \in VmProc, i \in Nat
          <6>1. /\ Own(f, k, q, i) <=> k = k0 /\ q = p0 /\ i = i0
                /\ Own(f, "exec", p, i) <=> "exec" = k0 /\ p = p0 /\ i = i0
                /\ Own(f, "execroot", p, i) <=> "execroot" = k0 /\ p = p0 /\ i = i0
            BY <2>11, <5>1
          <6>2. Own(f, k, q, i)' <=>
                  \/ Own(f, k, q, i) /\ ~A(k, q)
                  \/ q = p /\ k = "heap" /\ Own(f, "exec", p, i)
                  \/ q = p /\ k = "root" /\ Own(f, "execroot", p, i)
            BY <2>10, <4>2
          <6> QED BY <5>2, <6>1, <6>2 DEF A
        <5> HIDE DEF k1
        <5>5. \E l \in Kind, r1 \in VmProc, j \in Nat :
                \A k \in Kind, q \in VmProc, i \in Nat : Own(f, k, q, i)' <=> k = l /\ q = r1 /\ i = j
          BY <5>3, <5>4
        <5> QED BY <5>5 DEF Sole
      <4> QED BY <4>1, <4>2
    <3> QED BY <2>3, <2>5, <3>1, <3>2, <3>3 DEF Frees
  <2>17. FramesInv' /\ freelist' \in Seq(Frame) /\ ref_count' \in [Frame -> Nat]
    BY <2>16, InvParts, FreeStep, VmAssumption
  <2>18. VmTypes'
    <3>1. lost' \subseteq Frame BY <2>3, <2>5, InvParts
    <3> QED BY <2>3, <2>6, <2>7, <2>8, <2>9, <2>17, <3>1, InvParts DEF VmTypes, VmInv
  <2>19. Alone(p)
    <3>1. root'[p] # NoFrame BY <2>4, <2>7, InvParts
    <3> QED BY <1>0, <2>3, <2>4, <2>6, <2>7, <2>8, <2>9, <3>1, InvParts DEF Alone
  <2> QED BY <2>17, <2>18, <2>19, AloneStep DEF VmInv
<1> QED BY <1>1, <1>2

\* freeproc(), called by wait().
LEMMA ReapStep ==
    ASSUME VmInv, NEW p \in VmProc, Reap(p) PROVE VmInv'
<1>0. vmState[p] = "zombie" BY DEF Reap
<1>1. CASE vsz[p] > 0 /\ LeafLeft(p)
  <2>1. Panic("freewalk: leaf") BY <1>1 DEF Reap
  <2> QED BY <2>1, PanicStep
<1>2. CASE ~(vsz[p] > 0 /\ LeafLeft(p))
  <2>1. PICK w, L : w = Freed(p) /\ L = Loses(p) OBVIOUS
  <2> DEFINE s == <<tf[p]>> \o w
             D == {"tf", "root", "heap", "map"} \X {p} \X Nat
  <2>2. /\ kfree(s) /\ lost' = lost \cup L
        /\ tf' = [tf EXCEPT ![p] = NoFrame]
        /\ root' = [root EXCEPT ![p] = NoFrame]
        /\ heap' = [heap EXCEPT ![p] = <<>>]
        /\ vsz' = [vsz EXCEPT ![p] = 0]
        /\ Unmap(p, VA)
        /\ vmState' = [vmState EXCEPT ![p] = "unused"]
        /\ UNCHANGED <<ofile, fileRef, minfo, job, vmPanic, vmCalls>>
    BY <1>2, <2>1 DEF Reap, fileVars, Freed, Loses
  <2>3. /\ job[p] = NoJob /\ NoJob.kind = "none" /\ tf[p] \in Frame /\ root[p] \in Frame
        /\ Len(heap[p]) = vsz[p]
    <3>1. job[p] = NoJob /\ tf[p] # NoFrame /\ root[p] # NoFrame BY <1>0, InvParts DEF SlotInv
    <3>2. NoJob.kind = "none" BY DEF NoJob
    <3>3. Len(heap[p]) = vsz[p] BY <1>0, <3>1, <3>2, InvParts DEF HeapMatchesSize
    <3> QED BY <3>1, <3>2, <3>3, InvParts
  <2>4. /\ w \in Seq(Frame) /\ Inj(w) /\ L \in SUBSET Frame /\ ToSet(w) \cap L = {}
        /\ \A f \in Frame : f \in ToSet(w) \/ f \in L <=>
              f = root[p] \/ f \in ToSet(heap[p]) \/ \E va \in VA : pt[p][va] = f
    BY <1>2, <2>1, <2>3, FreedIs
  <2>5. /\ "heap" \in Kind /\ "root" \in Kind /\ "map" \in Kind /\ "tf" \in Kind /\ 0 \in Nat
        /\ VA \subseteq Nat
    BY DEF Kind, VA
  <2>6. \A va \in VA : pt[p][va] # tf[p]
    <3>1. Own(tf[p], "tf", p, 0) BY <2>3, PlacesDiffer
    <3>2. \A k \in Kind, q \in VmProc, i \in Nat : Own(tf[p], k, q, i) => k = "tf"
      BY <2>3, <2>5, <3>1, InvParts, OwnUnique
    <3> SUFFICES ASSUME NEW va \in VA, pt[p][va] = tf[p] PROVE FALSE OBVIOUS
    <3>3. Own(tf[p], "map", p, va) /\ va \in Nat BY <2>5 DEF Own
    <3> QED BY <2>5, <3>2, <3>3
  <2>7. tf[p] \notin ToSet(w) /\ tf[p] \notin L
    BY <2>3, <2>4, <2>6, PlacesDiffer
  <2>8. s \in Seq(Frame) /\ Inj(s) /\ ToSet(s) = {tf[p]} \cup ToSet(w)
    <3> DEFINE t == <<tf[p]>>
    <3>1. t \in Seq(Frame) /\ Inj(t) /\ ToSet(t) = {tf[p]} BY <2>3, SingleIs
    <3> HIDE DEF t
    <3>2. ToSet(t) \cap ToSet(w) = {} BY <2>7, <3>1
    <3>3. t \o w \in Seq(Frame) /\ Inj(t \o w) /\ ToSet(t \o w) = ToSet(t) \cup ToSet(w)
      BY <2>4, <3>1, <3>2, JoinedIs
    <3> QED BY <3>1, <3>3 DEF t
  <2> HIDE DEF s
  <2>9. /\ heap' \in [VmProc -> Seq(Frame)] /\ heap'[p] = <<>>
        /\ tf' \in [VmProc -> Frame \cup {NoFrame}] /\ tf'[p] = NoFrame
        /\ root' \in [VmProc -> Frame \cup {NoFrame}] /\ root'[p] = NoFrame
        /\ \A q \in VmProc : q # p => heap'[q] = heap[q] /\ tf'[q] = tf[q] /\ root'[q] = root[q]
        /\ Len(<<>>) = 0
    BY <2>2, InvParts, EmptyIs
  <2>10. /\ pt' \in [VmProc -> [VA -> Frame \cup {NoFrame}]]
         /\ \A q \in VmProc : q # p => pt'[q] = pt[q]
         /\ \A va \in VA : pt'[p][va] = NoFrame
    <3>0. pt \in [VmProc -> [VA -> Frame \cup {NoFrame}]] BY InvParts
    <3>1. pt' = [pt EXCEPT ![p] = [va \in VA |-> IF va \in VA THEN NoFrame ELSE pt[p][va]]]
      BY <2>2 DEF Unmap
    <3>2. [va \in VA |-> IF va \in VA THEN NoFrame ELSE pt[p][va]] \in [VA -> Frame \cup {NoFrame}]
      OBVIOUS
    <3> QED BY <3>0, <3>1, <3>2
  <2>11. Drops(s, D, L)
    <3>1. \A f \in Frame : f \in L => f \notin ToSet(s) BY <2>4, <2>7, <2>8
    <3>2. ASSUME NEW f \in Frame, f \in ToSet(s) \/ f \in L
          PROVE  \E k \in Kind, q \in VmProc, i \in Nat : <<k, q, i>> \in D /\ Own(f, k, q, i)
      <4>1. CASE f \in ToSet(heap[p])
        <5>1. PICK i \in Nat : Own(f, "heap", p, i) BY <4>1, PlacesDiffer
        <5> QED BY <2>5, <5>1
      <4>2. CASE f = tf[p]
        <5>1. Own(f, "tf", p, 0) BY <4>2, PlacesDiffer
        <5> QED BY <2>5, <5>1
      <4>3. CASE f = root[p]
        <5>1. Own(f, "root", p, 0) BY <4>3, PlacesDiffer
        <5> QED BY <2>5, <5>1
      <4>4. CASE \E va \in VA : pt[p][va] = f
        <5>1. PICK va \in VA : pt[p][va] = f BY <4>4
        <5>2. va \in Nat /\ Own(f, "map", p, va) BY <2>5, <5>1 DEF Own
        <5> QED BY <2>5, <5>2
      <4> QED BY <2>4, <2>8, <3>2, <4>1, <4>2, <4>3, <4>4
    <3>3. ASSUME NEW f \in Frame, NEW k \in Kind, NEW q \in VmProc, NEW i \in Nat,
                 <<k, q, i>> \in D, Own(f, k, q, i)
          PROVE  f \in ToSet(s) \/ f \in L
      <4>1. CASE k = "heap"
        <5>1. f \in ToSet(heap[p]) BY <3>3, <4>1, PlacesDiffer
        <5> QED BY <2>4, <2>8, <5>1
      <4>2. CASE k = "tf"
        <5>1. f = tf[p] BY <3>3, <4>2 DEF Own
        <5> QED BY <2>8, <5>1
      <4>3. CASE k = "root"
        <5>1. f = root[p] BY <3>3, <4>3 DEF Own
        <5> QED BY <2>4, <2>8, <5>1
      <4>4. CASE k = "map"
        <5>1. \E va \in VA : pt[p][va] = f BY <3>3, <4>4 DEF Own
        <5> QED BY <2>4, <2>8, <5>1
      <4> QED BY <3>3, <4>1, <4>2, <4>3, <4>4
    <3>4. ASSUME NEW f \in Frame, NEW k \in Kind, NEW q \in VmProc, NEW i \in Nat
          PROVE  Own(f, k, q, i)' <=>
                   \/ Own(f, k, q, i) /\ <<k, q, i>> \notin D
                   \/ f \in L /\ k = "lost" /\ q = First /\ i = 0
      <4>0. f # NoFrame BY InvParts
      <4>1. CASE k \in {"tf", "root", "heap", "map"} /\ q = p
        <5>1. ~Own(f, k, q, i)' BY <2>9, <2>10, <4>0, <4>1 DEF Own
        <5> QED BY <4>1, <5>1
      <4>2. CASE k \in {"tf", "root", "heap", "map"} /\ q # p
        <5>1. Own(f, k, q, i)' <=> Own(f, k, q, i) BY <2>9, <2>10, <4>2 DEF Own
        <5> QED BY <4>2, <5>1
      <4>3. CASE k = "lost" BY <2>2, <4>3 DEF Own
      <4>4. CASE k \in {"fault", "exec", "execroot"} BY <2>2, <4>4 DEF Own
      <4> QED BY <4>1, <4>2, <4>3, <4>4 DEF Kind
    <3>5. kfree(s) BY <2>2
    <3> HIDE DEF D
    <3> QED BY <2>4, <2>8, <3>1, <3>2, <3>3, <3>4, <3>5 DEF Drops
  <2>12. FramesInv' /\ freelist' \in Seq(Frame) /\ ref_count' \in [Frame -> Nat]
    <3> HIDE DEF D
    <3> QED BY <2>11, InvParts, DropStep, VmAssumption
  <2>13. /\ vmState' \in [VmProc -> {"unused", "live", "zombie"}] /\ vmState'[p] = "unused"
         /\ \A q \in VmProc : q # p => vmState'[q] = vmState[q]
    BY <2>2, InvParts
  <2>14. /\ vsz' \in [VmProc -> 0..NFrames] /\ vsz'[p] = 0
         /\ \A q \in VmProc : q # p => vsz'[q] = vsz[q]
    <3>1. 0 \in 0..NFrames BY VmAssumption
    <3> QED BY <2>2, <3>1, InvParts
  <2>15. VmTypes'
    <3>1. lost' \subseteq Frame BY <2>2, <2>4, InvParts
    <3> QED BY <2>2, <2>9, <2>10, <2>12, <2>13, <2>14, <3>1, InvParts DEF VmTypes, VmInv
  <2>16. ~LeafLeft(p)' BY <2>10 DEF LeafLeft
  <2>17. \A q, c \in VmProc : Forks(q, c) => c # p /\ q # p
    BY <1>0, <2>3, InvParts DEF SlotInv, Forks
  <2>18. \A q, c \in VmProc : Forks(q, c)' <=> Forks(q, c) BY <2>2 DEF Forks
  <2>19. SlotInv'
    <3>1. \A q \in VmProc : vmState'[q] # "live" => job'[q] = NoJob
      BY <2>2, <2>3, <2>13, InvParts DEF SlotInv
    <3>2. \A q \in VmProc : vmState'[q] # "unused" => tf'[q] # NoFrame /\ root'[q] # NoFrame
      BY <2>9, <2>13, InvParts DEF SlotInv
    <3>3. \A q \in VmProc : vmState'[q] = "unused" => vsz'[q] = 0 /\ ~LeafLeft(q)'
      <4> TAKE q \in VmProc
      <4>1. CASE q = p BY <2>14, <2>16, <4>1
      <4>2. CASE q # p
        <5>1. vmState[q] = "unused" => vsz[q] = 0 /\ ~LeafLeft(q) BY InvParts DEF SlotInv
        <5>2. LeafLeft(q)' <=> LeafLeft(q) BY <2>10, <4>2 DEF LeafLeft
        <5> QED BY <2>13, <2>14, <4>2, <5>1, <5>2
      <4> QED BY <4>1, <4>2
    <3>4. \A q, c \in VmProc : Forks(q, c)' =>
            /\ vmState'[c] = "unused" /\ tf'[c] # NoFrame
            /\ root'[c] = NoFrame => heap'[c] = <<>>
            /\ Len(heap'[c]) <= vsz'[q]
      BY <2>9, <2>13, <2>14, <2>17, <2>18, InvParts DEF SlotInv
    <3>5. \A q, r, c \in VmProc : Forks(q, c)' /\ Forks(r, c)' => q = r
      BY <2>18, InvParts DEF SlotInv
    <3> QED BY <3>1, <3>2, <3>3, <3>4, <3>5 DEF SlotInv
  <2>20. LoopInv'
    <3>1. job'[p].kind = "none" BY <2>2, <2>3
    <3> QED BY <2>2, <2>9, <2>14, <3>1, InvParts DEF LoopInv
  <2>21. HeapMatchesSize' BY <2>2, <2>9, <2>13, <2>14, InvParts DEF HeapMatchesSize
  <2>22. FreeSlotEmpty'
    <3> SUFFICES ASSUME NEW c \in VmProc, vmState'[c] = "unused",
                        ~ \E q \in VmProc : job'[q] = [kind |-> "fork", child |-> c]
                 PROVE  tf'[c] = NoFrame /\ root'[c] = NoFrame /\ heap'[c] = <<>> /\ ~LeafLeft(c)'
      BY DEF FreeSlotEmpty
    <3>1. CASE c = p BY <2>9, <2>16, <3>1
    <3>2. CASE c # p
      <4>1. vmState[c] = "unused" /\ ~ \E q \in VmProc : job[q] = [kind |-> "fork", child |-> c]
        BY <2>2, <2>13, <3>2
      <4>2. tf[c] = NoFrame /\ root[c] = NoFrame /\ heap[c] = <<>> /\ ~LeafLeft(c)
        BY <4>1, InvParts DEF FreeSlotEmpty
      <4> QED BY <2>9, <2>10, <3>2, <4>2 DEF LeafLeft
    <3> QED BY <3>1, <3>2
  <2> QED BY <2>12, <2>15, <2>19, <2>20, <2>21, <2>22 DEF VmInv
<1> QED BY <1>1, <1>2

\* Initially a process has a trap frame, a page table and a page.
LEMMA VmInitInv == VmInit => VmInv
<1> SUFFICES ASSUME VmInit PROVE VmInv OBVIOUS
<1>0. NFrames \in Nat /\ NFrames >= 3 /\ First \in VmProc BY VmAssumption DEF First
<1>1. /\ freelist = [i \in 1..NFrames - 3 |-> NFrames - 2 - i]
      /\ ref_count = [f \in Frame |-> IF f > NFrames - 3 THEN 1 ELSE 0]
      /\ vmState = [p \in VmProc |-> IF p = First THEN "live" ELSE "unused"]
      /\ tf = [p \in VmProc |-> IF p = First THEN NFrames ELSE NoFrame]
      /\ root = [p \in VmProc |-> IF p = First THEN NFrames - 1 ELSE NoFrame]
      /\ heap = [p \in VmProc |-> IF p = First THEN <<NFrames - 2>> ELSE <<>>]
      /\ vsz = [p \in VmProc |-> IF p = First THEN 1 ELSE 0]
      /\ pt = [p \in VmProc |-> [va \in VA |-> NoFrame]]
      /\ job = [p \in VmProc |-> NoJob] /\ lost = {}
      /\ ofile = [p \in VmProc |-> IF p = First THEN VmFile ELSE {}]
      /\ fileRef = [f \in VmFile |-> 1]
  BY DEF VmInit
<1>2. /\ freelist \in Seq(Frame) /\ DOMAIN freelist = 1..NFrames - 3
      /\ \A i \in 1..NFrames - 3 : freelist[i] = NFrames - 2 - i
  <2>1. \A i \in 1..NFrames - 3 : NFrames - 2 - i \in Frame BY <1>0 DEF Frame
  <2>2. PICK n \in Nat : n = NFrames - 3 BY <1>0
  <2>3. freelist = [i \in 1..n |-> NFrames - 2 - i] BY <1>1, <2>2
  <2>4. \A i \in 1..n : NFrames - 2 - i \in Frame BY <2>1, <2>2
  <2>5. freelist \in [1..n -> Frame] BY <2>3, <2>4
  <2>6. freelist \in Seq(Frame) BY <2>2, <2>5, IsASeq
  <2>7. DOMAIN freelist = 1..n BY <2>3
  <2>8. \A i \in 1..n : freelist[i] = NFrames - 2 - i BY <2>3
  <2> QED BY <2>2, <2>6, <2>7, <2>8
<1>3. Inj(freelist) BY <1>0, <1>2 DEF Inj
<1>4. \A f \in Frame : IsFree(f) <=> f <= NFrames - 3
  <2> TAKE f \in Frame
  <2>1. ASSUME IsFree(f) PROVE f <= NFrames - 3
    <3>1. PICK i \in 1..NFrames - 3 : freelist[i] = f BY <1>2, <2>1 DEF IsFree, ToSet
    <3> QED BY <1>0, <1>2, <3>1
  <2>2. ASSUME f <= NFrames - 3 PROVE IsFree(f)
    <3>1. NFrames - 2 - f \in 1..NFrames - 3 /\ NFrames - 2 - (NFrames - 2 - f) = f
      BY <1>0, <2>2 DEF Frame
    <3>2. freelist[NFrames - 2 - f] = f BY <1>2, <3>1
    <3> QED BY <1>2, <3>1, <3>2 DEF IsFree, ToSet
  <2> QED BY <2>1, <2>2
<1>5. \A f \in Frame, k \in Kind, p \in VmProc, i \in Nat :
        Own(f, k, p, i) <=>
          /\ p = First
          /\ \/ k = "tf" /\ i = 0 /\ f = NFrames
             \/ k = "root" /\ i = 0 /\ f = NFrames - 1
             \/ k = "heap" /\ i = 1 /\ f = NFrames - 2
  <2> TAKE f \in Frame, k \in Kind, p \in VmProc, i \in Nat
  <2>0. f # NoFrame /\ NoJob.kind = "none" BY <1>0 DEF Frame, NoFrame, NoJob
  <2>1. CASE k = "heap"
    <3>1. CASE p = First
      <4>1. heap[p] = <<NFrames - 2>> BY <1>1, <3>1
      <4>2. Len(heap[p]) = 1 /\ heap[p][1] = NFrames - 2 BY <4>1
      <4> QED BY <2>1, <3>1, <4>2 DEF Own
    <3>2. CASE p # First
      <4>1. heap[p] = <<>> BY <1>1, <3>2
      <4>2. Len(heap[p]) = 0 BY <4>1
      <4> QED BY <2>1, <3>2, <4>2 DEF Own
    <3> QED BY <3>1, <3>2
  <2>2. CASE k \in {"tf", "root"} BY <1>1, <2>0, <2>2 DEF Own
  <2>3. CASE k \notin {"tf", "root", "heap"} BY <1>1, <2>0, <2>3 DEF Own
  <2> QED BY <2>1, <2>2, <2>3
<1>6. FramesInv
  <2>1. ASSUME NEW f \in Frame, IsFree(f)
        PROVE  ref_count[f] = 0 /\ \A k \in Kind, p \in VmProc, i \in Nat : ~Own(f, k, p, i)
    <3>1. f <= NFrames - 3 BY <1>4, <2>1
    <3>2. ref_count[f] = 0 BY <1>0, <1>1, <3>1 DEF Frame
    <3>3. f # NFrames /\ f # NFrames - 1 /\ f # NFrames - 2 BY <1>0, <3>1 DEF Frame
    <3> QED BY <1>5, <3>2, <3>3
  <2>2. ASSUME NEW f \in Frame, ~IsFree(f) PROVE ref_count[f] = 1 /\ Sole(f)
    <3>1. f > NFrames - 3 BY <1>0, <1>4, <2>2 DEF Frame
    <3>2. ref_count[f] = 1 BY <1>1, <3>1
    <3>3. f = NFrames \/ f = NFrames - 1 \/ f = NFrames - 2 BY <1>0, <3>1 DEF Frame
    <3>4. NFrames # NFrames - 1 /\ NFrames # NFrames - 2 /\ NFrames - 1 # NFrames - 2 BY <1>0
    <3> DEFINE k1 == IF f = NFrames THEN "tf" ELSE IF f = NFrames - 1 THEN "root" ELSE "heap"
               i1 == IF f = NFrames - 2 THEN 1 ELSE 0
    <3>5. k1 \in Kind /\ i1 \in Nat BY DEF Kind
    <3>6. \A k \in Kind, p \in VmProc, i \in Nat : Own(f, k, p, i) <=> k = k1 /\ p = First /\ i = i1
      BY <1>5, <3>3, <3>4
    <3> HIDE DEF k1, i1
    <3>7. \E l \in Kind, q \in VmProc, j \in Nat :
             \A k \in Kind, p \in VmProc, i \in Nat : Own(f, k, p, i) <=> k = l /\ p = q /\ i = j
      BY <1>0, <3>5, <3>6
    <3> QED BY <3>2, <3>7 DEF Sole
  <2> QED BY <1>3, <2>1, <2>2 DEF FramesInv
<1>7. VmTypes
  <2>1. /\ NFrames \in Frame /\ NFrames - 1 \in Frame /\ NFrames - 2 \in Frame
        /\ 1 \in 0..NFrames /\ 0 \in 0..NFrames
    BY <1>0 DEF Frame
  <2>2. \A p \in VmProc : (IF p = First THEN <<NFrames - 2>> ELSE <<>>) \in Seq(Frame) BY <2>1
  <2>3. heap \in [VmProc -> Seq(Frame)] BY <1>1, <2>2
  <2>4. ref_count \in [Frame -> Nat] BY <1>1
  <2>5. /\ tf \in [VmProc -> Frame \cup {NoFrame}] /\ root \in [VmProc -> Frame \cup {NoFrame}]
        /\ vsz \in [VmProc -> 0..NFrames] /\ pt \in [VmProc -> [VA -> Frame \cup {NoFrame}]]
        /\ vmState \in [VmProc -> {"unused", "live", "zombie"}]
        /\ ofile \in [VmProc -> SUBSET VmFile] /\ fileRef \in [VmFile -> Nat] /\ lost \subseteq Frame
    BY <1>1, <2>1
  <2>6. job \in [VmProc -> Jobs] BY <1>1, JobValues
  <2> QED BY <1>2, <2>3, <2>4, <2>5, <2>6 DEF VmTypes
<1>8. \A p \in VmProc : job[p] = NoJob /\ job[p].kind = "none" /\ ~LeafLeft(p)
  BY <1>1 DEF NoJob, LeafLeft
<1>9. SlotInv
  <2>1. NFrames # NoFrame /\ NFrames - 1 # NoFrame BY <1>0 DEF NoFrame
  <2>2. \A p, c \in VmProc : ~Forks(p, c) BY <1>8 DEF Forks
  <2> QED BY <1>1, <1>8, <2>1, <2>2 DEF SlotInv
<1>10. LoopInv BY <1>8 DEF LoopInv
<1>11. HeapMatchesSize
  <2>1. Len(<<NFrames - 2>>) = 1 OBVIOUS
  <2> QED BY <1>1, <2>1 DEF HeapMatchesSize
<1>12. FreeSlotEmpty BY <1>1, <1>8 DEF FreeSlotEmpty
<1> QED BY <1>6, <1>7, <1>9, <1>10, <1>11, <1>12 DEF VmInv

\* Every step preserves the invariant, action by action.
LEMMA VmNextInv == VmInv /\ [VmNext]_vmVars => VmInv'
<1> SUFFICES ASSUME VmInv, [VmNext]_vmVars PROVE VmInv' OBVIOUS
<1>1. CASE UNCHANGED vmVars
  <2>1. ofile' \in [VmProc -> SUBSET VmFile] /\ fileRef' \in [VmFile -> Nat]
    BY <1>1 DEF vmVars, fileVars, VmInv, VmTypes
  <2>2. UNCHANGED <<memVars, vmState, tf, root, heap, vsz, pt, job, lost>>
    BY <1>1 DEF vmVars, vmProcVars
  <2> QED BY <2>1, <2>2, StillStep
<1>2. CASE VmNext
  <2>1. PICK p \in VmProc : VmStep(p) BY <1>2 DEF VmNext
  <2>2. CASE \E n \in 1..2 : Grow(p, n) BY <2>2, GrowStep
  <2>3. CASE GrowPage(p) BY <2>3, GrowPageStep
  <2>4. CASE GrowFails(p) BY <2>4, GrowFailsStep
  <2>5. CASE GrowDone(p) BY <2>5, GrowDoneStep
  <2>6. CASE Shrink(p) BY <2>6, ShrinkStep
  <2>7. CASE \E np \in VmProc : Fork(p, np) BY <2>7, ForkStep
  <2>8. CASE ForkPagetable(p) BY <2>8, ForkPagetableStep
  <2>9. CASE ForkCopy(p) BY <2>9, ForkCopyStep
  <2>10. CASE ForkFails(p) BY <2>10, ForkFailsStep
  <2>11. CASE ForkDone(p) BY <2>11, ForkDoneStep
  <2>12. CASE Exec(p) BY <2>12, ExecStep
  <2>13. CASE ExecPage(p) BY <2>13, ExecPageStep
  <2>14. CASE ExecOutOfMemory(p) BY <2>14, ExecOutOfMemoryStep
  <2>15. CASE ExecBad(p) BY <2>15, ExecBadStep
  <2>16. CASE ExecDone(p) BY <2>16, ExecDoneStep
  <2>17. CASE \E f \in VmFile : Close(p, f) BY <2>17, CloseStep
  <2>18. CASE \E f \in VmFile, len \in 1..MMAP_PAGES, write \in BOOLEAN : Mmap(p, f, len, write)
    BY <2>18, MmapStep
  <2>19. CASE \E addr \in VA, len \in 1..MMAP_PAGES : Munmap(p, addr, len) BY <2>19, MunmapStep
  <2>20. CASE Exit(p) \/ ExitKilled(p) BY <2>20, ExitStep
  <2>21. CASE Reap(p) BY <2>21, ReapStep
  <2>22. CASE \E va \in VA : Fault(p, va) BY <2>22, FaultStep
  <2>23. CASE FaultMap(p) BY <2>23, FaultMapStep
  <2>24. CASE FaultMapFails(p) BY <2>24, FaultMapFailsStep
  <2> QED BY <2>1, <2>2, <2>3, <2>4, <2>5, <2>6, <2>7, <2>8, <2>9, <2>10, <2>11, <2>12, <2>13, <2>14,
             <2>15, <2>16, <2>17, <2>18, <2>19, <2>20, <2>21, <2>22, <2>23, <2>24
          DEF VmStep
<1> QED BY <1>1, <1>2

\* VmInv is an invariant of Vm, for any number of processes, pages and mappings.
THEOREM VmInvariant == VmSpec => []VmInv
BY VmInitInv, VmNextInv, PTL DEF VmSpec

\* The member of Places() for place i of kind k of process p.
PlaceOf(k, p, i) ==
    IF k = "lost" THEN <<"lost">>
    ELSE IF k \in {"heap", "map", "exec"} THEN <<k, p, i>> ELSE <<k, p>>

\* Places() lists the entries of the free list and the places of Own().
LEMMA PlacesAre ==
    ASSUME VmTypes, NEW f \in Frame, NEW x
    PROVE  x \in Places(f) <=>
              \/ \E i \in DOMAIN freelist : freelist[i] = f /\ x = <<"free", i>>
              \/ \E k \in Kind, p \in VmProc, i \in Nat : Own(f, k, p, i) /\ x = PlaceOf(k, p, i)
<1> DEFINE W(k) == \E p \in VmProc, i \in Nat : Own(f, k, p, i) /\ x = PlaceOf(k, p, i)
           P0 == {<<"free", i>> : i \in {i \in DOMAIN freelist : freelist[i] = f}}
           P1 == {<<"tf", p>> : p \in {p \in VmProc : tf[p] = f}}
           P2 == {<<"root", p>> : p \in {p \in VmProc : root[p] = f}}
           P3 == UNION {{<<"heap", p, i>> : i \in {i \in DOMAIN heap[p] : heap[p][i] = f}} : p \in VmProc}
           P4 == UNION {{<<"map", p, va>> : va \in {va \in VA : pt[p][va] = f}} : p \in VmProc}
           P5 == {<<"fault", p>> : p \in {p \in VmProc : job[p].kind = "fault" /\ job[p].frame = f}}
           Q6(p) == IF job[p].kind # "exec" THEN {}
                    ELSE {<<"exec", p, i>> : i \in {i \in DOMAIN job[p].pages : job[p].pages[i] = f}}
                         \cup (IF job[p].root = f THEN {<<"execroot", p>>} ELSE {})
           P6 == UNION {Q6(p) : p \in VmProc}
           P7 == IF f \in lost THEN {<<"lost">>} ELSE {}
<1>0. /\ \A p \in VmProc : heap[p] \in Seq(Frame) /\ DOMAIN heap[p] = 1..Len(heap[p])
      /\ \A i \in VA : i \in Nat
  BY VmAssumption DEF VmTypes, VA
<1>j. \A p \in VmProc : job[p].kind = "exec" =>
        /\ job[p].root \in Frame /\ job[p].pages \in Seq(Frame)
        /\ DOMAIN job[p].pages = 1..Len(job[p].pages)
  <2> TAKE p \in VmProc
  <2>1. job[p] \in Jobs BY DEF VmTypes
  <2> QED BY <2>1, JobIs
<1>f. First \in VmProc BY VmAssumption DEF First
<1>1. x \in P1 <=> W("tf") BY DEF Own, PlaceOf
<1>2. x \in P2 <=> W("root") BY DEF Own, PlaceOf
<1>3. x \in P3 <=> W("heap")
  <2>1. x \in P3 <=> \E p \in VmProc : \E i \in 1..Len(heap[p]) : heap[p][i] = f /\ x = <<"heap", p, i>>
    BY <1>0
  <2>2. W("heap") <=> \E p \in VmProc, i \in Nat :
                         i \in 1..Len(heap[p]) /\ heap[p][i] = f /\ x = <<"heap", p, i>>
    BY DEF Own, PlaceOf
  <2>3. \A p \in VmProc : \A i \in 1..Len(heap[p]) : i \in Nat BY <1>0
  <2> QED BY <2>1, <2>2, <2>3
<1>4. x \in P4 <=> W("map")
  <2>1. x \in P4 <=> \E p \in VmProc : \E i \in VA : pt[p][i] = f /\ x = <<"map", p, i>> OBVIOUS
  <2>2. W("map") <=> \E p \in VmProc, i \in Nat : i \in VA /\ pt[p][i] = f /\ x = <<"map", p, i>>
    BY DEF Own, PlaceOf
  <2> QED BY <1>0, <2>1, <2>2
<1>5. x \in P5 <=> W("fault") BY DEF Own, PlaceOf
<1>6. x \in P6 <=> W("exec") \/ W("execroot")
  <2>1. \A p \in VmProc : x \in Q6(p) <=>
          /\ job[p].kind = "exec"
          /\ \/ \E i \in 1..Len(job[p].pages) : job[p].pages[i] = f /\ x = <<"exec", p, i>>
             \/ job[p].root = f /\ x = <<"execroot", p>>
    BY <1>j
  <2>2. W("exec") <=> \E p \in VmProc, i \in Nat :
          /\ job[p].kind = "exec" /\ i \in 1..Len(job[p].pages) /\ job[p].pages[i] = f
          /\ x = <<"exec", p, i>>
    BY DEF Own, PlaceOf
  <2>3. W("execroot") <=> \E p \in VmProc :
          job[p].kind = "exec" /\ job[p].root = f /\ x = <<"execroot", p>>
    BY DEF Own, PlaceOf
  <2>4. \A p \in VmProc : job[p].kind = "exec" => \A i \in 1..Len(job[p].pages) : i \in Nat BY <1>j
  <2> HIDE DEF Q6, W
  <2>5. x \in P6 <=> \E p \in VmProc : x \in Q6(p) OBVIOUS
  <2> QED BY <2>1, <2>2, <2>3, <2>4, <2>5
<1>7. x \in P7 <=> W("lost") BY <1>f DEF Own, PlaceOf
<1>8. x \in P0 <=> \E i \in DOMAIN freelist : freelist[i] = f /\ x = <<"free", i>> OBVIOUS
<1>9. Places(f) = P0 \cup P1 \cup P2 \cup P3 \cup P4 \cup P5 \cup P6 \cup P7 BY DEF Places
<1> HIDE DEF P0, P1, P2, P3, P4, P5, P6, P7
<1>10. (\E k \in Kind : W(k)) <=>
        W("tf") \/ W("root") \/ W("heap") \/ W("map") \/ W("fault") \/ W("exec") \/ W("execroot") \/ W("lost")
  <2> HIDE DEF W
  <2> QED BY DEF Kind
<1> QED BY <1>1, <1>2, <1>3, <1>4, <1>5, <1>6, <1>7, <1>8, <1>9, <1>10

\* A frame is in one place, and its count says whether that is the free list.
LEMMA FramesAccountedIs == VmTypes /\ FramesInv => FramesAccounted
<1> SUFFICES ASSUME VmTypes, FramesInv, NEW f \in Frame
             PROVE  Cardinality(Places(f)) = 1 /\ ref_count[f] = IF f \in ToSet(freelist) THEN 0 ELSE 1
  BY DEF FramesAccounted
<1>1. CASE IsFree(f)
  <2>1. PICK i \in DOMAIN freelist : freelist[i] = f BY <1>1 DEF IsFree, ToSet
  <2>2. \A j \in DOMAIN freelist : freelist[j] = f => j = i BY <2>1 DEF FramesInv, Inj
  <2>3. \A k \in Kind, p \in VmProc, j \in Nat : ~Own(f, k, p, j) BY <1>1 DEF FramesInv
  <2>4. \A x : x \in Places(f) <=> x = <<"free", i>> BY <2>1, <2>2, <2>3, PlacesAre
  <2>5. Places(f) = {<<"free", i>>} BY <2>4
  <2> QED BY <1>1, <2>5, FS_Singleton DEF FramesInv, IsFree
<1>2. CASE ~IsFree(f)
  <2>1. PICK k0 \in Kind, p0 \in VmProc, i0 \in Nat :
          \A k \in Kind, p \in VmProc, i \in Nat : Own(f, k, p, i) <=> k = k0 /\ p = p0 /\ i = i0
    BY <1>2 DEF FramesInv, Sole
  <2>2. \A i \in DOMAIN freelist : freelist[i] # f BY <1>2 DEF IsFree, ToSet
  <2>3. \A x : x \in Places(f) <=> x = PlaceOf(k0, p0, i0) BY <2>1, <2>2, PlacesAre
  <2>4. Places(f) = {PlaceOf(k0, p0, i0)} BY <2>3
  <2> QED BY <1>2, <2>4, FS_Singleton DEF FramesInv, IsFree
<1> QED BY <1>1, <1>2

\* Every page is in one place, and the reference counts, sizes and free slots agree
\* with it (kalloc(), kfree(), kderef(), uvmalloc(), uvmcopy(), exec(), freeproc()).
THEOREM VmMemoryAccounted == VmSpec => []MemoryAccounted
<1>1. VmInv => MemoryAccounted BY FramesAccountedIs DEF VmInv, MemoryAccounted
<1> QED BY <1>1, VmInvariant, PTL

\* Every variable of Vm has the values the code allows.
THEOREM VmTypeCorrect == VmSpec => []VmTypeOK
<1>1. VmInv => VmTypeOK
  <2> SUFFICES ASSUME VmInv PROVE VmTypeOK OBVIOUS
  <2>1. \A s \in Seq(Frame) : IsPages(s) BY DEF IsPages, ToSet
  <2> QED BY <2>1 DEF VmInv, VmTypes, VmTypeOK
<1> QED BY <1>1, VmInvariant, PTL

-----------------------------------------------------------------------------
(* The inductive invariant of Net: where each mbuf is.                      *)
\* The values of frames, sockets and the handler.
NetFrame == [seq : Nat, to : Conn \cup {"arp", "bad", "none"}]
Packet == [m : NPages, f : NetFrame]
SockValue == [conn : Conn \cup {"none"}, next : NPages \cup {0, Junk}, rxq : Seq(Packet)]
Handler == [st : {"off", "recv", "ack", "rx", "find", "push", "wake"},
            m : NPages \cup {0}, f : NetFrame, so : NPages \cup {0}]

\* The values of the variables.
NetTypes ==
    /\ npage \in [NPages -> {"free", "sock", "mbuf", "leaked"}]
    /\ sock \in [NPages -> SockValue] /\ sockets \in NPages \cup {0}
    /\ nfd \in [NetProc -> NPages \cup {0}]
    /\ npc \in [NetProc -> {"idle", "alloc", "close", "free", "read", "sleep"}]
    /\ rxMbuf \in [RxSlot -> NPages] /\ rxFrame \in [RxSlot -> NetFrame]
    /\ rdh \in RxSlot /\ rdt \in RxSlot /\ intr \in Handler
    /\ txMbuf \in [TxSlot -> NPages \cup {0}] /\ txDone \in [TxSlot -> BOOLEAN]
    /\ tdh \in TxSlot /\ tdt \in TxSlot
    /\ nframe \in Nat

\* Page q is an mbuf in place i of kind k, of socket s if that is a queue.
Holds(q, k, s, i) ==
    \/ k = "rx" /\ s = 0 /\ i \in RxSlot /\ rxMbuf[i] = q
    \/ k = "tx" /\ s = 0 /\ i \in TxSlot /\ txMbuf[i] = q
    \/ k = "hand" /\ s = 0 /\ i = 0 /\ intr.m = q
    \/ k = "queue" /\ s \in NPages /\ i \in 1..Len(sock[s].rxq) /\ sock[s].rxq[i].m = q

Holding == {"rx", "tx", "hand", "queue"}

HeldAt(q, k, s, i) ==
    \A l \in Holding, t, j \in Nat : Holds(q, l, t, j) <=> l = k /\ t = s /\ j = i

\* An mbuf in use is in one place, any other page in none.
MbufAt(q) ==
    /\ npage[q] = "mbuf" => \E k \in Holding, s, i \in Nat : HeldAt(q, k, s, i)
    /\ npage[q] # "mbuf" => \A k \in Holding, s, i \in Nat : ~Holds(q, k, s, i)

MbufInv == \A q \in NPages : MbufAt(q)

\* An open socket is a page of its own; the process that opens or closes it is the
\* only one that has it.
SockInv ==
    /\ \A p \in NetProc : nfd[p] # 0 => npage[nfd[p]] = "sock"
    /\ \A p \in NetProc : npc[p] # "idle" => nfd[p] # 0
    /\ \A p, q \in NetProc : p # q /\ npc[p] \in {"alloc", "close", "free"} => nfd[q] # nfd[p]
    /\ \A s \in NPages : npage[s] # "sock" => sock[s].rxq = <<>>

\* What the handler has in each of its steps.
HandInv ==
    /\ intr.m # 0 <=> intr.st \in {"rx", "find", "push"}
    /\ intr.st = "push" => intr.so # 0

\* The inductive invariant of Net.
NetInv == NetTypes /\ MbufInv /\ SockInv /\ HandInv /\ NoSleepOnPacket

\* What a step leaves alone of page q.
Same(q) ==
    /\ npage'[q] = "mbuf" <=> npage[q] = "mbuf"
    /\ \A k \in Holding, s, i \in Nat : Holds(q, k, s, i)' <=> Holds(q, k, s, i)

\* A step that moves no page and no mbuf.
LEMMA SameStep ==
    ASSUME NEW q \in NPages, MbufAt(q), Same(q) PROVE MbufAt(q)'
<1>1. CASE npage[q] = "mbuf"
  <2>1. PICK k \in Holding, s \in Nat, i \in Nat : HeldAt(q, k, s, i) BY <1>1 DEF MbufAt
  <2>2. HeldAt(q, k, s, i)'
    <3> SUFFICES ASSUME NEW l \in Holding, NEW t \in Nat, NEW j \in Nat
                 PROVE  Holds(q, l, t, j)' <=> l = k /\ t = s /\ j = i
      BY DEF HeldAt
    <3> QED BY <2>1 DEF HeldAt, Same
  <2>3. npage'[q] = "mbuf" BY <1>1 DEF Same
  <2> QED BY <2>2, <2>3 DEF MbufAt
<1>2. CASE npage[q] # "mbuf"
  <2>1. npage'[q] # "mbuf" BY <1>2 DEF Same
  <2>2. \A k \in Holding, s, i \in Nat : ~Holds(q, k, s, i)' BY <1>2 DEF Same, MbufAt
  <2> QED BY <2>1, <2>2 DEF MbufAt
<1> QED BY <1>1, <1>2

\* The place of an mbuf is its only one.
LEMMA HeldOnce ==
    ASSUME NEW q \in NPages, MbufAt(q), NEW k \in Holding, NEW s \in Nat, NEW i \in Nat, Holds(q, k, s, i)
    PROVE  npage[q] = "mbuf" /\ HeldAt(q, k, s, i)
<1>1. npage[q] = "mbuf" BY DEF MbufAt
<1>2. PICK l \in Holding, t \in Nat, j \in Nat : HeldAt(q, l, t, j) BY <1>1 DEF MbufAt
<1>3. k = l /\ s = t /\ i = j BY <1>2 DEF HeldAt
<1> QED BY <1>1, <1>2, <1>3

\* kalloc() returns a free page.
LEMMA KallocIs ==
    ASSUME NEW pg, FreePages(pg) # {} PROVE Kalloc(pg) \in NPages /\ pg[Kalloc(pg)] = "free"
<1>1. FreePages(pg) \in SUBSET Nat /\ \A q \in FreePages(pg) : q \in NPages /\ pg[q] = "free"
  BY DEF FreePages, NPages
<1>2. Kalloc(pg) \in FreePages(pg)
  <2>1. \E x \in FreePages(pg) : \A y \in FreePages(pg) : x <= y BY <1>1, LeastExists
  <2> QED BY <2>1 DEF Kalloc, Min
<1> QED BY <1>1, <1>2

\* A walk that comes to a socket comes to one that is allocated.
LEMMA LookupIs ==
    ASSUME NetAssumption, NEW s, NEW c, Lookup(s, c) > 0
    PROVE  Lookup(s, c) \in NPages /\ npage[Lookup(s, c)] = "sock"
<1> DEFINE l == ListFrom(s)
           real == {k \in DOMAIN l : l[k] \in NPages /\ npage[l[k]] = "sock"}
           hit == {k \in real : sock[l[k]].conn = c}
           bad == DOMAIN l \ real
<1>1. hit # {} /\ Lookup(s, c) = l[Min(hit)]
  <2>1. Lookup(s, c) = IF hit # {} /\ (bad = {} \/ Min(hit) < Min(bad)) THEN l[Min(hit)]
                       ELSE IF bad # {} THEN Junk ELSE 0
    BY Zenon DEF Lookup
  <2>2. ~ (Junk > 0) /\ ~ (0 > 0) BY DEF Junk
  <2> HIDE DEF hit, bad, l
  <2> QED BY <2>1, <2>2
<1>2. DOMAIN l \in SUBSET Nat
  <2> DEFINE next(q) == IF q \in NPages /\ npage[q] = "sock" THEN sock[q].next ELSE 0
             walk[k \in 1..NPage] == IF k = 1 THEN s ELSE next(walk[k - 1])
             K == {k \in 1..NPage : walk[k] # 0}
             seen == Ordered(K)
  <2>1. l = [k \in DOMAIN seen |-> walk[seen[k]]] BY Zenon DEF ListFrom
  <2>2. DOMAIN l = DOMAIN seen
    <3> HIDE DEF seen, walk
    <3> QED BY <2>1
  <2> HIDE DEF walk
  <2>3. DOMAIN seen = 1..Cardinality(K) BY DEF Ordered
  <2> HIDE DEF l, seen, K
  <2> QED BY <2>2, <2>3
<1>3. \E x \in hit : \A y \in hit : x <= y
  <2> HIDE DEF l
  <2>1. hit \in SUBSET Nat BY <1>2
  <2> HIDE DEF hit
  <2> QED BY <1>1, <2>1, LeastExists
<1>4. Min(hit) \in hit
  <2> HIDE DEF hit
  <2> QED BY <1>3 DEF Min
<1> HIDE DEF l
<1> QED BY <1>1, <1>4

-----------------------------------------------------------------------------
(* Sockets come and go.                                                     *)
\* The parts of the invariant.
LEMMA NetParts ==
    ASSUME NetInv
    PROVE  /\ NetTypes /\ MbufInv /\ SockInv /\ HandInv /\ NoSleepOnPacket
           /\ npage \in [NPages -> {"free", "sock", "mbuf", "leaked"}]
           /\ sock \in [NPages -> SockValue] /\ sockets \in NPages \cup {0}
           /\ nfd \in [NetProc -> NPages \cup {0}]
           /\ npc \in [NetProc -> {"idle", "alloc", "close", "free", "read", "sleep"}]
           /\ rxMbuf \in [RxSlot -> NPages] /\ rxFrame \in [RxSlot -> NetFrame]
           /\ rdh \in RxSlot /\ rdt \in RxSlot /\ intr \in Handler
           /\ txMbuf \in [TxSlot -> NPages \cup {0}] /\ txDone \in [TxSlot -> BOOLEAN]
           /\ tdh \in TxSlot /\ tdt \in TxSlot /\ nframe \in Nat
           /\ \A s \in NPages : sock[s].rxq \in Seq(Packet) /\ sock[s].next \in NPages \cup {0, Junk}
           /\ 0 \notin NPages
BY DEF NetInv, NetTypes, SockValue, NPages

\* A step that moves no mbuf.
LEMMA QuietMbufs ==
    ASSUME NetInv, UNCHANGED <<rxMbuf, txMbuf>>, intr'.m = intr.m,
           \A q \in NPages : npage'[q] = "mbuf" <=> npage[q] = "mbuf",
           \A s \in NPages : sock'[s].rxq = sock[s].rxq
    PROVE  MbufInv'
<1> SUFFICES ASSUME NEW q \in NPages PROVE MbufAt(q)' BY DEF MbufInv
<1>1. ASSUME NEW k \in Holding, NEW s \in Nat, NEW i \in Nat
      PROVE  Holds(q, k, s, i)' <=> Holds(q, k, s, i)
  BY DEF Holds
<1>2. Same(q) BY <1>1 DEF Same
<1> QED BY <1>2, NetParts, SameStep DEF MbufInv

\* A step that the sockets and the processes have no part in.
LEMMA QuietTable ==
    ASSUME NetInv, UNCHANGED <<sock, nfd, npc>>, intr.st # "wake" \/ UNCHANGED intr,
           \A q \in NPages : npage'[q] = "sock" <=> npage[q] = "sock"
    PROVE  SockInv' /\ NoSleepOnPacket'
<1>1. SockInv'
  <2>1. \A p \in NetProc : nfd'[p] # 0 => nfd'[p] \in NPages BY NetParts
  <2> QED BY <2>1, NetParts DEF SockInv
<1>2. NoSleepOnPacket' BY NetParts DEF NoSleepOnPacket
<1> QED BY <1>1, <1>2

\* A halted system.
LEMMA HaltStep == ASSUME NetInv, Halt PROVE NetInv'
<1> USE DEF Halt, rxVars, txVars
<1>1. NetTypes' BY NetParts DEF NetTypes
<1>2. MbufInv' BY QuietMbufs
<1>3. SockInv' /\ NoSleepOnPacket' BY QuietTable
<1>4. HandInv' BY NetParts DEF HandInv
<1> QED BY <1>1, <1>2, <1>3, <1>4 DEF NetInv

\* sockalloc() takes a page for the socket, or fails.
LEMMA SockAllocStep == ASSUME NetInv, NEW p \in NetProc, NEW c \in Conn, SockAlloc(p, c) PROVE NetInv'
<1> DEFINE si == Kalloc(npage)
<1>1. /\ npc[p] = "idle" /\ nfd[p] = 0 /\ FreePages(npage) # {}
      /\ npage' = [npage EXCEPT ![si] = "sock"]
      /\ sock' = [sock EXCEPT ![si] = [conn |-> c, next |-> Junk, rxq |-> <<>>]]
      /\ nfd' = [nfd EXCEPT ![p] = si] /\ npc' = [npc EXCEPT ![p] = "alloc"]
      /\ UNCHANGED <<sockets, rxVars, intr, txVars, nframe>>
  BY DEF SockAlloc
<1>2. si \in NPages /\ npage[si] = "free" BY <1>1, KallocIs
<1> HIDE DEF si
<1>3. sock[si].rxq = <<>> /\ \A q \in NetProc : nfd[q] # si BY <1>2, NetParts DEF SockInv
<1>4. \A s \in NPages : sock'[s].rxq = sock[s].rxq BY <1>1, <1>2, <1>3, NetParts
<1>5. MbufInv'
  <2>1. \A q \in NPages : npage'[q] = "mbuf" <=> npage[q] = "mbuf" BY <1>1, <1>2, NetParts
  <2> QED BY <1>1, <1>4, <2>1, QuietMbufs DEF rxVars, txVars
<1>6. NetTypes'
  <2>1. [conn |-> c, next |-> Junk, rxq |-> <<>>] \in SockValue BY DEF SockValue
  <2> QED BY <1>1, <1>2, <2>1, NetParts DEF NetTypes, rxVars, txVars
<1>7. SockInv'
  <2>1. \A q \in NetProc : nfd'[q] # 0 => npage'[nfd'[q]] = "sock" BY <1>1, <1>2, NetParts DEF SockInv
  <2>2. \A q \in NetProc : npc'[q] # "idle" => nfd'[q] # 0 BY <1>1, <1>2, NetParts DEF SockInv
  <2>3. \A q, r \in NetProc : q # r /\ npc'[q] \in {"alloc", "close", "free"} => nfd'[r] # nfd'[q]
    BY <1>1, <1>2, <1>3, NetParts DEF SockInv
  <2>4. \A s \in NPages : npage'[s] # "sock" => sock'[s].rxq = <<>>
    BY <1>1, <1>2, <1>4, NetParts DEF SockInv
  <2> QED BY <2>1, <2>2, <2>3, <2>4 DEF SockInv
<1>8. NoSleepOnPacket'
  <2>1. \A q \in NetProc : npc'[q] = "sleep" => npc[q] = "sleep" /\ q # p /\ nfd'[q] = nfd[q] /\ nfd[q] \in NPages
    BY <1>1, NetParts DEF SockInv
  <2> QED BY <1>1, <1>4, <2>1, NetParts DEF NoSleepOnPacket
<1>9. HandInv' BY <1>1, NetParts DEF HandInv
<1> QED BY <1>5, <1>6, <1>7, <1>8, <1>9 DEF NetInv

\* A step that writes next pointers, and the state of processes that do not sleep
\* before or after it.
LEMMA LinkStep ==
    ASSUME NetInv, NEW p \in NetProc, sockets' \in NPages \cup {0}, sock' \in [NPages -> SockValue],
           \A s \in NPages : sock'[s].rxq = sock[s].rxq,
           npc[p] # "sleep" /\ nfd[p] # 0,
           \/ npc' = [npc EXCEPT ![p] = "idle"]
           \/ npc[p] = "close" /\ npc' = [npc EXCEPT ![p] = "free"],
           UNCHANGED <<npage, nfd, rxVars, intr, txVars, nframe>>
    PROVE  NetInv'
<1> USE DEF rxVars, txVars
<1>1. NetTypes' BY NetParts DEF NetTypes
<1>2. MbufInv' BY QuietMbufs
<1>3. SockInv'
  <2>1. \A q \in NetProc : npc'[q] # "idle" => nfd'[q] # 0 BY NetParts DEF SockInv
  <2>2. \A q \in NetProc : npc'[q] \in {"alloc", "close", "free"} => npc[q] \in {"alloc", "close", "free"}
    BY NetParts
  <2> QED BY <2>1, <2>2, NetParts DEF SockInv
<1>4. NoSleepOnPacket'
  <2>1. \A q \in NetProc : npc'[q] = "sleep" => npc[q] = "sleep" /\ nfd[q] \in NPages
    BY NetParts DEF SockInv
  <2> QED BY <2>1, NetParts DEF NoSleepOnPacket
<1>5. HandInv' BY NetParts DEF HandInv
<1> QED BY <1>1, <1>2, <1>3, <1>4, <1>5 DEF NetInv

\* A change of one `next' pointer.
LEMMA NextSet ==
    ASSUME sock \in [NPages -> SockValue], NEW b \in NPages, NEW x \in NPages \cup {0, Junk}
    PROVE  /\ [sock EXCEPT ![b].next = x] \in [NPages -> SockValue]
           /\ \A s \in NPages : [sock EXCEPT ![b].next = x][s].rxq = sock[s].rxq
<1> DEFINE v == [sock[b] EXCEPT !.next = x]
<1>1. v \in SockValue /\ v.rxq = sock[b].rxq BY DEF SockValue
<1>2. [sock EXCEPT ![b].next = x] = [sock EXCEPT ![b] = v] OBVIOUS
<1> HIDE DEF v
<1> QED BY <1>1, <1>2

\* sockalloc() links its socket in.
LEMMA SockInsertStep == ASSUME NetInv, NEW p \in NetProc, SockInsert(p) PROVE NetInv'
<1>1. nfd[p] # 0 /\ nfd[p] \in NPages BY NetParts DEF SockInsert, SockInv
<1>2. /\ sock' = [sock EXCEPT ![nfd[p]].next = sockets] /\ sockets' = nfd[p]
      /\ npc[p] = "alloc" /\ npc' = [npc EXCEPT ![p] = "idle"]
      /\ UNCHANGED <<npage, nfd, rxVars, intr, txVars, nframe>>
  BY DEF SockInsert
<1>3. sock' \in [NPages -> SockValue] /\ \A s \in NPages : sock'[s].rxq = sock[s].rxq
  BY <1>1, <1>2, NextSet, NetParts
<1> QED BY <1>1, <1>2, <1>3, LinkStep

\* sockclose() unlinks the socket.
LEMMA SockUnlinkStep == ASSUME NetInv, NEW p \in NetProc, SockUnlink(p) PROVE NetInv'
<1>1. nfd[p] # 0 /\ nfd[p] \in NPages BY NetParts DEF SockUnlink, SockInv
<1>2. /\ sockets' = Unlinked(nfd[p]).head /\ sock' = Unlinked(nfd[p]).socks
      /\ npc[p] = "close" /\ npc' = [npc EXCEPT ![p] = "free"]
      /\ UNCHANGED <<npage, nfd, rxVars, intr, txVars, nframe>>
  BY DEF SockUnlink
<1> DEFINE l == ListFrom(sockets)
           before == {k \in 1..Len(l) - 1 : l[k + 1] = nfd[p]}
           b == l[Min(before)]
<1>3. /\ sockets' = IF sock[sockets].next = 0 THEN 0 ELSE sockets
      /\ sock' = IF before = {} THEN sock ELSE [sock EXCEPT ![b].next = sock[nfd[p]].next]
  BY <1>2 DEF Unlinked
<1> HIDE DEF before, b
<1>4. sock' \in [NPages -> SockValue] /\ \A s \in NPages : sock'[s].rxq = sock[s].rxq
  <2>1. CASE before = {} BY <1>3, <2>1, NetParts
  <2>2. CASE before # {}
    <3>1. sock' = [sock EXCEPT ![b].next = sock[nfd[p]].next] BY <1>3, <2>2
    <3>2. CASE b \notin NPages BY <3>1, <3>2, NetParts
    <3>3. CASE b \in NPages
      <4>1. PICK x \in NPages \cup {0, Junk} : x = sock[nfd[p]].next BY <1>1, NetParts
      <4>2. sock' = [sock EXCEPT ![b].next = x] BY <3>1, <4>1
      <4> QED BY <3>3, <4>2, NextSet, NetParts
    <3> QED BY <3>2, <3>3
  <2> QED BY <2>1, <2>2
<1>5. sockets' \in NPages \cup {0} BY <1>3, NetParts
<1> QED BY <1>1, <1>2, <1>4, <1>5, LinkStep

-----------------------------------------------------------------------------
(* Sharing, closing, and steps that move no mbuf.                           *)
\* A process gets hold of another's socket.
LEMMA SockShareStep ==
    ASSUME NetInv, NEW p \in NetProc, NEW q \in NetProc, SockShare(p, q) PROVE NetInv'
<1> USE DEF SockShare, rxVars, txVars
<1>0. p # q /\ nfd' = [nfd EXCEPT ![q] = nfd[p]] /\ npc[p] = "idle" /\ npc[q] = "idle" /\ nfd[p] # 0
      /\ UNCHANGED <<npage, sock, npc, intr>>
  OBVIOUS
<1>1. NetTypes' BY NetParts DEF NetTypes
<1>2. MbufInv' BY QuietMbufs
<1>3. SockInv'
  <2>1. \A r \in NetProc : nfd'[r] # 0 => npage'[nfd'[r]] = "sock" BY <1>0, NetParts DEF SockInv
  <2>2. \A r \in NetProc : npc'[r] # "idle" => nfd'[r] # 0 BY <1>0, NetParts DEF SockInv
  <2>3. ASSUME NEW r \in NetProc, NEW s \in NetProc, r # s, npc'[r] \in {"alloc", "close", "free"}
        PROVE  nfd'[s] # nfd'[r]
    <3>1. r # p /\ r # q /\ npc[r] \in {"alloc", "close", "free"} BY <1>0, <2>3
    <3>2. nfd[s] # nfd[r] /\ nfd[p] # nfd[r] BY <2>3, <3>1, NetParts DEF SockInv
    <3> QED BY <1>0, <3>1, <3>2, NetParts
  <2> QED BY <1>0, <2>1, <2>2, <2>3, NetParts DEF SockInv
<1>4. NoSleepOnPacket'
  <2>1. \A r \in NetProc : npc'[r] = "sleep" => npc[r] = "sleep" /\ nfd'[r] = nfd[r] BY <1>0, NetParts
  <2> QED BY <1>0, <2>1, NetParts DEF NoSleepOnPacket
<1>5. HandInv' BY <1>0, NetParts DEF HandInv
<1> QED BY <1>1, <1>2, <1>3, <1>4, <1>5 DEF NetInv

\* sockclose() begins.
LEMMA SockCloseStep == ASSUME NetInv, NEW p \in NetProc, SockClose(p) PROVE NetInv'
<1> USE DEF rxVars, txVars
<1>0. npc[p] = "idle" /\ nfd[p] # 0 /\ UNCHANGED <<npage, sock, sockets, rxVars, intr, txVars, nframe>>
  BY DEF SockClose
<1>1. \/ /\ nfd' = [nfd EXCEPT ![p] = 0] /\ UNCHANGED npc
      \/ /\ \A q \in NetProc : q # p => nfd[q] # nfd[p]
         /\ npc' = [npc EXCEPT ![p] = "close"] /\ UNCHANGED nfd
  BY DEF SockClose
<1>2. NetTypes' BY <1>0, <1>1, NetParts DEF NetTypes
<1>3. MbufInv' BY <1>0, QuietMbufs
<1>4. SockInv'
  <2>1. \A r \in NetProc : nfd'[r] # 0 => npage'[nfd'[r]] = "sock" BY <1>0, <1>1, NetParts DEF SockInv
  <2>2. \A r \in NetProc : npc'[r] # "idle" => nfd'[r] # 0 BY <1>0, <1>1, NetParts DEF SockInv
  <2>3. ASSUME NEW r \in NetProc, NEW s \in NetProc, r # s, npc'[r] \in {"alloc", "close", "free"}
        PROVE  nfd'[s] # nfd'[r]
    <3>1. CASE /\ nfd' = [nfd EXCEPT ![p] = 0] /\ UNCHANGED npc
      <4>1. r # p /\ nfd[s] # nfd[r] /\ nfd[r] # 0 BY <1>0, <2>3, <3>1, NetParts DEF SockInv
      <4> QED BY <3>1, <4>1, NetParts
    <3>2. CASE /\ \A q \in NetProc : q # p => nfd[q] # nfd[p]
               /\ npc' = [npc EXCEPT ![p] = "close"] /\ UNCHANGED nfd
      <4>1. CASE r = p BY <2>3, <3>2, <4>1
      <4>2. CASE r # p
        <5>1. npc[r] \in {"alloc", "close", "free"} BY <2>3, <3>2, <4>2, NetParts
        <5>2. nfd[s] # nfd[r] BY <2>3, <5>1, NetParts DEF SockInv
        <5> QED BY <3>2, <5>2
      <4> QED BY <4>1, <4>2
    <3> QED BY <1>1, <3>1, <3>2
  <2> QED BY <1>0, <2>1, <2>2, <2>3, NetParts DEF SockInv
<1>5. NoSleepOnPacket'
  <2>1. \A r \in NetProc : npc'[r] = "sleep" => npc[r] = "sleep" /\ nfd'[r] = nfd[r] /\ r # p
    BY <1>0, <1>1, NetParts
  <2> QED BY <1>0, <2>1, NetParts DEF NoSleepOnPacket
<1>6. HandInv' BY <1>0, NetParts DEF HandInv
<1> QED BY <1>2, <1>3, <1>4, <1>5, <1>6 DEF NetInv

\* sockread(): the call and its sleep.
LEMMA SockReadCallStep == ASSUME NetInv, NEW p \in NetProc, SockReadCall(p) \/ SockReadSleeps(p) PROVE NetInv'
<1> USE DEF rxVars, txVars
<1>0. /\ UNCHANGED <<npage, sock, sockets, nfd, rxVars, intr, txVars, nframe>> /\ nfd[p] # 0
      /\ npc[p] \in {"idle", "read"}
      /\ \/ npc' = [npc EXCEPT ![p] = "read"]
         \/ npc' = [npc EXCEPT ![p] = "sleep"] /\ sock[nfd[p]].rxq = <<>>
  BY NetParts DEF SockReadCall, SockReadSleeps, SockInv
<1>2. NetTypes' BY <1>0, NetParts DEF NetTypes
<1>3. MbufInv' BY <1>0, QuietMbufs
<1>4. SockInv'
  <2>1. \A r \in NetProc : npc'[r] # "idle" => nfd'[r] # 0 BY <1>0, NetParts DEF SockInv
  <2>2. \A r \in NetProc : npc'[r] \in {"alloc", "close", "free"} => npc[r] \in {"alloc", "close", "free"}
    BY <1>0, NetParts
  <2> QED BY <1>0, <2>1, <2>2, NetParts DEF SockInv
<1>5. NoSleepOnPacket'
  <2>1. ASSUME NEW r \in NetProc, npc'[r] = "sleep"
        PROVE  npc[r] = "sleep" \/ (r = p /\ sock[nfd[p]].rxq = <<>>)
    <3>1. CASE r = p BY <1>0, <2>1, <3>1, NetParts
    <3>2. CASE r # p BY <1>0, <2>1, <3>2, NetParts
    <3> QED BY <3>1, <3>2
  <2> QED BY <1>0, <2>1, NetParts DEF NoSleepOnPacket
<1>6. HandInv' BY <1>0, NetParts DEF HandInv
<1> QED BY <1>2, <1>3, <1>4, <1>5, <1>6 DEF NetInv

\* The device sends and receives.
LEMMA DeviceStep ==
    ASSUME NetAssumption, NetInv, NEW to \in Conn \union {"arp", "bad"}, DeviceSends \/ DeviceReceives(to)
    PROVE  NetInv'
<1>0. /\ UNCHANGED <<npage, sock, sockets, nfd, npc, rxMbuf, rdt, intr, txMbuf, tdt>>
      /\ \/ /\ tdh' = (tdh + 1) % TX_RING_SIZE /\ txDone' = [txDone EXCEPT ![tdh] = TRUE]
            /\ UNCHANGED <<rdh, rxFrame, nframe>>
         \/ /\ rdh' = (rdh + 1) % RX_RING_SIZE /\ nframe' = nframe + 1
            /\ rxFrame' = [rxFrame EXCEPT ![rdh] = [seq |-> nframe + 1, to |-> to]]
            /\ UNCHANGED <<tdh, txDone>>
  BY DEF DeviceSends, DeviceReceives, tableVars, rxVars, txVars
<1>1. tdh' \in TxSlot /\ rdh' \in RxSlot
  <2>1. TX_RING_SIZE \in Nat \ {0} /\ RX_RING_SIZE \in Nat \ {0} BY DEF NetAssumption
  <2>2. (tdh + 1) % TX_RING_SIZE \in TxSlot /\ (rdh + 1) % RX_RING_SIZE \in RxSlot
    BY <2>1, ModInc, NetParts DEF TxSlot, RxSlot
  <2> QED BY <1>0, <2>2, NetParts
<1>2. NetTypes'
  <2>1. [seq |-> nframe + 1, to |-> to] \in NetFrame BY NetParts DEF NetFrame
  <2>2. rxFrame' \in [RxSlot -> NetFrame] BY <1>0, <2>1, NetParts
  <2>3. txDone' \in [TxSlot -> BOOLEAN] /\ nframe' \in Nat
    <3>1. [txDone EXCEPT ![tdh] = TRUE] \in [TxSlot -> BOOLEAN] BY Zenon, NetParts
    <3>2. nframe' = nframe \/ nframe' = nframe + 1 BY <1>0
    <3>3. txDone' = txDone \/ txDone' = [txDone EXCEPT ![tdh] = TRUE] BY <1>0
    <3>4. txDone' \in [TxSlot -> BOOLEAN] BY Zenon, <3>1, <3>3, NetParts
    <3> QED BY <3>2, <3>4, NetParts
  <2>4. UNCHANGED <<npage, sock, sockets, nfd, npc, rxMbuf, rdt, intr, txMbuf, tdt>> BY <1>0
  <2> QED BY <1>1, <2>2, <2>3, <2>4, NetParts DEF NetTypes
<1>3. MbufInv' BY <1>0, QuietMbufs
<1>4. SockInv' /\ NoSleepOnPacket' BY <1>0, QuietTable
<1>5. HandInv' BY <1>0, NetParts DEF HandInv
<1> QED BY <1>2, <1>3, <1>4, <1>5 DEF NetInv

\* The steps of the handler that free or queue nothing.
LEMMA IntrQuietStep ==
    ASSUME NetAssumption, NetInv, IntrEnter \/ RecvNone \/ IntrAck \/ RxUdp \/ RecvFinds
    PROVE  NetInv'
<1> USE DEF tableVars, rxVars, txVars
<1>0. /\ UNCHANGED <<npage, sock, sockets, nfd, npc, rxMbuf, rxFrame, rdh, rdt, txVars, nframe>>
      /\ intr.st # "wake"
      /\ \/ intr.st \in {"off", "recv", "ack"} /\ \E st \in {"off", "recv", "ack"} : intr' = [Quiet EXCEPT !.st = st]
         \/ intr.st = "rx" /\ intr' = [intr EXCEPT !.st = "find", !.so = sockets]
         \/ /\ intr.st = "find" /\ Lookup(intr.so, intr.f.to) > 0
            /\ intr' = [intr EXCEPT !.st = "push", !.so = Lookup(intr.so, intr.f.to)]
  <2>1. [Quiet EXCEPT !.st = "off"] = Quiet BY DEF Quiet
  <2>2. CASE IntrEnter BY <2>2 DEF IntrEnter
  <2>3. CASE RecvNone BY <2>3 DEF RecvNone
  <2>4. CASE IntrAck BY <2>1, <2>4 DEF IntrAck
  <2>5. CASE RxUdp BY <2>5 DEF RxUdp
  <2>6. CASE RecvFinds BY <2>6 DEF RecvFinds
  <2> QED BY <2>2, <2>3, <2>4, <2>5, <2>6
<1>1. intr' \in Handler /\ intr'.m = intr.m /\ HandInv'
  <2>1. CASE \E st \in {"off", "recv", "ack"} : intr' = [Quiet EXCEPT !.st = st] /\ intr.st \in {"off", "recv", "ack"}
    <3>1. PICK st \in {"off", "recv", "ack"} : intr' = [st |-> st, m |-> 0, f |-> NoRxFrame, so |-> 0]
      BY <2>1 DEF Quiet
    <3>2. intr.m = 0 BY <2>1, NetParts DEF HandInv
    <3> QED BY <3>1, <3>2 DEF Handler, HandInv, NoRxFrame, NetFrame
  <2>2. CASE intr.st = "rx" /\ intr' = [intr EXCEPT !.st = "find", !.so = sockets]
    BY <2>2, NetParts DEF Handler, HandInv
  <2>3. CASE /\ intr.st = "find" /\ Lookup(intr.so, intr.f.to) > 0
             /\ intr' = [intr EXCEPT !.st = "push", !.so = Lookup(intr.so, intr.f.to)]
    <3>1. Lookup(intr.so, intr.f.to) \in NPages BY <2>3, LookupIs
    <3> QED BY <2>3, <3>1, NetParts DEF Handler, HandInv
  <2> QED BY <1>0, <2>1, <2>2, <2>3
<1>2. NetTypes' BY <1>0, <1>1, NetParts DEF NetTypes
<1>3. MbufInv' BY <1>0, <1>1, QuietMbufs
<1>4. SockInv' /\ NoSleepOnPacket' BY <1>0, QuietTable
<1> QED BY <1>1, <1>2, <1>3, <1>4 DEF NetInv

\* sockrecvudp() ends.
LEMMA RecvWakeStep == ASSUME NetInv, RecvWake PROVE NetInv'
<1> USE DEF tableVars, rxVars, txVars
<1>0. /\ UNCHANGED <<npage, sock, sockets, nfd, rxMbuf, rxFrame, rdh, rdt, txVars, nframe>>
      /\ intr.st = "wake" /\ intr' = [st |-> "recv", m |-> 0, f |-> NoRxFrame, so |-> 0]
      /\ npc' = [p \in NetProc |-> IF npc[p] = "sleep" /\ nfd[p] = intr.so THEN "read" ELSE npc[p]]
  BY DEF RecvWake, RecvWoken, Back, Quiet
<1>1. intr' \in Handler /\ intr'.m = intr.m /\ HandInv'
  BY <1>0, NetParts DEF Handler, HandInv, NoRxFrame, NetFrame
<1>2. NetTypes' BY <1>0, <1>1, NetParts DEF NetTypes
<1>3. MbufInv' BY <1>0, <1>1, QuietMbufs
<1>4. SockInv'
  <2>1. \A r \in NetProc : npc'[r] # "idle" => nfd'[r] # 0 BY <1>0, NetParts DEF SockInv
  <2>2. \A r \in NetProc : npc'[r] \in {"alloc", "close", "free"} => npc[r] \in {"alloc", "close", "free"}
    BY <1>0, NetParts
  <2> QED BY <1>0, <2>1, <2>2, NetParts DEF SockInv
<1>5. NoSleepOnPacket'
  <2>1. \A r \in NetProc : npc'[r] = "sleep" => npc[r] = "sleep" /\ nfd[r] # intr.so BY <1>0, NetParts
  <2> QED BY <1>0, <2>1, NetParts DEF NoSleepOnPacket
<1> QED BY <1>1, <1>2, <1>3, <1>4, <1>5 DEF NetInv

-----------------------------------------------------------------------------
(* The receive path.                                                        *)
\* The handler has only the mbuf in its hands, and that only in some steps.
LEMMA HandIs ==
    ASSUME NetInv, intr.st \in {"rx", "find", "push"}
    PROVE  /\ intr.m \in NPages /\ intr.m # 0 /\ HeldAt(intr.m, "hand", 0, 0)
           /\ npage[intr.m] = "mbuf"
<1>1. intr.m \in NPages /\ intr.m # 0 BY NetParts DEF HandInv, Handler
<1>2. Holds(intr.m, "hand", 0, 0) BY DEF Holds
<1>3. "hand" \in Holding /\ 0 \in Nat BY DEF Holding
<1>4. MbufAt(intr.m) BY <1>1, NetParts DEF MbufInv
<1> QED BY <1>1, <1>2, <1>3, <1>4, HeldOnce

\* The handler frees its mbuf.
LEMMA HandFreed ==
    ASSUME NetInv, intr.st \in {"rx", "find"}, npage' = [npage EXCEPT ![intr.m] = "free"], Back,
           UNCHANGED <<tableVars, npc, rxVars, txVars, nframe>>
    PROVE  NetInv'
<1> USE DEF tableVars, rxVars, txVars
<1>0. intr' = [st |-> "recv", m |-> 0, f |-> NoRxFrame, so |-> 0] BY DEF Back, Quiet
<1>1. intr' \in Handler /\ intr'.m = 0 /\ HandInv' BY <1>0 DEF Handler, HandInv, NoRxFrame, NetFrame
<1>2. NetTypes' BY <1>1, NetParts DEF NetTypes
<1>3. MbufInv'
  <2> SUFFICES ASSUME NEW q \in NPages PROVE MbufAt(q)' BY DEF MbufInv
  <2>1. CASE q = intr.m
    <3>1. HeldAt(q, "hand", 0, 0) BY <2>1, HandIs
    <3>2. \A k \in Holding, s, i \in Nat : ~Holds(q, k, s, i)'
      <4> SUFFICES ASSUME NEW k \in Holding, NEW s \in Nat, NEW i \in Nat, Holds(q, k, s, i)' PROVE FALSE
        OBVIOUS
      <4>1. q # 0 BY NetParts
      <4>2. k # "hand" /\ Holds(q, k, s, i) BY <1>1, <4>1 DEF Holds
      <4> QED BY <3>1, <4>2 DEF HeldAt
    <3>3. npage'[q] # "mbuf" BY <2>1, NetParts
    <3> QED BY <3>2, <3>3 DEF MbufAt
  <2>2. CASE q # intr.m
    <3>1. q # 0 BY NetParts
    <3>2. \A k \in Holding, s, i \in Nat : Holds(q, k, s, i)' <=> Holds(q, k, s, i)
      BY <1>1, <2>2, <3>1 DEF Holds
    <3>3. npage'[q] = npage[q] BY <2>2, NetParts
    <3> QED BY <3>2, <3>3, NetParts, SameStep DEF Same, MbufInv
  <2> QED BY <2>1, <2>2
<1>4. SockInv' /\ NoSleepOnPacket'
  <2>1. \A q \in NPages : npage'[q] = "sock" <=> npage[q] = "sock" BY HandIs, NetParts
  <2> QED BY <2>1, QuietTable
<1> QED BY <1>1, <1>2, <1>3, <1>4 DEF NetInv

\* The handler frees the mbuf in its hands.
LEMMA RxDropStep == ASSUME NetInv, RxDrop \/ RecvNoSock PROVE NetInv'
BY HandFreed DEF RxDrop, RecvNoSock

\* A page that is in one place, and is an mbuf, after the step.
LEMMA PlacedIs ==
    ASSUME NEW q, npage'[q] = "mbuf", NEW k \in Holding, NEW s \in Nat, NEW i \in Nat, HeldAt(q, k, s, i)'
    PROVE  MbufAt(q)'
BY DEF MbufAt

\* The handler takes the mbuf of a descriptor, which gets a fresh one.
LEMMA RecvTakeStep == ASSUME NetAssumption, NetInv, RecvTake PROVE NetInv'
<1>k. Kalloc(npage) \in NPages /\ npage[Kalloc(npage)] = "free" BY KallocIs DEF RecvTake
<1>1. PICK n \in NPages : n = Kalloc(npage) /\ npage[n] = "free" BY <1>k
<1>2. PICK x \in RxSlot : x = RxPos
  <2>1. RX_RING_SIZE \in Nat \ {0} BY DEF NetAssumption
  <2> QED BY <2>1, ModInc, NetParts DEF RxPos, RxSlot
<1>3. PICK old \in NPages : old = rxMbuf[x] BY NetParts
<1>0. /\ intr.st = "recv"
      /\ npage' = [npage EXCEPT ![n] = "mbuf"] /\ rxMbuf' = [rxMbuf EXCEPT ![x] = n]
      /\ rxFrame' = [rxFrame EXCEPT ![x] = NoRxFrame] /\ rdt' = x
      /\ intr' = [st |-> "rx", m |-> old, f |-> rxFrame[x], so |-> 0]
      /\ UNCHANGED <<sock, sockets, nfd, npc, rdh, txMbuf, txDone, tdh, tdt, nframe>>
  BY <1>1, <1>2, <1>3 DEF RecvTake, tableVars, txVars
<1>h. "rx" \in Holding /\ "hand" \in Holding /\ 0 \in Nat /\ x \in Nat BY DEF Holding, RxSlot
<1>4. npage[old] = "mbuf" /\ HeldAt(old, "rx", 0, x)
  <2>1. Holds(old, "rx", 0, x) BY <1>3 DEF Holds
  <2>2. MbufAt(old) BY NetParts DEF MbufInv
  <2> QED BY <1>h, <2>1, <2>2, HeldOnce
<1>m. intr.m = 0 /\ intr'.m = old BY <1>0, NetParts DEF HandInv
<1>r. \A j \in RxSlot : rxMbuf'[j] = IF j = x THEN n ELSE rxMbuf[j] BY <1>0, NetParts
<1>5. ASSUME NEW q \in NPages, NEW k \in Holding, NEW s \in Nat, NEW i \in Nat
      PROVE  Holds(q, k, s, i)' <=>
                \/ q = n /\ k = "rx" /\ s = 0 /\ i = x
                \/ q = old /\ k = "hand" /\ s = 0 /\ i = 0
                \/ Holds(q, k, s, i) /\ ~(k = "rx" /\ i = x)
  <2>1. UNCHANGED <<sock, txMbuf>> /\ q # 0 BY <1>0, NetParts
  <2>2. CASE k = "rx" BY <1>r, <2>2 DEF Holds
  <2>3. CASE k = "hand" BY <1>m, <2>1, <2>3 DEF Holds
  <2>4. CASE k \in {"tx", "queue"} BY <2>1, <2>4 DEF Holds
  <2> QED BY <2>2, <2>3, <2>4 DEF Holding
<1>6. MbufInv'
  <2> SUFFICES ASSUME NEW q \in NPages PROVE MbufAt(q)' BY DEF MbufInv
  <2>1. CASE q = n
    <3>1. \A k \in Holding, s, i \in Nat : ~Holds(q, k, s, i) BY <1>1, <2>1, NetParts DEF MbufInv, MbufAt
    <3>2. q # old BY <1>1, <1>4, <2>1
    <3>3. HeldAt(q, "rx", 0, x)' BY <1>5, <2>1, <3>1, <3>2 DEF HeldAt
    <3>4. npage'[q] = "mbuf" BY <1>0, <2>1, NetParts
    <3> QED BY <1>h, <3>3, <3>4, PlacedIs
  <2>2. CASE q = old
    <3>1. q # n BY <1>1, <1>4, <2>2
    <3>2. HeldAt(q, "hand", 0, 0)' BY <1>4, <1>5, <2>2, <3>1 DEF HeldAt
    <3>3. npage'[q] = "mbuf" BY <1>0, <1>4, <2>2, <3>1, NetParts
    <3> QED BY <1>h, <3>2, <3>3, PlacedIs
  <2>3. CASE q # n /\ q # old
    <3>1. ASSUME NEW s \in Nat PROVE ~Holds(q, "rx", s, x) BY <1>3, <2>3 DEF Holds
    <3>2. \A k \in Holding, s, i \in Nat : Holds(q, k, s, i)' <=> Holds(q, k, s, i)
      BY <1>5, <2>3, <3>1
    <3>3. npage'[q] = npage[q] BY <1>0, <2>3, NetParts
    <3> QED BY <3>2, <3>3, NetParts, SameStep DEF Same, MbufInv
  <2> QED BY <2>1, <2>2, <2>3
<1>7. intr' \in Handler /\ HandInv' BY <1>0, NetParts DEF Handler, HandInv
<1>8. NetTypes'
  <2>1. NoRxFrame \in NetFrame BY DEF NoRxFrame, NetFrame
  <2> QED BY <1>0, <1>7, <2>1, NetParts DEF NetTypes
<1>9. SockInv' /\ NoSleepOnPacket'
  <2>1. \A q \in NPages : npage'[q] = "sock" <=> npage[q] = "sock" BY <1>0, <1>1, NetParts
  <2> QED BY <1>0, <2>1, QuietTable
<1> QED BY <1>6, <1>7, <1>8, <1>9 DEF NetInv

\* The handler queues its mbuf on a socket.
LEMMA RecvPushStep == ASSUME NetInv, RecvPush PROVE NetInv'
<1>1. PICK so \in NPages : so = intr.so BY NetParts DEF RecvPush, HandInv, Handler
<1>2. PICK m \in NPages : m = intr.m /\ npage[m] = "mbuf" /\ HeldAt(m, "hand", 0, 0) BY HandIs DEF RecvPush
<1>3. PICK b \in Packet : b = [m |-> intr.m, f |-> intr.f] BY <1>2, NetParts DEF Packet, Handler
<1>0. /\ npage[so] = "sock" /\ sock' = [sock EXCEPT ![so].rxq = Append(@, b)]
      /\ intr' = [st |-> "wake", m |-> 0, f |-> NoRxFrame, so |-> so]
      /\ UNCHANGED <<npage, sockets, nfd, npc, rxMbuf, rxFrame, rdh, rdt, txMbuf, txDone, tdh, tdt, nframe>>
  BY <1>1, <1>3 DEF RecvPush, Pushed, Quiet, rxVars, txVars
<1>4. PICK n \in Nat : n = Len(sock[so].rxq) + 1 BY NetParts
<1>5. /\ sock' \in [NPages -> SockValue] /\ Len(sock'[so].rxq) = n
      /\ sock'[so].rxq[n] = b /\ \A i \in 1..n - 1 : sock'[so].rxq[i] = sock[so].rxq[i]
      /\ \A s \in NPages : s # so => sock'[s] = sock[s]
  <2> DEFINE q0 == sock[so].rxq
             v == [sock[so] EXCEPT !.rxq = Append(q0, b)]
  <2>1. q0 \in Seq(Packet) BY NetParts
  <2> HIDE DEF q0
  <2>2. Append(q0, b) \in Seq(Packet) /\ Len(Append(q0, b)) = Len(q0) + 1
        /\ Append(q0, b)[Len(q0) + 1] = b /\ \A i \in 1..Len(q0) : Append(q0, b)[i] = q0[i]
    BY <2>1
  <2>3. sock[so] \in SockValue BY NetParts
  <2>4. v \in SockValue /\ v.rxq = Append(q0, b)
    <3> PICK r \in Seq(Packet) : r = Append(q0, b) BY <2>2
    <3> QED BY <2>3 DEF SockValue
  <2>5. sock' = [sock EXCEPT ![so] = v] BY <1>0 DEF q0
  <2> HIDE DEF v
  <2>6. sock' \in [NPages -> SockValue] /\ sock'[so] = v /\ \A s \in NPages : s # so => sock'[s] = sock[s]
    BY <2>4, <2>5, NetParts
  <2>7. n - 1 = Len(q0) /\ n = Len(q0) + 1 /\ Len(q0) \in Nat BY <1>4, <2>1 DEF q0
  <2>8. \A i \in 1..n - 1 : Append(q0, b)[i] = q0[i] BY <2>2, <2>7
  <2>9. Len(v.rxq) = n /\ v.rxq[n] = b BY <2>2, <2>4, <2>7
  <2>10. \A i \in 1..n - 1 : v.rxq[i] = sock[so].rxq[i] BY <2>4, <2>8 DEF q0
  <2> QED BY <2>6, <2>9, <2>10
<1>h. "queue" \in Holding /\ so \in Nat /\ intr'.m = 0 /\ b.m = m /\ n >= 1
  BY <1>0, <1>2, <1>3, <1>4, NetParts DEF Holding, NPages
<1>6. ASSUME NEW q \in NPages, NEW k \in Holding, NEW s \in Nat, NEW i \in Nat
      PROVE  Holds(q, k, s, i)' <=>
                \/ q = m /\ k = "queue" /\ s = so /\ i = n
                \/ Holds(q, k, s, i) /\ k # "hand"
  <2>1. q # 0 /\ UNCHANGED <<rxMbuf, txMbuf>> BY <1>0, NetParts
  <2>2. CASE k = "hand" BY <1>h, <2>1, <2>2 DEF Holds
  <2>3. CASE k \in {"rx", "tx"} BY <2>1, <2>3 DEF Holds
  <2>4. CASE k = "queue"
    <3>1. CASE s # so BY <1>5, <2>4, <3>1 DEF Holds
    <3>2. CASE s = so
      <4>1. Holds(q, k, s, i)' <=> i \in 1..n /\ sock'[so].rxq[i].m = q BY <1>5, <2>4, <3>2 DEF Holds
      <4>2. Holds(q, k, s, i) <=> i \in 1..n - 1 /\ sock[so].rxq[i].m = q
        <5>1. Len(sock[so].rxq) = n - 1 BY <1>4, NetParts
        <5> QED BY <2>4, <3>2, <5>1 DEF Holds
      <4>3. i \in 1..n <=> i \in 1..n - 1 \/ i = n BY <1>h
      <4>4. n \notin 1..n - 1 OBVIOUS
      <4> QED BY <1>5, <1>h, <2>4, <3>2, <4>1, <4>2, <4>3, <4>4
    <3> QED BY <3>1, <3>2
  <2> QED BY <2>2, <2>3, <2>4 DEF Holding
<1>7. MbufInv'
  <2> SUFFICES ASSUME NEW q \in NPages PROVE MbufAt(q)' BY DEF MbufInv
  <2>1. CASE q = m
    <3>1. HeldAt(q, "queue", so, n)' BY <1>2, <1>6, <2>1 DEF HeldAt
    <3>2. npage'[q] = "mbuf" BY <1>0, <1>2, <2>1
    <3> QED BY <1>h, <3>1, <3>2, PlacedIs
  <2>2. CASE q # m
    <3>1. \A s, i \in Nat : ~Holds(q, "hand", s, i) BY <1>2, <2>2 DEF Holds
    <3>2. \A k \in Holding, s, i \in Nat : Holds(q, k, s, i)' <=> Holds(q, k, s, i) BY <1>6, <2>2, <3>1
    <3> QED BY <1>0, <3>2, NetParts, SameStep DEF Same, MbufInv
  <2> QED BY <2>1, <2>2
<1>8. intr' \in Handler /\ HandInv' BY <1>0 DEF Handler, HandInv, NoRxFrame, NetFrame
<1>9. NetTypes' BY <1>0, <1>5, <1>8, NetParts DEF NetTypes
<1>10. SockInv'
  <2>1. \A s \in NPages : npage'[s] # "sock" => sock'[s].rxq = <<>> BY <1>0, <1>5, NetParts DEF SockInv
  <2> QED BY <1>0, <2>1, NetParts DEF SockInv
<1>11. NoSleepOnPacket'
  <2> SUFFICES ASSUME NEW p \in NetProc, npc[p] = "sleep", sock'[nfd[p]].rxq # <<>>
               PROVE  intr'.st = "wake" /\ intr'.so = nfd[p]
    BY <1>0 DEF NoSleepOnPacket
  <2>1. nfd[p] \in NPages BY NetParts DEF SockInv
  <2>2. sock[nfd[p]].rxq = <<>> BY NetParts DEF NoSleepOnPacket, RecvPush
  <2>3. nfd[p] = so BY <1>5, <2>1, <2>2
  <2> QED BY <1>0, <2>3
<1> QED BY <1>7, <1>8, <1>9, <1>10, <1>11 DEF NetInv

-----------------------------------------------------------------------------
(* Reading and freeing a socket.                                            *)
\* sockread() takes the first mbuf of the queue and frees it.
LEMMA SockReadTakesStep == ASSUME NetInv, NEW p \in NetProc, SockReadTakes(p) PROVE NetInv'
<1>1. PICK so \in NPages : so = nfd[p] /\ so # 0
  BY NetParts DEF SockReadTakes, SockInv
<1>2. PICK q0 \in Seq(Packet) : q0 = sock[so].rxq BY NetParts
<1>3. q0 # <<>> /\ Len(q0) \in Nat /\ Len(q0) >= 1 /\ q0[1] \in Packet /\ Head(q0) = q0[1]
  BY <1>1, <1>2 DEF SockReadTakes
<1>4. PICK n \in Nat : n = Len(q0) - 1 BY <1>3
<1>5. PICK m \in NPages : m = q0[1].m BY <1>3 DEF Packet
<1>6. /\ Tail(q0) \in Seq(Packet) /\ Len(Tail(q0)) = n
      /\ \A i \in 1..n : Tail(q0)[i] = q0[i + 1]
  BY <1>3, <1>4
<1>0. /\ npc[p] = "read" /\ sock' = [sock EXCEPT ![so].rxq = Tail(@)]
      /\ npage' = [npage EXCEPT ![m] = "free"] /\ npc' = [npc EXCEPT ![p] = "idle"]
      /\ UNCHANGED <<sockets, nfd, rxMbuf, rxFrame, rdh, rdt, intr, txMbuf, txDone, tdh, tdt, nframe>>
  BY <1>1, <1>2, <1>3, <1>5 DEF SockReadTakes, ReadFrees, rxVars, txVars
<1>7. /\ sock' \in [NPages -> SockValue] /\ sock'[so].rxq = Tail(q0)
      /\ \A s \in NPages : s # so => sock'[s] = sock[s]
  <2> PICK r \in Seq(Packet) : r = Tail(q0) BY <1>6
  <2> DEFINE v == [sock[so] EXCEPT !.rxq = r]
  <2>1. sock[so] \in SockValue BY NetParts
  <2>2. v \in SockValue /\ v.rxq = r BY <2>1 DEF SockValue
  <2>3. sock' = [sock EXCEPT ![so] = v] BY <1>0, <1>2
  <2> HIDE DEF v
  <2> QED BY <2>2, <2>3, NetParts
<1>h. "queue" \in Holding /\ so \in Nat /\ 1 \in Nat BY NetParts DEF Holding, NPages
<1>8. npage[m] = "mbuf" /\ HeldAt(m, "queue", so, 1)
  <2>1. Holds(m, "queue", so, 1) BY <1>2, <1>3, <1>5 DEF Holds
  <2>2. MbufAt(m) BY NetParts DEF MbufInv
  <2> QED BY <1>h, <2>1, <2>2, HeldOnce
<1>9. ASSUME NEW q \in NPages, NEW k \in Holding, NEW s \in Nat, NEW i \in Nat
      PROVE  Holds(q, k, s, i)' <=>
                IF k = "queue" /\ s = so THEN i >= 1 /\ Holds(q, "queue", so, i + 1) ELSE Holds(q, k, s, i)
  <2>1. CASE k # "queue" BY <1>0, <2>1 DEF Holds
  <2>2. CASE k = "queue" /\ s # so BY <1>7, <2>2 DEF Holds
  <2>3. CASE k = "queue" /\ s = so
    <3>1. Holds(q, k, s, i)' <=> i \in 1..n /\ Tail(q0)[i].m = q BY <1>6, <1>7, <2>3 DEF Holds
    <3>2. Holds(q, "queue", so, i + 1) <=> i + 1 \in 1..Len(q0) /\ q0[i + 1].m = q BY <1>2 DEF Holds
    <3>3. i \in 1..n <=> i >= 1 /\ i + 1 \in 1..Len(q0) BY <1>3, <1>4
    <3> QED BY <1>6, <2>3, <3>1, <3>2, <3>3
  <2> QED BY <2>1, <2>2, <2>3
<1>10. MbufInv'
  <2> SUFFICES ASSUME NEW q \in NPages PROVE MbufAt(q)' BY DEF MbufInv
  <2>1. CASE q = m
    <3>1. npage'[q] # "mbuf" BY <1>0, <2>1, NetParts
    <3>2. \A k \in Holding, s, i \in Nat : ~Holds(q, k, s, i)'
      <4> TAKE k \in Holding, s \in Nat, i \in Nat
      <4>1. i + 1 \in Nat /\ (i >= 1 => i + 1 # 1) OBVIOUS
      <4>2. CASE k = "queue" /\ s = so
        <5>1. i >= 1 => ~Holds(q, "queue", so, i + 1) BY <1>8, <1>h, <2>1, <4>1 DEF HeldAt
        <5> QED BY <1>9, <4>2, <5>1
      <4>3. CASE ~(k = "queue" /\ s = so)
        <5>1. ~Holds(q, k, s, i) BY <1>8, <2>1, <4>3 DEF HeldAt
        <5> QED BY <1>9, <4>3, <5>1
      <4> QED BY <4>2, <4>3
    <3> QED BY <3>1, <3>2 DEF MbufAt
  <2>2. CASE q # m /\ npage[q] # "mbuf"
    <3>1. npage'[q] # "mbuf" BY <1>0, <2>2, NetParts
    <3>2. \A k \in Holding, s, i \in Nat : ~Holds(q, k, s, i) BY <2>2, NetParts DEF MbufInv, MbufAt
    <3>3. \A k \in Holding, s, i \in Nat : ~Holds(q, k, s, i)'
      <4> TAKE k \in Holding, s \in Nat, i \in Nat
      <4>1. i + 1 \in Nat OBVIOUS
      <4>2. ~Holds(q, k, s, i) /\ ~Holds(q, "queue", so, i + 1) BY <1>h, <3>2, <4>1
      <4> QED BY <1>9, <4>2
    <3> QED BY <3>1, <3>3 DEF MbufAt
  <2>3. CASE q # m /\ npage[q] = "mbuf"
    <3>1. npage'[q] = "mbuf" BY <1>0, <2>3, NetParts
    <3>2. PICK k0 \in Holding, s0 \in Nat, i0 \in Nat : HeldAt(q, k0, s0, i0)
      BY <2>3, NetParts DEF MbufInv, MbufAt
    <3>3. CASE k0 = "queue" /\ s0 = so
      <4>1. Holds(q, "queue", so, i0) BY <1>h, <3>2, <3>3 DEF HeldAt
      <4>2. i0 \in 1..Len(q0) /\ i0 # 1 BY <1>2, <1>5, <2>3, <4>1 DEF Holds
      <4>3. PICK j0 \in Nat : j0 = i0 - 1 /\ j0 >= 1 BY <1>3, <4>2
      <4>4. HeldAt(q, "queue", so, j0)'
        <5> SUFFICES ASSUME NEW l \in Holding, NEW t \in Nat, NEW j \in Nat
                     PROVE  Holds(q, l, t, j)' <=> l = "queue" /\ t = so /\ j = j0
          BY DEF HeldAt
        <5>1. j + 1 \in Nat /\ (j + 1 = i0 <=> j = j0) BY <4>3
        <5>2. CASE l = "queue" /\ t = so
          <6>1. Holds(q, "queue", so, j + 1) <=> j + 1 = i0 BY <1>h, <3>2, <3>3, <5>1 DEF HeldAt
          <6> QED BY <1>9, <4>3, <5>1, <5>2, <6>1
        <5>3. CASE ~(l = "queue" /\ t = so)
          <6>1. ~Holds(q, l, t, j) BY <3>2, <3>3, <5>3 DEF HeldAt
          <6> QED BY <1>9, <5>3, <6>1
        <5> QED BY <5>2, <5>3
      <4> QED BY <1>h, <3>1, <4>4, PlacedIs
    <3>4. CASE ~(k0 = "queue" /\ s0 = so)
      <4>1. HeldAt(q, k0, s0, i0)'
        <5> SUFFICES ASSUME NEW l \in Holding, NEW t \in Nat, NEW j \in Nat
                     PROVE  Holds(q, l, t, j)' <=> l = k0 /\ t = s0 /\ j = i0
          BY DEF HeldAt
        <5>1. j + 1 \in Nat OBVIOUS
        <5>2. ~Holds(q, "queue", so, j + 1) BY <1>h, <3>2, <3>4, <5>1 DEF HeldAt
        <5>3. Holds(q, l, t, j) <=> l = k0 /\ t = s0 /\ j = i0 BY <3>2 DEF HeldAt
        <5> QED BY <1>9, <3>4, <5>2, <5>3
      <4> QED BY <3>1, <4>1, PlacedIs
    <3> QED BY <3>3, <3>4
  <2> QED BY <2>1, <2>2, <2>3
<1>11. NetTypes' BY <1>0, <1>7, NetParts DEF NetTypes
<1>12. SockInv'
  <2>1. \A s \in NPages : npage'[s] = "sock" <=> npage[s] = "sock" BY <1>0, <1>8, NetParts
  <2>2. \A r \in NetProc : nfd'[r] # 0 => npage'[nfd'[r]] = "sock" BY <1>0, <2>1, NetParts DEF SockInv
  <2>3. \A r \in NetProc : npc'[r] # "idle" => nfd'[r] # 0 BY <1>0, NetParts DEF SockInv
  <2>4. \A r \in NetProc : npc'[r] \in {"alloc", "close", "free"} => npc[r] \in {"alloc", "close", "free"}
    BY <1>0, NetParts
  <2>5. npage[so] = "sock" BY <1>1, NetParts DEF SockInv
  <2>6. \A s \in NPages : npage'[s] # "sock" => sock'[s].rxq = <<>>
    BY <1>7, <2>1, <2>5, NetParts DEF SockInv
  <2> QED BY <1>0, <2>2, <2>3, <2>4, <2>6, NetParts DEF SockInv
<1>13. NoSleepOnPacket'
  <2> SUFFICES ASSUME NEW r \in NetProc, npc'[r] = "sleep", sock'[nfd[r]].rxq # <<>>
               PROVE  intr.st = "wake" /\ intr.so = nfd[r]
    BY <1>0 DEF NoSleepOnPacket
  <2>1. npc[r] = "sleep" /\ nfd[r] \in NPages BY <1>0, NetParts DEF SockInv
  <2>2. sock[nfd[r]].rxq # <<>> BY <1>2, <1>3, <1>7, <2>1
  <2> QED BY <2>1, <2>2, NetParts DEF NoSleepOnPacket
<1>14. HandInv' BY <1>0, NetParts DEF HandInv
<1> QED BY <1>10, <1>11, <1>12, <1>13, <1>14 DEF NetInv

\* sockclose() frees the socket; the mbufs of its queue are lost.
LEMMA SockFreeStep == ASSUME NetInv, NEW p \in NetProc, SockFree(p) PROVE NetInv'
<1>1. PICK so \in NPages : so = nfd[p] /\ npage[so] = "sock" BY NetParts DEF SockFree, SockInv
<1>2. PICK q0 \in Seq(Packet) : q0 = sock[so].rxq BY NetParts
<1> DEFINE queued == {q0[k].m : k \in DOMAIN q0}
<1>0. /\ npc[p] = "free" /\ npc' = [npc EXCEPT ![p] = "idle"] /\ nfd' = [nfd EXCEPT ![p] = 0]
      /\ npage' = [q \in NPages |-> IF q = so THEN "free" ELSE IF q \in queued THEN "leaked" ELSE npage[q]]
      /\ sock' = [sock EXCEPT ![so] = NoSock]
      /\ UNCHANGED <<sockets, rxMbuf, rxFrame, rdh, rdt, intr, txMbuf, txDone, tdh, tdt, nframe>>
  BY <1>1, <1>2 DEF SockFree, rxVars, txVars
<1>h. "queue" \in Holding /\ so \in Nat BY NetParts DEF Holding, NPages
<1>3. \A q \in NPages : q \in queued <=> \E i \in Nat : Holds(q, "queue", so, i)
  <2> TAKE q \in NPages
  <2>1. DOMAIN q0 = 1..Len(q0) /\ \A i \in 1..Len(q0) : i \in Nat BY <1>2
  <2> QED BY <1>2, <2>1 DEF Holds
<1>4. \A q \in queued : q \in NPages => npage[q] = "mbuf"
  BY <1>3, <1>h, NetParts DEF MbufInv, MbufAt
<1> HIDE DEF queued
<1>5. NoSock \in SockValue /\ NoSock.rxq = <<>> /\ Len(<<>>) = 0 BY DEF NoSock, SockValue
<1>6. /\ sock' \in [NPages -> SockValue] /\ sock'[so].rxq = <<>>
      /\ \A s \in NPages : s # so => sock'[s] = sock[s]
  BY <1>0, <1>5, NetParts
<1>7. ASSUME NEW q \in NPages, NEW k \in Holding, NEW s \in Nat, NEW i \in Nat
      PROVE  Holds(q, k, s, i)' <=> Holds(q, k, s, i) /\ ~(k = "queue" /\ s = so)
  <2>1. CASE k # "queue" BY <1>0, <2>1 DEF Holds
  <2>2. CASE k = "queue" /\ s # so BY <1>6, <2>2 DEF Holds
  <2>3. CASE k = "queue" /\ s = so
    <3>1. i \notin 1..Len(sock'[so].rxq) BY <1>5, <1>6
    <3> QED BY <2>3, <3>1 DEF Holds
  <2> QED BY <2>1, <2>2, <2>3
<1>8. MbufInv'
  <2> SUFFICES ASSUME NEW q \in NPages PROVE MbufAt(q)' BY DEF MbufInv
  <2>1. CASE q \in queued
    <3>1. npage'[q] # "mbuf" BY <1>0, <2>1
    <3>2. PICK i0 \in Nat : HeldAt(q, "queue", so, i0)
      BY <1>3, <1>h, <2>1, HeldOnce, NetParts DEF MbufInv
    <3>3. \A k \in Holding, s, i \in Nat : ~Holds(q, k, s, i)' BY <1>7, <3>2 DEF HeldAt
    <3> QED BY <3>1, <3>3 DEF MbufAt
  <2>2. CASE q \notin queued
    <3>1. npage'[q] = "mbuf" <=> npage[q] = "mbuf" BY <1>0, <1>1, <2>2
    <3>2. \A k \in Holding, s, i \in Nat : Holds(q, k, s, i)' <=> Holds(q, k, s, i) BY <1>3, <1>7, <2>2
    <3> QED BY <3>1, <3>2, NetParts, SameStep DEF Same, MbufInv
  <2> QED BY <2>1, <2>2
<1>9. NetTypes'
  <2>1. npage' \in [NPages -> {"free", "sock", "mbuf", "leaked"}] BY <1>0, NetParts
  <2> QED BY <1>0, <1>6, <2>1, NetParts DEF NetTypes
<1>o. \A r \in NetProc : r # p => nfd[r] # so BY <1>0, <1>1, NetParts DEF SockInv
<1>10. SockInv'
  <2>1. ASSUME NEW r \in NetProc, nfd'[r] # 0 PROVE npage'[nfd'[r]] = "sock"
    <3>1. r # p /\ nfd'[r] = nfd[r] /\ nfd[r] \in NPages /\ nfd[r] # so BY <1>0, <1>o, <2>1, NetParts
    <3>2. npage[nfd[r]] = "sock" BY <2>1, <3>1, NetParts DEF SockInv
    <3> QED BY <1>0, <1>4, <3>1, <3>2
  <2>2. \A r \in NetProc : npc'[r] # "idle" => nfd'[r] # 0 BY <1>0, NetParts DEF SockInv
  <2>3. ASSUME NEW r \in NetProc, NEW s \in NetProc, r # s, npc'[r] \in {"alloc", "close", "free"}
        PROVE  nfd'[s] # nfd'[r]
    <3>1. r # p /\ npc[r] \in {"alloc", "close", "free"} /\ nfd'[r] = nfd[r] BY <1>0, <2>3, NetParts
    <3>2. nfd[s] # nfd[r] /\ nfd[r] # 0 BY <2>3, <3>1, NetParts DEF SockInv
    <3> QED BY <1>0, <3>1, <3>2, NetParts
  <2>4. \A s \in NPages : npage'[s] # "sock" => sock'[s].rxq = <<>>
    BY <1>0, <1>4, <1>6, NetParts DEF SockInv
  <2> QED BY <2>1, <2>2, <2>3, <2>4 DEF SockInv
<1>11. NoSleepOnPacket'
  <2> SUFFICES ASSUME NEW r \in NetProc, npc'[r] = "sleep", sock'[nfd'[r]].rxq # <<>>
               PROVE  intr.st = "wake" /\ intr.so = nfd'[r]
    BY <1>0 DEF NoSleepOnPacket
  <2>1. r # p /\ npc[r] = "sleep" /\ nfd'[r] = nfd[r] BY <1>0, NetParts
  <2>2. nfd[r] \in NPages /\ nfd[r] # so BY <1>o, <2>1, NetParts DEF SockInv
  <2>3. sock[nfd[r]].rxq # <<>> BY <1>6, <2>1, <2>2
  <2> QED BY <2>1, <2>3, NetParts DEF NoSleepOnPacket
<1>12. HandInv' BY <1>0, NetParts DEF HandInv
<1> QED BY <1>8, <1>9, <1>10, <1>11, <1>12 DEF NetInv

-----------------------------------------------------------------------------
(* Transmitting.                                                            *)
\* A fresh mbuf is handed to the driver, which frees the one its descriptor had; the
\* handler may free its own before.
LEMMA TransmitStep ==
    ASSUME NetAssumption, NetInv, NEW m \in NPages, npage[m] = "free", NEW pg, Transmit(pg, m),
           \/ pg = [npage EXCEPT ![m] = "mbuf"] /\ UNCHANGED intr
           \/ intr.st = "rx" /\ pg = [npage EXCEPT ![m] = "mbuf", ![intr.m] = "free"] /\ Back,
           UNCHANGED <<tableVars, npc, rxVars, nframe>>
    PROVE  NetInv'
<1> USE DEF tableVars, rxVars, txVars
<1>1. PICK h \in NPages \cup {0} : h = IF UNCHANGED intr THEN 0 ELSE intr.m
  BY NetParts DEF Handler
<1>2. /\ h # m
      /\ h # 0 => npage[h] = "mbuf" /\ HeldAt(h, "hand", 0, 0) /\ h = intr.m /\ intr'.m = 0
      /\ h = 0 => intr'.m = intr.m
      /\ \A q \in NPages : pg[q] = IF q = h THEN "free" ELSE IF q = m THEN "mbuf" ELSE npage[q]
      /\ intr.st # "wake" \/ UNCHANGED intr
      /\ intr' \in Handler /\ HandInv'
  <2>1. CASE pg = [npage EXCEPT ![m] = "mbuf"] /\ UNCHANGED intr
    <3>1. h = 0 BY <1>1, <2>1
    <3>2. \A q \in NPages : pg[q] = IF q = m THEN "mbuf" ELSE npage[q] BY <2>1, NetParts
    <3>3. HandInv' BY <2>1, NetParts DEF HandInv
    <3> QED BY <2>1, <3>1, <3>2, <3>3, NetParts
  <2>2. CASE intr.st = "rx" /\ pg = [npage EXCEPT ![m] = "mbuf", ![intr.m] = "free"] /\ Back
    <3>1. intr' = [st |-> "recv", m |-> 0, f |-> NoRxFrame, so |-> 0] BY <2>2 DEF Back, Quiet
    <3>2. intr.m \in NPages /\ intr.m # 0 /\ npage[intr.m] = "mbuf" /\ HeldAt(intr.m, "hand", 0, 0)
      BY <2>2, HandIs
    <3>3. h = intr.m /\ intr'.m = 0 BY <1>1, <3>1, <3>2
    <3>4. h # m /\ h # 0 /\ npage[h] = "mbuf" /\ HeldAt(h, "hand", 0, 0) BY <3>2, <3>3
    <3>5. \A q \in NPages : pg[q] = IF q = h THEN "free" ELSE IF q = m THEN "mbuf" ELSE npage[q]
      BY <2>2, <3>2, <3>3, NetParts
    <3>6. intr' \in Handler /\ HandInv' BY <3>1 DEF Handler, HandInv, NoRxFrame, NetFrame
    <3> QED BY <2>2, <3>3, <3>4, <3>5, <3>6
  <2> QED BY <2>1, <2>2
<1>3. \A k \in Holding, s, i \in Nat : ~Holds(m, k, s, i) BY NetParts DEF MbufInv, MbufAt
<1>h. {"tx", "hand"} \subseteq Holding /\ 0 \in Nat /\ tdt \in Nat BY NetParts DEF Holding, TxSlot
\* What the pages and places are afterwards: o is the mbuf the descriptor had.
<1>4. \E o \in NPages \cup {0}, x \in BOOLEAN :
        /\ o # m
        /\ o # 0 => npage[o] = "mbuf"
        /\ \A q \in NPages : npage'[q] = IF q \in {o, h} THEN "free"
                                         ELSE IF q = m /\ x THEN "mbuf" ELSE npage[q]
        /\ \A q \in NPages, k \in Holding, s, i \in Nat :
              Holds(q, k, s, i)' <=>
                \/ x /\ q = m /\ k = "tx" /\ s = 0 /\ i = tdt
                \/ Holds(q, k, s, i) /\ q # o /\ q # h
        /\ npage' \in [NPages -> {"free", "sock", "mbuf", "leaked"}]
        /\ txMbuf' \in [TxSlot -> NPages \cup {0}] /\ tdt' \in TxSlot /\ txDone' = txDone /\ tdh' = tdh
  <2>0. /\ pg \in [NPages -> {"free", "sock", "mbuf", "leaked"}]
        /\ \A q \in NPages : q # 0
    BY NetParts
  <2>1. CASE ~txDone[tdt]
    <3>1. npage' = [pg EXCEPT ![m] = "free"] /\ UNCHANGED txVars BY <2>1 DEF Transmit
    <3>2. \A q \in NPages : npage'[q] = IF q = h THEN "free" ELSE npage[q] BY <1>2, <2>0, <3>1
    <3>3. \A q \in NPages, k \in Holding, s, i \in Nat :
            Holds(q, k, s, i)' <=> Holds(q, k, s, i) /\ q # h
      <4> TAKE q \in NPages, k \in Holding, s \in Nat, i \in Nat
      <4>1. CASE k = "hand" BY <1>1, <1>2, <2>0, <4>1 DEF Holds
      <4>2. CASE k # "hand"
        <5>1. Holds(q, k, s, i)' <=> Holds(q, k, s, i) BY <3>1, <4>2 DEF Holds
        <5>2. Holds(q, k, s, i) => q # h BY <1>2, <2>0, <4>2 DEF HeldAt
        <5> QED BY <5>1, <5>2
      <4> QED BY <4>1, <4>2
    <3>4. npage' \in [NPages -> {"free", "sock", "mbuf", "leaked"}] BY <2>0, <3>1
    <3>5. /\ \A q \in NPages : npage'[q] = IF q \in {0, h} THEN "free"
                                           ELSE IF q = m /\ FALSE THEN "mbuf" ELSE npage[q]
          /\ \A q \in NPages, k \in Holding, s, i \in Nat :
                Holds(q, k, s, i)' <=>
                  \/ FALSE /\ q = m /\ k = "tx" /\ s = 0 /\ i = tdt
                  \/ Holds(q, k, s, i) /\ q # 0 /\ q # h
      BY <2>0, <3>2, <3>3
    <3>7. 0 # m BY <2>0
    <3>6. 0 \in NPages \cup {0} /\ FALSE \in BOOLEAN /\ UNCHANGED <<txMbuf, tdt, txDone, tdh>> BY <3>1
    <3> QED BY <3>4, <3>5, <3>6, <3>7, NetParts
  <2>2. CASE txDone[tdt]
    <3>1. PICK o \in NPages \cup {0} : o = txMbuf[tdt] BY NetParts
    <3>2. /\ npage' = [q \in NPages |-> IF q = o THEN "free" ELSE pg[q]]
          /\ txMbuf' = [txMbuf EXCEPT ![tdt] = m] /\ tdt' = (tdt + 1) % TX_RING_SIZE
          /\ UNCHANGED <<txDone, tdh>>
      BY <2>2, <3>1 DEF Transmit
    <3>3. o # 0 => npage[o] = "mbuf" /\ HeldAt(o, "tx", 0, tdt)
      <4> SUFFICES ASSUME o # 0 PROVE npage[o] = "mbuf" /\ HeldAt(o, "tx", 0, tdt) OBVIOUS
      <4>1. Holds(o, "tx", 0, tdt) BY <3>1, NetParts DEF Holds
      <4> QED BY <1>h, <4>1, HeldOnce, NetParts DEF MbufInv
    <3>4. o # m
      <4>1. CASE o = 0 BY <2>0, <4>1
      <4>2. CASE o # 0 BY <3>3, <4>2
      <4> QED BY <4>1, <4>2
    <3>5. o # 0 => o # h
      <4> SUFFICES ASSUME o # 0, o = h PROVE FALSE OBVIOUS
      <4>1. HeldAt(o, "tx", 0, tdt) /\ HeldAt(o, "hand", 0, 0) BY <1>2, <3>3
      <4>2. Holds(o, "hand", 0, 0) BY <1>h, <4>1 DEF HeldAt
      <4> QED BY <1>h, <4>1, <4>2 DEF HeldAt
    <3>6. \A q \in NPages : npage'[q] = IF q \in {o, h} THEN "free" ELSE IF q = m /\ TRUE THEN "mbuf" ELSE npage[q]
      BY <1>2, <3>2
    <3>7. \A q \in NPages, k \in Holding, s, i \in Nat :
            Holds(q, k, s, i)' <=>
              \/ TRUE /\ q = m /\ k = "tx" /\ s = 0 /\ i = tdt
              \/ Holds(q, k, s, i) /\ q # o /\ q # h
      <4> TAKE q \in NPages, k \in Holding, s \in Nat, i \in Nat
      <4>1. q = o => (Holds(q, k, s, i) <=> k = "tx" /\ s = 0 /\ i = tdt) BY <2>0, <3>3 DEF HeldAt
      <4>2. q = h => (Holds(q, k, s, i) <=> k = "hand" /\ s = 0 /\ i = 0) BY <1>2, <2>0 DEF HeldAt
      <4>3. CASE k = "hand" BY <1>1, <1>2, <2>0, <4>1, <4>3 DEF Holds
      <4>4. CASE k = "tx"
        <5>1. \A j \in TxSlot : txMbuf'[j] = IF j = tdt THEN m ELSE txMbuf[j] BY <3>2, NetParts
        <5>2. Holds(q, k, s, i)' <=> s = 0 /\ i \in TxSlot /\ txMbuf'[i] = q BY <4>4 DEF Holds
        <5>3. Holds(q, k, s, i) <=> s = 0 /\ i \in TxSlot /\ txMbuf[i] = q BY <4>4 DEF Holds
        <5>4. CASE i = tdt BY <3>1, <4>4, <5>1, <5>2, <5>3, <5>4, NetParts
        <5>5. CASE i # tdt BY <4>1, <4>2, <4>4, <5>1, <5>2, <5>3, <5>5
        <5> QED BY <5>4, <5>5
      <4>5. CASE k \in {"rx", "queue"}
        <5>1. Holds(q, k, s, i)' <=> Holds(q, k, s, i) BY <4>5 DEF Holds
        <5> QED BY <4>1, <4>2, <4>5, <5>1
      <4> QED BY <4>3, <4>4, <4>5 DEF Holding
    <3>8. /\ npage' \in [NPages -> {"free", "sock", "mbuf", "leaked"}]
          /\ txMbuf' \in [TxSlot -> NPages \cup {0}]
      BY <2>0, <3>2, NetParts
    <3>9. tdt' \in TxSlot
      <4>1. TX_RING_SIZE \in Nat \ {0} BY DEF NetAssumption
      <4> QED BY <3>2, <4>1, ModInc, NetParts DEF TxSlot
    <3>10. TRUE \in BOOLEAN OBVIOUS
    <3> QED BY <3>2, <3>3, <3>4, <3>5, <3>6, <3>7, <3>8, <3>9, <3>10
  <2> QED BY <2>1, <2>2
<1>5. PICK o \in NPages \cup {0}, x \in BOOLEAN :
        /\ o # m
        /\ o # 0 => npage[o] = "mbuf"
        /\ \A q \in NPages : npage'[q] = IF q \in {o, h} THEN "free"
                                         ELSE IF q = m /\ x THEN "mbuf" ELSE npage[q]
        /\ \A q \in NPages, k \in Holding, s, i \in Nat :
              Holds(q, k, s, i)' <=>
                \/ x /\ q = m /\ k = "tx" /\ s = 0 /\ i = tdt
                \/ Holds(q, k, s, i) /\ q # o /\ q # h
        /\ npage' \in [NPages -> {"free", "sock", "mbuf", "leaked"}]
        /\ txMbuf' \in [TxSlot -> NPages \cup {0}] /\ tdt' \in TxSlot /\ txDone' = txDone /\ tdh' = tdh
  BY <1>4
<1>6. MbufInv'
  <2> SUFFICES ASSUME NEW q \in NPages PROVE MbufAt(q)' BY DEF MbufInv
  <2>1. CASE q \in {o, h}
    <3>1. q # m BY <1>2, <1>5, <2>1
    <3> QED BY <1>5, <2>1, <3>1 DEF MbufAt
  <2>2. CASE q \notin {o, h} /\ q = m /\ x
    <3>1. PICK i \in Nat : i = tdt BY <1>h
    <3>2. HeldAt(q, "tx", 0, i)' BY <1>3, <1>5, <2>2, <3>1 DEF HeldAt
    <3>3. npage'[q] = "mbuf" BY <1>5, <2>2
    <3> QED BY <1>h, <3>2, <3>3, PlacedIs
  <2>3. CASE q \notin {o, h} /\ ~(q = m /\ x)
    <3>1. npage'[q] = npage[q] BY <1>5, <2>3
    <3>2. \A k \in Holding, s, i \in Nat : Holds(q, k, s, i)' <=> Holds(q, k, s, i) BY <1>5, <2>3
    <3> QED BY <3>1, <3>2, NetParts, SameStep DEF Same, MbufInv
  <2> QED BY <2>1, <2>2, <2>3
<1>7. NetTypes' BY <1>2, <1>5, NetParts DEF NetTypes
<1>8. SockInv' /\ NoSleepOnPacket'
  <2>1. \A q \in NPages : npage'[q] = "sock" <=> npage[q] = "sock" BY <1>2, <1>5, NetParts
  <2> QED BY <1>2, <2>1, QuietTable
<1> QED BY <1>2, <1>6, <1>7, <1>8 DEF NetInv

-----------------------------------------------------------------------------
(* The initial state, every step, and the theorems about Net.               *)
\* sockwrite() sends an mbuf, net_rx_arp() answers with one.
LEMMA SockWriteStep == ASSUME NetAssumption, NetInv, NEW p \in NetProc, SockWrite(p) PROVE NetInv'
<1>1. PICK m \in NPages : m = Kalloc(npage) /\ npage[m] = "free" BY KallocIs DEF SockWrite
<1>2. Transmit([npage EXCEPT ![m] = "mbuf"], m) BY <1>1 DEF SockWrite
<1>3. UNCHANGED <<tableVars, npc, rxVars, nframe, intr>> BY DEF SockWrite
<1> QED BY <1>1, <1>2, <1>3, TransmitStep

\* The answer to an ARP request.
LEMMA RxArpStep == ASSUME NetAssumption, NetInv, RxArp PROVE NetInv'
<1>1. intr.st = "rx" /\ Back /\ UNCHANGED <<tableVars, npc, rxVars, nframe>> BY DEF RxArp
<1>2. CASE FreePages(npage) = {}
  <2>1. npage' = [npage EXCEPT ![intr.m] = "free"] /\ UNCHANGED txVars BY <1>2 DEF RxArp
  <2> QED BY <1>1, <2>1, HandFreed
<1>3. CASE FreePages(npage) # {}
  <2>1. PICK m \in NPages : m = Kalloc(npage) /\ npage[m] = "free" BY <1>3, KallocIs
  <2>2. Transmit([npage EXCEPT ![m] = "mbuf", ![intr.m] = "free"], m) BY <1>3, <2>1 DEF RxArp
  <2> QED BY <1>1, <2>1, <2>2, TransmitStep
<1> QED BY <1>2, <1>3

\* Initially the driver has the first pages.
LEMMA NetInitInv == NetAssumption /\ NetInit => NetInv
<1> SUFFICES ASSUME NetAssumption, NetInit PROVE NetInv OBVIOUS
<1>0. /\ NPage \in Nat /\ RX_RING_SIZE \in Nat /\ TX_RING_SIZE \in Nat
      /\ 2 <= RX_RING_SIZE /\ RX_RING_SIZE <= NPage /\ 1 <= TX_RING_SIZE
  BY DEF NetAssumption
<1>1. /\ npage = [q \in NPages |-> IF q <= RX_RING_SIZE THEN "mbuf" ELSE "free"]
      /\ sock = [q \in NPages |-> NoSock] /\ sockets = 0
      /\ nfd = [p \in NetProc |-> 0] /\ npc = [p \in NetProc |-> "idle"]
      /\ rxMbuf = [i \in RxSlot |-> i + 1] /\ rxFrame = [i \in RxSlot |-> NoRxFrame]
      /\ rdh = 0 /\ rdt = RX_RING_SIZE - 1 /\ intr = [st |-> "off", m |-> 0, f |-> NoRxFrame, so |-> 0]
      /\ txMbuf = [i \in TxSlot |-> 0] /\ txDone = [i \in TxSlot |-> TRUE]
      /\ tdh = 0 /\ tdt = 0 /\ nframe = 0
  BY DEF NetInit, Quiet
<1>2. /\ NoSock \in SockValue /\ NoSock.rxq = <<>> /\ Len(<<>>) = 0 /\ NoRxFrame \in NetFrame
      /\ 0 \in RxSlot /\ RX_RING_SIZE - 1 \in RxSlot /\ 0 \in TxSlot
      /\ \A i \in RxSlot : i + 1 \in NPages
      /\ \A q \in NPages : q # 0
  BY <1>0 DEF NoSock, SockValue, NoRxFrame, NetFrame, RxSlot, TxSlot, NPages
<1>3. intr \in Handler BY <1>1, <1>2 DEF Handler
<1>4. NetTypes
  <2>1. txDone \in [TxSlot -> BOOLEAN] BY <1>1, Zenon
  <2>2. rxMbuf \in [RxSlot -> NPages] BY <1>1, <1>2
  <2>3. sock \in [NPages -> SockValue] BY <1>1, <1>2
  <2>4. rxFrame \in [RxSlot -> NetFrame] BY <1>1, <1>2
  <2> QED BY <1>1, <1>2, <1>3, <2>1, <2>2, <2>3, <2>4 DEF NetTypes
<1>5. ASSUME NEW q \in NPages, NEW k \in Holding, NEW s \in Nat, NEW i \in Nat
      PROVE  Holds(q, k, s, i) <=> k = "rx" /\ s = 0 /\ i = q - 1 /\ q <= RX_RING_SIZE
  <2>1. CASE k = "rx"
    <3>1. Holds(q, k, s, i) <=> s = 0 /\ i \in RxSlot /\ i + 1 = q BY <1>1, <2>1 DEF Holds
    <3>2. i \in RxSlot /\ i + 1 = q <=> i = q - 1 /\ q <= RX_RING_SIZE BY <1>0 DEF RxSlot, NPages
    <3> QED BY <2>1, <3>1, <3>2
  <2>2. CASE k \in {"tx", "hand"} BY <1>1, <1>2, <2>2 DEF Holds
  <2>3. CASE k = "queue"
    <3>1. \A t \in NPages : Len(sock[t].rxq) = 0 BY <1>1, <1>2
    <3>2. \A t \in NPages : i \notin 1..Len(sock[t].rxq) BY <3>1
    <3> QED BY <2>3, <3>2 DEF Holds
  <2> QED BY <2>1, <2>2, <2>3 DEF Holding
<1>6. MbufInv
  <2> SUFFICES ASSUME NEW q \in NPages PROVE MbufAt(q) BY DEF MbufInv
  <2>1. npage[q] = "mbuf" <=> q <= RX_RING_SIZE BY <1>1
  <2>2. CASE q <= RX_RING_SIZE
    <3>1. PICK j \in Nat : j = q - 1 BY DEF NPages
    <3>2. HeldAt(q, "rx", 0, j) BY <1>5, <2>2, <3>1 DEF HeldAt
    <3>3. "rx" \in Holding /\ 0 \in Nat BY DEF Holding
    <3> QED BY <2>1, <2>2, <3>2, <3>3 DEF MbufAt
  <2>3. CASE ~(q <= RX_RING_SIZE) BY <1>5, <2>1, <2>3 DEF MbufAt
  <2> QED BY <2>2, <2>3
<1>7. SockInv BY <1>1, <1>2 DEF SockInv
<1>8. HandInv /\ NoSleepOnPacket BY <1>1 DEF HandInv, NoSleepOnPacket
<1> QED BY <1>4, <1>6, <1>7, <1>8 DEF NetInv

\* Every step preserves the invariant, action by action.
LEMMA NetNextInv == NetAssumption /\ NetInv /\ [NetNext]_netVars => NetInv'
<1> SUFFICES ASSUME NetAssumption, NetInv, [NetNext]_netVars PROVE NetInv' OBVIOUS
<1>1. CASE UNCHANGED netVars
  <2>0. UNCHANGED <<npage, sock, sockets, nfd, npc, rxMbuf, rxFrame, rdh, rdt, intr, txMbuf, txDone,
                    tdh, tdt, nframe>>
    BY <1>1 DEF netVars
  <2>1. NetTypes' BY <2>0, NetParts DEF NetTypes
  <2>2. MbufInv' BY <2>0, QuietMbufs
  <2>3. SockInv' /\ NoSleepOnPacket' BY <2>0, QuietTable
  <2>4. HandInv' BY <2>0, NetParts DEF HandInv
  <2> QED BY <2>1, <2>2, <2>3, <2>4 DEF NetInv
<1>2. ASSUME NEW p \in NetProc, UserStep(p) PROVE NetInv'
  <2>1. CASE \E c \in Conn : SockAlloc(p, c) BY <2>1, SockAllocStep
  <2>2. CASE \E q \in NetProc : SockShare(p, q) BY <2>2, SockShareStep
  <2>3. CASE SockClose(p) BY <2>3, SockCloseStep
  <2>4. CASE SockReadCall(p) BY <2>4, SockReadCallStep
  <2>5. CASE SockWrite(p) BY <2>5, SockWriteStep
  <2>6. CASE SockWriteFails(p) BY <2>6, HaltStep DEF SockWriteFails
  <2> QED BY <1>2, <2>1, <2>2, <2>3, <2>4, <2>5, <2>6 DEF UserStep
<1>3. ASSUME NEW p \in NetProc, KernelStep(p) PROVE NetInv'
  <2>1. CASE SockInsert(p) BY <2>1, SockInsertStep
  <2>2. CASE SockInsertFails(p) \/ SockUnlinkFails(p)
    BY <2>2, HaltStep DEF SockInsertFails, SockUnlinkFails
  <2>3. CASE SockUnlink(p) BY <2>3, SockUnlinkStep
  <2>4. CASE SockFree(p) BY <2>4, SockFreeStep
  <2>5. CASE SockReadSleeps(p) BY <2>5, SockReadCallStep
  <2>6. CASE SockReadTakes(p) BY <2>6, SockReadTakesStep
  <2> QED BY <1>3, <2>1, <2>2, <2>3, <2>4, <2>5, <2>6 DEF KernelStep
<1>4. CASE IntrStep
  <2>1. CASE IntrEnter \/ RecvNone \/ IntrAck \/ RxUdp \/ RecvFinds BY <2>1, IntrQuietStep
  <2>2. CASE RecvTake BY <2>2, RecvTakeStep
  <2>3. CASE RecvPanics \/ RecvFreedSock BY <2>3, HaltStep DEF RecvPanics, RecvFreedSock
  <2>4. CASE RxDrop \/ RecvNoSock BY <2>4, RxDropStep
  <2>5. CASE RxArp BY <2>5, RxArpStep
  <2>6. CASE RecvPush BY <2>6, RecvPushStep
  <2>7. CASE RecvWake BY <2>7, RecvWakeStep
  <2> QED BY <1>4, <2>1, <2>2, <2>3, <2>4, <2>5, <2>6, <2>7 DEF IntrStep
<1>5. CASE DeviceSends \/ \E to \in Conn \union {"arp", "bad"} : DeviceReceives(to)
  <2>1. "arp" \in Conn \union {"arp", "bad"} OBVIOUS
  <2> QED BY <1>5, <2>1, DeviceStep
<1> QED BY <1>1, <1>2, <1>3, <1>4, <1>5 DEF NetNext

\* NetInv is an invariant of Net, for any number of processes, connections and
\* pages, and rings of any size.
THEOREM NetInvariant == NetSpec => []NetInv
<1>1. NetInit => NetInv BY NetAssumption, NetInitInv
<1>2. NetInv /\ [NetNext]_netVars => NetInv' BY NetAssumption, NetNextInv
<1> QED BY <1>1, <1>2, PTL DEF NetSpec

\* Every mbuf in use is in one place, and no place has a page that is none
\* (e1000_recv(), e1000_transmit(), sockrecvudp(), sockread(), mbuffree()).
THEOREM NetMbufOwnedOnce == NetSpec => []MbufOwnedOnce
<1>1. ASSUME NetInv PROVE MbufOwnedOnce
  <2> SUFFICES ASSUME NEW q \in NPages PROVE Holders(q) = (IF npage[q] = "mbuf" THEN 1 ELSE 0)
    BY DEF MbufOwnedOnce
  <2> DEFINE R == {i \in RxSlot : rxMbuf[i] = q}
             T == {i \in TxSlot : txMbuf[i] = q}
             H == IF intr.m = q THEN 1 ELSE 0
             U == UNION {{<<s, k>> : k \in {i \in DOMAIN sock[s].rxq : sock[s].rxq[i].m = q}} : s \in NPages}
  <2>0. Holders(q) = Cardinality(R) + Cardinality(T) + H + Cardinality(U) BY DEF Holders
  <2>1. "rx" \in Holding /\ "tx" \in Holding /\ "hand" \in Holding /\ "queue" \in Holding /\ 0 \in Nat
    BY DEF Holding
  <2>2. \A i : i \in R <=> i \in Nat /\ Holds(q, "rx", 0, i) BY DEF Holds, RxSlot
  <2>3. \A i : i \in T <=> i \in Nat /\ Holds(q, "tx", 0, i) BY DEF Holds, TxSlot
  <2>4. H = IF Holds(q, "hand", 0, 0) THEN 1 ELSE 0 BY DEF Holds
  <2>5. \A x : x \in U <=> \E s, k \in Nat : x = <<s, k>> /\ Holds(q, "queue", s, k)
    <3>1. \A s \in NPages : DOMAIN sock[s].rxq = 1..Len(sock[s].rxq) /\ s \in Nat
      BY <1>1, NetParts DEF NPages
    <3>2. \A x : x \in U <=> \E s \in NPages : \E k \in 1..Len(sock[s].rxq) :
                                sock[s].rxq[k].m = q /\ x = <<s, k>>
      BY <3>1
    <3>3. \A s \in NPages : \A k \in 1..Len(sock[s].rxq) : k \in Nat OBVIOUS
    <3> HIDE DEF U
    <3> QED BY <3>1, <3>2, <3>3 DEF Holds
  <2>6. MbufAt(q) BY <1>1, NetParts DEF MbufInv
  <2>7. Cardinality({}) = 0 /\ \A x : Cardinality({x}) = 1 BY FS_EmptySet, FS_Singleton
  <2> HIDE DEF R, T, H, U
  <2>8. CASE npage[q] # "mbuf"
    <3>1. \A k \in Holding, s, i \in Nat : ~Holds(q, k, s, i) BY <2>6, <2>8 DEF MbufAt
    <3>2. R = {} /\ T = {} /\ U = {} /\ H = 0 BY <2>1, <2>2, <2>3, <2>4, <2>5, <3>1
    <3> QED BY <2>0, <2>7, <2>8, <3>2
  <2>9. CASE npage[q] = "mbuf"
    <3>1. PICK k0 \in Holding, s0 \in Nat, i0 \in Nat : HeldAt(q, k0, s0, i0) BY <2>6, <2>9 DEF MbufAt
    <3>2. \A l \in Holding, t, j \in Nat : Holds(q, l, t, j) <=> l = k0 /\ t = s0 /\ j = i0
      BY <3>1 DEF HeldAt
    <3>3. CASE k0 = "rx"
      <4>1. s0 = 0 BY <2>1, <3>2, <3>3 DEF Holds
      <4>2. R = {i0} BY <2>1, <2>2, <3>2, <3>3, <4>1
      <4>3. T = {} /\ U = {} /\ H = 0 BY <2>1, <2>3, <2>4, <2>5, <3>2, <3>3
      <4>4. Cardinality(R) = 1 /\ Cardinality(T) = 0 /\ Cardinality(U) = 0 BY <2>7, <4>2, <4>3
      <4> QED BY <2>0, <2>9, <4>3, <4>4
    <3>4. CASE k0 = "tx"
      <4>1. s0 = 0 BY <2>1, <3>2, <3>4 DEF Holds
      <4>2. T = {i0} BY <2>1, <2>3, <3>2, <3>4, <4>1
      <4>3. R = {} /\ U = {} /\ H = 0 BY <2>1, <2>2, <2>4, <2>5, <3>2, <3>4
      <4>4. Cardinality(R) = 0 /\ Cardinality(T) = 1 /\ Cardinality(U) = 0 BY <2>7, <4>2, <4>3
      <4> QED BY <2>0, <2>9, <4>3, <4>4
    <3>5. CASE k0 = "hand"
      <4>1. s0 = 0 /\ i0 = 0 BY <2>1, <3>2, <3>5 DEF Holds
      <4>2. H = 1 BY <2>1, <2>4, <3>2, <3>5, <4>1
      <4>3. R = {} /\ T = {} /\ U = {} BY <2>1, <2>2, <2>3, <2>5, <3>2, <3>5
      <4> QED BY <2>0, <2>7, <2>9, <4>2, <4>3
    <3>6. CASE k0 = "queue"
      <4>1. U = {<<s0, i0>>}
        <5>1. \A x : x \in U <=> x = <<s0, i0>> BY <2>1, <2>5, <3>2, <3>6
        <5> QED BY <5>1
      <4>2. R = {} /\ T = {} /\ H = 0 BY <2>1, <2>2, <2>3, <2>4, <3>2, <3>6
      <4>3. Cardinality(R) = 0 /\ Cardinality(T) = 0 /\ Cardinality(U) = 1 BY <2>7, <4>1, <4>2
      <4> QED BY <2>0, <2>9, <4>2, <4>3
    <3> QED BY <3>3, <3>4, <3>5, <3>6 DEF Holding
  <2> QED BY <2>8, <2>9
<1> QED BY <1>1, NetInvariant, PTL

\* No process stays asleep in sockread() while a packet is queued on its socket:
\* sockrecvudp() queues it and then wakes whoever sleeps.
THEOREM NetNoSleepOnPacket == NetSpec => []NoSleepOnPacket
<1>1. NetInv => NoSleepOnPacket BY DEF NetInv
<1> QED BY <1>1, NetInvariant, PTL

\* Pages, rings and processes have the values the code allows, and an open socket
\* is allocated (sockalloc(), sockclose()).
THEOREM NetTypeCorrect == NetSpec => []NetTypeOK
<1>1. NetInv => NetTypeOK BY DEF NetInv, NetTypes, SockInv, NetTypeOK
<1> QED BY <1>1, NetInvariant, PTL

-----------------------------------------------------------------------------
(* Where the pointers of Bmap are, and the invariant of pointers and blocks.*)
Idx == 0..NINDIRECT - 1
Addr == BlockNo \cup {0}

\* The places of a file's pointers: k is "dir" for ip->addrs[i], "ind" for entry i of
\* the indirect block, "dbl" for entry i of the double-indirect block, "lev" for
\* entry j of the block that entry i of the latter points to.
IsPlace(k, i, j) ==
    \/ k = "dir" /\ i \in 0..NDIRECT + 1 /\ j = 0
    \/ k \in {"ind", "dbl"} /\ i \in Idx /\ j = 0
    \/ k = "lev" /\ i \in Idx /\ j \in Idx

\* The block that holds pointer i, j of kind k of file f, with the pointers A of the
\* inodes and the contents B of the blocks; and the pointer itself.
Holder(A, B, f, k, i) ==
    IF k = "ind" THEN A[f][NDIRECT]
    ELSE IF k = "dbl" \/ A[f][NDIRECT + 1] = 0 THEN A[f][NDIRECT + 1]
    ELSE B[A[f][NDIRECT + 1]][i]

Entry(k, i, j) == IF k = "lev" THEN j ELSE i

Ptr(A, B, f, k, i, j) ==
    IF k = "dir" THEN A[f][i]
    ELSE IF Holder(A, B, f, k, i) = 0 THEN 0 ELSE B[Holder(A, B, f, k, i)][Entry(k, i, j)]

Inodes == [File -> [0..NDIRECT + 1 -> Addr]]
Blocks == [BlockNo -> [Cells -> Nat]]

\* A pointer leads to a block that U marks in use, and to a block of its own.
Sound(U, A, B) ==
    /\ \A f \in File : \A k, i, j : IsPlace(k, i, j) /\ Ptr(A, B, f, k, i, j) # 0 =>
          Ptr(A, B, f, k, i, j) \in U
    /\ \A f, g \in File : \A k, i, j, l, m, n :
          /\ IsPlace(k, i, j) /\ IsPlace(l, m, n)
          /\ Ptr(A, B, f, k, i, j) # 0 /\ Ptr(A, B, f, k, i, j) = Ptr(A, B, g, l, m, n)
          => f = g /\ k = l /\ i = m /\ j = n

\* The sizes are numbers, and 0 is no block.
LEMMA BmapNumbers ==
    /\ NBlocks \in Nat /\ BSIZE \in Nat /\ NDIRECT \in Nat /\ NINDIRECT \in Nat /\ MaxOpBlocks \in Nat
    /\ NBlocks >= 1 /\ BSIZE >= 1 /\ NDIRECT >= 1 /\ NINDIRECT >= 1 /\ MaxOpBlocks >= 6
    /\ 0 \notin BlockNo /\ NDIRECT \in 0..NDIRECT + 1 /\ NDIRECT + 1 \in 0..NDIRECT + 1
    /\ NDIRECT # NDIRECT + 1
    /\ \A i \in Idx : i \in Cells
    /\ \A i \in 0..BSIZE - 1 : i \in Cells
    /\ \A b \in BlockNo : b \in Nat
<1>1. /\ NBlocks \in Nat \ {0} /\ BSIZE \in Nat \ {0} /\ NDIRECT \in Nat \ {0} /\ NINDIRECT \in Nat \ {0}
      /\ MaxOpBlocks \in Nat /\ MaxOpBlocks >= 6
  BY BmapAssumption
<1> QED BY <1>1 DEF BlockNo, Idx, Cells

\* The holder of a pointer is where another pointer leads.
LEMMA HolderIs ==
    ASSUME NEW A, NEW B, NEW f \in File, NEW k, NEW i, NEW j, IsPlace(k, i, j), k # "dir",
           Holder(A, B, f, k, i) # 0
    PROVE  \E l, m : /\ IsPlace(l, m, 0) /\ Ptr(A, B, f, l, m, 0) = Holder(A, B, f, k, i)
                     /\ k = "ind" => l = "dir" /\ m = NDIRECT
                     /\ k = "dbl" => l = "dir" /\ m = NDIRECT + 1
                     /\ k = "lev" => l = "dbl" /\ m = i
<1>1. CASE k = "ind"
  <2>1. IsPlace("dir", NDIRECT, 0) /\ Ptr(A, B, f, "dir", NDIRECT, 0) = Holder(A, B, f, k, i)
    BY <1>1, BmapNumbers DEF IsPlace, Ptr, Holder
  <2> QED BY <1>1, <2>1
<1>2. CASE k = "dbl"
  <2>1. IsPlace("dir", NDIRECT + 1, 0) /\ Ptr(A, B, f, "dir", NDIRECT + 1, 0) = Holder(A, B, f, k, i)
    BY <1>2, BmapNumbers DEF IsPlace, Ptr, Holder
  <2> QED BY <1>2, <2>1
<1>3. CASE k = "lev"
  <2>1. IsPlace("dbl", i, 0) BY <1>3 DEF IsPlace
  <2>2. A[f][NDIRECT + 1] # 0 /\ Holder(A, B, f, k, i) = B[A[f][NDIRECT + 1]][i]
    BY <1>3 DEF Holder
  <2>3. Ptr(A, B, f, "dbl", i, 0) = B[A[f][NDIRECT + 1]][i]
    BY <2>2 DEF Ptr, Holder, Entry
  <2> QED BY <1>3, <2>1, <2>2, <2>3
<1> QED BY <1>1, <1>2, <1>3 DEF IsPlace

\* So it is in use, it holds the pointers of one file and one kind, and it is no block
\* of data.
LEMMA HolderOnce ==
    ASSUME NEW U, NEW A, NEW B, Sound(U, A, B),
           NEW f \in File, NEW k, NEW i, NEW j, IsPlace(k, i, j), k # "dir", Holder(A, B, f, k, i) # 0
    PROVE  /\ Holder(A, B, f, k, i) \in U
           /\ \A g \in File : \A l, m, n : 
                 IsPlace(l, m, n) /\ l # "dir" /\ Holder(A, B, g, l, m) = Holder(A, B, f, k, i)
                 => g = f /\ l = k /\ (k = "lev" => m = i)
           /\ \A g \in File : \A l, m, n :
                 IsPlace(l, m, n) /\ Ptr(A, B, g, l, m, n) = Holder(A, B, f, k, i)
                 => g = f /\ ((l = "dir" /\ m \in {NDIRECT, NDIRECT + 1}) \/ l = "dbl")
<1>1. PICK l1, m1 : /\ IsPlace(l1, m1, 0) /\ Ptr(A, B, f, l1, m1, 0) = Holder(A, B, f, k, i)
                    /\ k = "ind" => l1 = "dir" /\ m1 = NDIRECT
                    /\ k = "dbl" => l1 = "dir" /\ m1 = NDIRECT + 1
                    /\ k = "lev" => l1 = "dbl" /\ m1 = i
  BY HolderIs
<1>k. k \in {"ind", "dbl", "lev"} BY DEF IsPlace
<1>2. Holder(A, B, f, k, i) \in U BY <1>1 DEF Sound
<1>3. ASSUME NEW g \in File, NEW l, NEW m, NEW n, IsPlace(l, m, n), l # "dir",
             Holder(A, B, g, l, m) = Holder(A, B, f, k, i)
      PROVE  g = f /\ l = k /\ (k = "lev" => m = i)
  <2>1. PICK l2, m2 : /\ IsPlace(l2, m2, 0) /\ Ptr(A, B, g, l2, m2, 0) = Holder(A, B, g, l, m)
                      /\ l = "ind" => l2 = "dir" /\ m2 = NDIRECT
                      /\ l = "dbl" => l2 = "dir" /\ m2 = NDIRECT + 1
                      /\ l = "lev" => l2 = "dbl" /\ m2 = m
    BY <1>3, HolderIs
  <2>2. g = f /\ l1 = l2 /\ m1 = m2 BY <1>1, <1>3, <2>1 DEF Sound
  <2>3. l \in {"ind", "dbl", "lev"} BY <1>3 DEF IsPlace
  <2>4. NDIRECT # NDIRECT + 1 BY BmapNumbers
  <2> QED BY <1>1, <1>k, <2>1, <2>2, <2>3, <2>4
<1>4. ASSUME NEW g \in File, NEW l, NEW m, NEW n, IsPlace(l, m, n),
             Ptr(A, B, g, l, m, n) = Holder(A, B, f, k, i)
      PROVE  g = f /\ ((l = "dir" /\ m \in {NDIRECT, NDIRECT + 1}) \/ l = "dbl")
  <2>1. g = f /\ l = l1 /\ m = m1 BY <1>1, <1>4 DEF Sound
  <2> QED BY <1>1, <1>k, <2>1
<1> QED BY <1>2, <1>3, <1>4

-----------------------------------------------------------------------------
(* From one set of pointers to another.                                     *)
\* The place of the pointer to the holder.
Up(k) == IF k = "lev" THEN "dbl" ELSE "dir"
UpIdx(k, i) == IF k = "ind" THEN NDIRECT ELSE IF k = "dbl" THEN NDIRECT + 1 ELSE i

\* A pointer that is not in the inode is an entry of the block another one leads to.
LEMMA PtrUp ==
    ASSUME NEW A, NEW B, NEW f \in File, NEW k, NEW i, NEW j, IsPlace(k, i, j), k # "dir"
    PROVE  /\ IsPlace(Up(k), UpIdx(k, i), 0) /\ Up(k) \in {"dir", "dbl"}
           /\ Up(k) = "dir" => UpIdx(k, i) \in {NDIRECT, NDIRECT + 1}
           /\ Holder(A, B, f, k, i) = Ptr(A, B, f, Up(k), UpIdx(k, i), 0)
           /\ Ptr(A, B, f, k, i, j) =
                IF Holder(A, B, f, k, i) = 0 THEN 0 ELSE B[Holder(A, B, f, k, i)][Entry(k, i, j)]
           /\ Entry(k, i, j) \in Idx
<1>1. CASE k = "ind"
  BY <1>1, BmapNumbers DEF IsPlace, Ptr, Holder, Up, UpIdx, Entry
<1>2. CASE k = "dbl"
  BY <1>2, BmapNumbers DEF IsPlace, Ptr, Holder, Up, UpIdx, Entry
<1>3. CASE k = "lev"
  BY <1>3, BmapNumbers DEF IsPlace, Ptr, Holder, Up, UpIdx, Entry
<1> QED BY <1>1, <1>2, <1>3 DEF IsPlace

\* From A and B to A2 and B2 a pointer stays what it is, or it is the one at i0, j0 of
\* kind k0 of file f0 and becomes b.
Moves(A, B, A2, B2, f0, k0, i0, j0, b, g, k, i, j) ==
    Ptr(A2, B2, g, k, i, j) =
        IF g = f0 /\ k = k0 /\ i = i0 /\ j = j0 THEN b ELSE Ptr(A, B, g, k, i, j)

AllMoves(A, B, A2, B2, f0, k0, i0, j0, b) ==
    \A g \in File : \A k, i, j :
        IsPlace(k, i, j) => Moves(A, B, A2, B2, f0, k0, i0, j0, b, g, k, i, j)

\* That holds of all pointers if it holds of those in inodes, and of every other one when
\* it holds of the one to its holder.
MovesUp(A, B, A2, B2, f0, k0, i0, j0, b) ==
    /\ \A g \in File : \A i : IsPlace("dir", i, 0) =>
          Moves(A, B, A2, B2, f0, k0, i0, j0, b, g, "dir", i, 0)
    /\ \A g \in File : \A k, i, j :
          /\ IsPlace(k, i, j) /\ k # "dir"
          /\ Moves(A, B, A2, B2, f0, k0, i0, j0, b, g, Up(k), UpIdx(k, i), 0)
          => Moves(A, B, A2, B2, f0, k0, i0, j0, b, g, k, i, j)

\* What MovesUp says of levels AllMoves says of all pointers.
LEMMA PtrLevels ==
    ASSUME NEW A, NEW B, NEW A2, NEW B2, NEW f0, NEW k0, NEW i0, NEW j0, NEW b,
           MovesUp(A, B, A2, B2, f0, k0, i0, j0, b)
    PROVE  AllMoves(A, B, A2, B2, f0, k0, i0, j0, b)
<1> DEFINE P(g, k, i, j) == Moves(A, B, A2, B2, f0, k0, i0, j0, b, g, k, i, j)
<1>1. ASSUME NEW g \in File, NEW i, IsPlace("dir", i, 0) PROVE P(g, "dir", i, 0)
  BY <1>1 DEF MovesUp
<1>2. ASSUME NEW g \in File, NEW k, NEW i, NEW j, IsPlace(k, i, j), k # "dir", P(g, Up(k), UpIdx(k, i), 0)
      PROVE  P(g, k, i, j)
  BY <1>2 DEF MovesUp
<1> HIDE DEF P
<1>3. ASSUME NEW g \in File, NEW k, NEW i, NEW j, IsPlace(k, i, j), k # "dir", Up(k) = "dir"
      PROVE  P(g, k, i, j)
  BY <1>1, <1>2, <1>3, PtrUp
<1>4. ASSUME NEW g \in File, NEW k, NEW i, NEW j, IsPlace(k, i, j), k # "dir", Up(k) = "dbl"
      PROVE  P(g, k, i, j)
  <2>1. IsPlace("dbl", UpIdx(k, i), 0) BY <1>4, PtrUp
  <2>2. P(g, "dbl", UpIdx(k, i), 0) BY <1>3, <2>1 DEF Up
  <2> QED BY <1>2, <1>4, <2>2
<1>5. ASSUME NEW g \in File, NEW k, NEW i, NEW j, IsPlace(k, i, j) PROVE P(g, k, i, j)
  <2>1. CASE k = "dir"
    <3>1. j = 0 BY <1>5, <2>1 DEF IsPlace
    <3> QED BY <1>1, <1>5, <2>1, <3>1
  <2>2. CASE k # "dir"
    <3>1. Up(k) \in {"dir", "dbl"} BY DEF Up
    <3> QED BY <1>3, <1>4, <1>5, <2>2, <3>1
  <2> QED BY <2>1, <2>2
<1> QED BY <1>5 DEF P, AllMoves

\* Pointers and blocks in order.
Good(U, A, B) == U \subseteq BlockNo /\ A \in Inodes /\ B \in Blocks /\ Sound(U, A, B)

\* A place of a pointer to data.
IsData(k, i, j) == IsPlace(k, i, j) /\ ((k = "dir" /\ i < NDIRECT) \/ k \in {"ind", "lev"})

\* Pointers, and the data they lead to, stay when new ones appear.
Kept(A, B, A2, B2) ==
    /\ \A g \in File : \A k, i, j : IsPlace(k, i, j) /\ Ptr(A, B, g, k, i, j) # 0 =>
          Ptr(A2, B2, g, k, i, j) = Ptr(A, B, g, k, i, j)
    /\ \A g \in File : \A k, i, j : IsData(k, i, j) /\ Ptr(A, B, g, k, i, j) # 0 =>
          B2[Ptr(A, B, g, k, i, j)] = B[Ptr(A, B, g, k, i, j)]

\* One more pointer, to a block that was not in use.
LEMMA SoundPlus ==
    ASSUME NEW U, NEW A, NEW B, NEW A2, NEW B2, Sound(U, A, B),
           NEW f0 \in File, NEW k0, NEW i0, NEW j0, NEW b, b \notin U,
           AllMoves(A, B, A2, B2, f0, k0, i0, j0, b)
    PROVE  Sound(U \cup {b}, A2, B2)
<1>0. \A g \in File : \A k, i, j : IsPlace(k, i, j) =>
        Ptr(A2, B2, g, k, i, j) =
          IF g = f0 /\ k = k0 /\ i = i0 /\ j = j0 THEN b ELSE Ptr(A, B, g, k, i, j)
  BY DEF AllMoves, Moves
<1>1. ASSUME NEW f \in File, NEW k, NEW i, NEW j, IsPlace(k, i, j), Ptr(A2, B2, f, k, i, j) # 0
      PROVE  Ptr(A2, B2, f, k, i, j) \in U \cup {b}
  BY <1>0, <1>1 DEF Sound
<1>2. ASSUME NEW f \in File, NEW g \in File, NEW k, NEW i, NEW j, NEW l, NEW m, NEW n,
             IsPlace(k, i, j), IsPlace(l, m, n), Ptr(A2, B2, f, k, i, j) # 0,
             Ptr(A2, B2, f, k, i, j) = Ptr(A2, B2, g, l, m, n)
      PROVE  f = g /\ k = l /\ i = m /\ j = n
  <2>1. CASE f = f0 /\ k = k0 /\ i = i0 /\ j = j0
    <3>1. Ptr(A2, B2, f, k, i, j) = b BY <1>0, <1>2, <2>1
    <3>2. CASE ~ (g = f0 /\ l = k0 /\ m = i0 /\ n = j0)
      <4>1. Ptr(A, B, g, l, m, n) = b BY <1>0, <1>2, <3>1, <3>2
      <4>2. Ptr(A, B, g, l, m, n) \in U BY <1>2, <3>1, <4>1 DEF Sound
      <4> QED BY <4>1, <4>2
    <3> QED BY <2>1, <3>2
  <2>2. CASE ~ (f = f0 /\ k = k0 /\ i = i0 /\ j = j0)
    <3>1. Ptr(A2, B2, f, k, i, j) = Ptr(A, B, f, k, i, j) BY <1>0, <1>2, <2>2
    <3>2. Ptr(A, B, f, k, i, j) \in U BY <1>2, <3>1 DEF Sound
    <3>3. ~ (g = f0 /\ l = k0 /\ m = i0 /\ n = j0)
      <4>1. ASSUME g = f0 /\ l = k0 /\ m = i0 /\ n = j0 PROVE Ptr(A2, B2, g, l, m, n) = b
        BY <1>0, <1>2, <4>1
      <4> QED BY <1>2, <3>1, <3>2, <4>1
    <3>4. Ptr(A2, B2, g, l, m, n) = Ptr(A, B, g, l, m, n) BY <1>0, <1>2, <3>3
    <3>5. /\ IsPlace(k, i, j) /\ IsPlace(l, m, n) /\ Ptr(A, B, f, k, i, j) # 0
          /\ Ptr(A, B, f, k, i, j) = Ptr(A, B, g, l, m, n)
      BY <1>2, <3>1, <3>4
    <3> QED BY <3>5 DEF Sound
  <2> QED BY <2>1, <2>2
<1> QED BY <1>1, <1>2 DEF Sound

-----------------------------------------------------------------------------
(* A pointer that was 0 gets a block.                                       *)
\* The state of the pointers and the blocks after b, which was free, has been zeroed and
\* become the value of a pointer that was 0.
StoredA(A, f, k, i, b) == IF k = "dir" THEN [A EXCEPT ![f] = [A[f] EXCEPT ![i] = b]] ELSE A
StoredB(A, B, f, k, i, j, b) ==
    LET Z == [B EXCEPT ![b] = Zeroed]
        h == Holder(A, B, f, k, i)
    IN IF k = "dir" THEN Z ELSE [Z EXCEPT ![h] = [Z[h] EXCEPT ![Entry(k, i, j)] = b]]

\* What that makes of the inodes and the blocks.
LEMMA StoredIs ==
    ASSUME NEW U, NEW A, NEW B, Good(U, A, B), NEW b \in BlockNo \ U,
           NEW f \in File, NEW k, NEW i, NEW j, IsPlace(k, i, j), Ptr(A, B, f, k, i, j) = 0,
           k # "dir" => Holder(A, B, f, k, i) # 0
    PROVE  LET A2 == StoredA(A, f, k, i, b)
               B2 == StoredB(A, B, f, k, i, j, b)
               h == Holder(A, B, f, k, i)
           IN /\ A2 \in Inodes /\ B2 \in Blocks
              /\ \A g \in File : \A m \in 0..NDIRECT + 1 :
                   A2[g][m] = IF k = "dir" /\ g = f /\ m = i THEN b ELSE A[g][m]
              /\ \A c \in U : c \in BlockNo /\ c # b /\ (k = "dir" \/ c # h => B2[c] = B[c])
              /\ \A e \in Idx : k = "dir" => B2[b][e] = 0
              /\ k # "dir" => /\ h \in U
                              /\ \A e \in Idx : B2[b][e] = 0
                              /\ \A e \in Idx : B2[h][e] = IF e = Entry(k, i, j) THEN b ELSE B[h][e]
<1> DEFINE A2 == StoredA(A, f, k, i, b)
           B2 == StoredB(A, B, f, k, i, j, b)
           h == Holder(A, B, f, k, i)
           Z == [B EXCEPT ![b] = Zeroed]
<1>0. U \subseteq BlockNo /\ A \in Inodes /\ B \in Blocks /\ Sound(U, A, B) BY DEF Good
<1>z. Zeroed \in [Cells -> Nat] /\ \A e \in Idx : e \in Cells /\ Zeroed[e] = 0 BY BmapNumbers DEF Zeroed
<1>b. b \in Nat /\ b \in Addr BY BmapNumbers DEF Addr
<1>1. Z \in Blocks /\ Z[b] = Zeroed /\ \A c \in BlockNo : c # b => Z[c] = B[c]
  BY <1>0, <1>z DEF Blocks
<1> HIDE DEF Z
<1>2. A2 \in Inodes /\ \A g \in File : \A m \in 0..NDIRECT + 1 :
        A2[g][m] = IF k = "dir" /\ g = f /\ m = i THEN b ELSE A[g][m]
  <2>1. CASE k = "dir"
    <3> DEFINE r == [A[f] EXCEPT ![i] = b]
    <3>1. i \in 0..NDIRECT + 1 BY <2>1 DEF IsPlace
    <3>2. r \in [0..NDIRECT + 1 -> Addr] /\ \A m \in 0..NDIRECT + 1 : r[m] = IF m = i THEN b ELSE A[f][m]
      BY <1>0, <1>b, <3>1 DEF Inodes
    <3>3. A2 = [A EXCEPT ![f] = r] BY <2>1 DEF StoredA
    <3> HIDE DEF r, A2
    <3> QED BY <1>0, <2>1, <3>2, <3>3 DEF Inodes
  <2>2. CASE k # "dir" BY <1>0, <2>2 DEF StoredA
  <2> QED BY <2>1, <2>2
<1>3. k # "dir" => h \in U BY <1>0, HolderOnce
<1>4. CASE k = "dir"
  <2>1. B2 = Z BY <1>4 DEF StoredB, Z
  <2> HIDE DEF B2, A2
  <2>2. \A c \in U : c \in BlockNo /\ c # b /\ B2[c] = B[c] BY <1>0, <1>1, <2>1
  <2>3. B2[b] = Zeroed /\ B2 \in Blocks BY <1>1, <2>1
  <2>4. A2 \in Inodes /\ \A g \in File : \A m \in 0..NDIRECT + 1 :
          A2[g][m] = IF k = "dir" /\ g = f /\ m = i THEN b ELSE A[g][m]
    BY <1>2
  <2>5. \A e \in Idx : B2[b][e] = 0 BY <1>z, <2>3
  <2> QED BY <1>4, <2>2, <2>3, <2>4, <2>5 DEF A2, B2
<1>5. CASE k # "dir"
  <2> DEFINE e0 == Entry(k, i, j)
             r == [Z[h] EXCEPT ![e0] = b]
  <2>1. B2 = [Z EXCEPT ![h] = r] BY <1>5 DEF StoredB, Z
  <2>2. h \in BlockNo /\ h # b /\ Z[h] = B[h] BY <1>0, <1>1, <1>3, <1>5
  <2>3. e0 \in Cells BY <1>5, PtrUp, BmapNumbers
  <2>4. Z[h] \in [Cells -> Nat] BY <1>1, <2>2 DEF Blocks
  <2>5. r \in [Cells -> Nat] /\ \A e \in Cells : r[e] = IF e = e0 THEN b ELSE B[h][e]
    <3> HIDE DEF h, e0
    <3> QED BY <1>b, <2>2, <2>3, <2>4
  <2> HIDE DEF r, B2, A2, h, e0
  <2>6. B2 \in Blocks /\ B2[h] = r /\ \A c \in BlockNo : c # h => B2[c] = Z[c]
    BY <1>1, <2>1, <2>2, <2>5 DEF Blocks
  <2>7. B2[b] = Zeroed BY <1>1, <2>2, <2>6
  <2>8. \A c \in U : c \in BlockNo /\ c # b /\ (c # h => B2[c] = B[c]) BY <1>0, <1>1, <2>6
  <2>9. \A e \in Idx : B2[h][e] = IF e = e0 THEN b ELSE B[h][e] BY <1>z, <2>5, <2>6
  <2>10. A2 \in Inodes /\ \A g \in File : \A m \in 0..NDIRECT + 1 : A2[g][m] = IF k = "dir" /\ g = f /\ m = i THEN b ELSE A[g][m]
    BY <1>2
  <2> QED BY <1>3, <1>5, <1>z, <2>6, <2>7, <2>8, <2>9, <2>10 DEF h, e0, A2, B2
<1> QED BY <1>4, <1>5

\* That pointer leads to b, and the others where they led.
LEMMA StoredPtr ==
    ASSUME NEW U, NEW A, NEW B, Good(U, A, B), NEW b \in BlockNo \ U,
           NEW f \in File, NEW k, NEW i, NEW j, IsPlace(k, i, j), Ptr(A, B, f, k, i, j) = 0,
           k # "dir" => Holder(A, B, f, k, i) # 0
    PROVE  AllMoves(A, B, StoredA(A, f, k, i, b), StoredB(A, B, f, k, i, j, b), f, k, i, j, b)
<1> DEFINE A2 == StoredA(A, f, k, i, b)
           B2 == StoredB(A, B, f, k, i, j, b)
           h == Holder(A, B, f, k, i)
<1>0. U \subseteq BlockNo /\ A \in Inodes /\ B \in Blocks /\ Sound(U, A, B) BY DEF Good
<1>1. /\ \A g \in File : \A m \in 0..NDIRECT + 1 :
            A2[g][m] = IF k = "dir" /\ g = f /\ m = i THEN b ELSE A[g][m]
      /\ \A c \in U : c \in BlockNo /\ c # b /\ (k = "dir" \/ c # h => B2[c] = B[c])
      /\ \A e \in Idx : B2[b][e] = 0
      /\ k # "dir" => h \in U /\ \A e \in Idx : B2[h][e] = IF e = Entry(k, i, j) THEN b ELSE B[h][e]
  BY StoredIs
<1>n. b # 0 BY BmapNumbers
<1> HIDE DEF A2, B2
<1>2. ASSUME NEW g \in File, NEW m, IsPlace("dir", m, 0)
      PROVE  Ptr(A2, B2, g, "dir", m, 0) = IF g = f /\ "dir" = k /\ m = i /\ 0 = j THEN b ELSE Ptr(A, B, g, "dir", m, 0)
  <2>1. m \in 0..NDIRECT + 1 BY <1>2 DEF IsPlace
  <2>2. k = "dir" => j = 0 BY DEF IsPlace
  <2> QED BY <1>1, <2>1, <2>2 DEF Ptr
<1>3. ASSUME NEW g \in File, NEW l, NEW m, NEW n, IsPlace(l, m, n), l # "dir",
             Ptr(A2, B2, g, Up(l), UpIdx(l, m), 0) =
                   IF g = f /\ Up(l) = k /\ UpIdx(l, m) = i /\ 0 = j THEN b
                   ELSE Ptr(A, B, g, Up(l), UpIdx(l, m), 0)
      PROVE  Ptr(A2, B2, g, l, m, n) = IF g = f /\ l = k /\ m = i /\ n = j THEN b ELSE Ptr(A, B, g, l, m, n)
  <2> DEFINE p == Holder(A, B, g, l, m)
             p2 == Holder(A2, B2, g, l, m)
             e == Entry(l, m, n)
  <2>1. /\ p = Ptr(A, B, g, Up(l), UpIdx(l, m), 0) /\ p2 = Ptr(A2, B2, g, Up(l), UpIdx(l, m), 0)
        /\ Ptr(A, B, g, l, m, n) = IF p = 0 THEN 0 ELSE B[p][e]
        /\ Ptr(A2, B2, g, l, m, n) = IF p2 = 0 THEN 0 ELSE B2[p2][e]
        /\ e \in Idx
    BY <1>3, PtrUp
  <2>2. CASE g = f /\ Up(l) = k /\ UpIdx(l, m) = i /\ 0 = j
    <3>1. p = 0 /\ p2 = b BY <1>3, <2>1, <2>2
    <3>2. Ptr(A2, B2, g, l, m, n) = 0 BY <1>1, <1>n, <2>1, <3>1
    <3>3. l # k BY <1>3, <2>2 DEF Up, IsPlace
    <3> QED BY <2>1, <3>1, <3>2, <3>3
  <2>3. CASE ~ (g = f /\ Up(l) = k /\ UpIdx(l, m) = i /\ 0 = j)
    <3>1. p2 = p BY <1>3, <2>1, <2>3
    <3>2. CASE p = 0
      <4>1. ~ (g = f /\ l = k /\ m = i) BY <1>3, <3>2
      <4> QED BY <2>1, <3>1, <3>2, <4>1
    <3>3. CASE p # 0
      <4>1. p \in U BY <1>0, <1>3, <3>3, HolderOnce
      <4>2. CASE k = "dir" \/ p # h
        <5>1. B2[p] = B[p] BY <1>1, <4>1, <4>2
        <5>2. ~ (g = f /\ l = k /\ m = i) BY <1>3, <4>2
        <5> QED BY <2>1, <3>1, <5>1, <5>2
      <4>3. CASE k # "dir" /\ p = h
        <5>1. g = f /\ l = k /\ (k = "lev" => m = i) BY <1>0, <1>3, <3>3, <4>3, HolderOnce
        <5>2. B2[p][e] = IF e = Entry(k, i, j) THEN b ELSE B[p][e] BY <1>1, <2>1, <4>3
        <5>3. e = Entry(k, i, j) <=> m = i /\ n = j BY <1>3, <4>3, <5>1 DEF Entry, IsPlace
        <5> QED BY <2>1, <3>1, <3>3, <5>1, <5>2, <5>3
      <4> QED BY <4>2, <4>3
    <3> QED BY <3>2, <3>3
  <2> QED BY <2>2, <2>3
<1>4. MovesUp(A, B, A2, B2, f, k, i, j, b)
  <2>1. \A g \in File : \A m : IsPlace("dir", m, 0) => Moves(A, B, A2, B2, f, k, i, j, b, g, "dir", m, 0)
    BY <1>2 DEF Moves
  <2>2. ASSUME NEW g \in File, NEW l, NEW m, NEW n, IsPlace(l, m, n), l # "dir",
               Moves(A, B, A2, B2, f, k, i, j, b, g, Up(l), UpIdx(l, m), 0)
        PROVE  Moves(A, B, A2, B2, f, k, i, j, b, g, l, m, n)
    BY <1>3, <2>2 DEF Moves
  <2> QED BY <2>1, <2>2 DEF MovesUp
<1>5. AllMoves(A, B, A2, B2, f, k, i, j, b) BY <1>4, PtrLevels
<1> QED BY <1>5 DEF A2, B2

-----------------------------------------------------------------------------
(* New pointers, data, and cleared inodes keep the invariant.               *)
\* A place of data is no place of a pointer to a holder.
LEMMA DataNoHolder ==
    ASSUME NEW U, NEW A, NEW B, Sound(U, A, B), NEW f \in File, NEW k, NEW i, NEW j, IsData(k, i, j),
           Ptr(A, B, f, k, i, j) # 0,
           NEW g \in File, NEW l, NEW m, NEW n, IsPlace(l, m, n), l # "dir", Holder(A, B, g, l, m) # 0
    PROVE  Holder(A, B, g, l, m) # Ptr(A, B, f, k, i, j)
<1>1. SUFFICES ASSUME Ptr(A, B, f, k, i, j) = Holder(A, B, g, l, m) PROVE FALSE
  OBVIOUS
<1>2. IsPlace(k, i, j) BY DEF IsData
<1>3. (k = "dir" /\ i \in {NDIRECT, NDIRECT + 1}) \/ k = "dbl" BY <1>1, <1>2, HolderOnce
<1> QED BY <1>3, BmapNumbers DEF IsData

\* A free block becomes the value of a pointer that was 0.
LEMMA StoredGood ==
    ASSUME NEW U, NEW A, NEW B, Good(U, A, B), NEW b \in BlockNo \ U,
           NEW f \in File, NEW k, NEW i, NEW j, IsPlace(k, i, j), Ptr(A, B, f, k, i, j) = 0,
           k # "dir" => Holder(A, B, f, k, i) # 0
    PROVE  LET A2 == StoredA(A, f, k, i, b)
               B2 == StoredB(A, B, f, k, i, j, b)
           IN Good(U \cup {b}, A2, B2) /\ Kept(A, B, A2, B2) /\ Ptr(A2, B2, f, k, i, j) = b
<1> DEFINE A2 == StoredA(A, f, k, i, b)
           B2 == StoredB(A, B, f, k, i, j, b)
           h == Holder(A, B, f, k, i)
<1>0. U \subseteq BlockNo /\ A \in Inodes /\ B \in Blocks /\ Sound(U, A, B) BY DEF Good
<1>1. AllMoves(A, B, A2, B2, f, k, i, j, b) BY StoredPtr
<1>2. /\ A2 \in Inodes /\ B2 \in Blocks
      /\ \A c \in U : k = "dir" \/ c # h => B2[c] = B[c]
  BY StoredIs
<1> HIDE DEF A2, B2
<1>3. Sound(U \cup {b}, A2, B2) BY <1>0, <1>1, SoundPlus
<1>4. \A g \in File : \A l, m, n : IsPlace(l, m, n) =>
        Ptr(A2, B2, g, l, m, n) = IF g = f /\ l = k /\ m = i /\ n = j THEN b ELSE Ptr(A, B, g, l, m, n)
  BY <1>1 DEF AllMoves, Moves
<1>5. Ptr(A2, B2, f, k, i, j) = b BY <1>4
<1>6. ASSUME NEW g \in File, NEW l, NEW m, NEW n, IsPlace(l, m, n), Ptr(A, B, g, l, m, n) # 0
      PROVE  Ptr(A2, B2, g, l, m, n) = Ptr(A, B, g, l, m, n)
  BY <1>4, <1>6
<1>7. ASSUME NEW g \in File, NEW l, NEW m, NEW n, IsData(l, m, n), Ptr(A, B, g, l, m, n) # 0
      PROVE  B2[Ptr(A, B, g, l, m, n)] = B[Ptr(A, B, g, l, m, n)]
  <2>1. Ptr(A, B, g, l, m, n) \in U BY <1>0, <1>7 DEF Sound, IsData
  <2>2. k # "dir" => Ptr(A, B, g, l, m, n) # h BY <1>0, <1>7, DataNoHolder
  <2> QED BY <1>2, <2>1, <2>2
<1>8. Good(U \cup {b}, A2, B2) BY <1>0, <1>2, <1>3 DEF Good
<1>9. Kept(A, B, A2, B2) BY <1>6, <1>7 DEF Kept
<1> QED BY <1>5, <1>8, <1>9 DEF A2, B2

\* Block b is written, and the pointers stay what they are.
Written(B, b, x) == [B EXCEPT ![b] = x]
SamePtrs(A, B, B2) ==
    \A g \in File : \A l, m, n : IsPlace(l, m, n) => Ptr(A, B2, g, l, m, n) = Ptr(A, B, g, l, m, n)

\* A block of data is written: the pointers are what they were.
LEMMA WrittenGood ==
    ASSUME NEW U, NEW A, NEW B, Good(U, A, B), NEW x \in [Cells -> Nat],
           NEW f \in File, NEW k, NEW i, NEW j, IsData(k, i, j), Ptr(A, B, f, k, i, j) # 0
    PROVE  Good(U, A, Written(B, Ptr(A, B, f, k, i, j), x)) /\ SamePtrs(A, B, Written(B, Ptr(A, B, f, k, i, j), x))
<1> DEFINE b == Ptr(A, B, f, k, i, j)
           B2 == [B EXCEPT ![b] = x]
<1>0. U \subseteq BlockNo /\ A \in Inodes /\ B \in Blocks /\ Sound(U, A, B) BY DEF Good
<1>1. b \in BlockNo BY <1>0 DEF Sound, IsData
<1>2. B2 \in Blocks /\ \A c : c \in BlockNo /\ c # b => B2[c] = B[c] BY <1>0, <1>1 DEF Blocks
<1> HIDE DEF B2
<1>3. ASSUME NEW g \in File, NEW l, NEW m, NEW n, IsPlace(l, m, n), l # "dir",
             Ptr(A, B2, g, Up(l), UpIdx(l, m), 0) = Ptr(A, B, g, Up(l), UpIdx(l, m), 0)
      PROVE  Ptr(A, B2, g, l, m, n) = Ptr(A, B, g, l, m, n)
  <2> DEFINE p == Holder(A, B, g, l, m)
             p2 == Holder(A, B2, g, l, m)
             e == Entry(l, m, n)
  <2>1. /\ p2 = p
        /\ Ptr(A, B, g, l, m, n) = IF p = 0 THEN 0 ELSE B[p][e]
        /\ Ptr(A, B2, g, l, m, n) = IF p2 = 0 THEN 0 ELSE B2[p2][e]
    <3>1. /\ p = Ptr(A, B, g, Up(l), UpIdx(l, m), 0)
          /\ Ptr(A, B, g, l, m, n) = IF p = 0 THEN 0 ELSE B[p][e]
      BY <1>3, PtrUp
    <3>2. /\ p2 = Ptr(A, B2, g, Up(l), UpIdx(l, m), 0)
          /\ Ptr(A, B2, g, l, m, n) = IF p2 = 0 THEN 0 ELSE B2[p2][e]
      BY <1>3, PtrUp
    <3> QED BY <1>3, <3>1, <3>2
  <2>2. p # 0 => p \in BlockNo /\ p # b BY <1>0, <1>3, HolderOnce, DataNoHolder
  <2> QED BY <1>2, <2>1, <2>2
<1>4. MovesUp(A, B, A, B2, f, k, i, j, b)
  <2>1. \A g \in File : \A m : IsPlace("dir", m, 0) => Moves(A, B, A, B2, f, k, i, j, b, g, "dir", m, 0)
    BY DEF Moves, Ptr
  <2>2. ASSUME NEW g \in File, NEW l, NEW m, NEW n, IsPlace(l, m, n), l # "dir",
               Moves(A, B, A, B2, f, k, i, j, b, g, Up(l), UpIdx(l, m), 0)
        PROVE  Moves(A, B, A, B2, f, k, i, j, b, g, l, m, n)
    <3>1. Ptr(A, B2, g, Up(l), UpIdx(l, m), 0) = Ptr(A, B, g, Up(l), UpIdx(l, m), 0)
      BY <2>2 DEF Moves
    <3> QED BY <1>3, <2>2, <3>1 DEF Moves
  <2> QED BY <2>1, <2>2 DEF MovesUp
<1>5. AllMoves(A, B, A, B2, f, k, i, j, b) BY <1>4, PtrLevels
<1>6. \A g \in File : \A l, m, n : IsPlace(l, m, n) => Ptr(A, B2, g, l, m, n) = Ptr(A, B, g, l, m, n)
  BY <1>5 DEF AllMoves, Moves
<1>7. Sound(U, A, B2)
  <2>1. ASSUME NEW g \in File, NEW l, NEW m, NEW n, IsPlace(l, m, n), Ptr(A, B2, g, l, m, n) # 0
        PROVE  Ptr(A, B2, g, l, m, n) \in U
    BY <1>0, <1>6, <2>1 DEF Sound
  <2>2. ASSUME NEW g \in File, NEW g2 \in File, NEW l, NEW m, NEW n, NEW l2, NEW m2, NEW n2,
               IsPlace(l, m, n), IsPlace(l2, m2, n2), Ptr(A, B2, g, l, m, n) # 0,
               Ptr(A, B2, g, l, m, n) = Ptr(A, B2, g2, l2, m2, n2)
        PROVE  g = g2 /\ l = l2 /\ m = m2 /\ n = n2
    <3>1. /\ IsPlace(l, m, n) /\ IsPlace(l2, m2, n2) /\ Ptr(A, B, g, l, m, n) # 0
          /\ Ptr(A, B, g, l, m, n) = Ptr(A, B, g2, l2, m2, n2)
      BY <1>6, <2>2
    <3> QED BY <1>0, <3>1 DEF Sound
  <2> QED BY <2>1, <2>2 DEF Sound
<1>8. B2 = Written(B, b, x) BY DEF B2, Written
<1>9. SamePtrs(A, B, B2) BY <1>6 DEF SamePtrs
<1> QED BY <1>0, <1>2, <1>7, <1>8, <1>9 DEF Good

\* An inode without pointers, and blocks that file f leads to.
Cleared(A, f) == [A EXCEPT ![f] = [i \in 0..NDIRECT + 1 |-> 0]]
LedTo(A, B, f, T) == \A b \in T : b # 0 => \E k, i, j : IsPlace(k, i, j) /\ Ptr(A, B, f, k, i, j) = b
OthersPtrs(A, B, A2, f) ==
    \A g \in File : \A l, m, n : IsPlace(l, m, n) =>
        Ptr(A2, B, g, l, m, n) = IF g = f THEN 0 ELSE Ptr(A, B, g, l, m, n)

\* An inode that is cleared leads to nothing, and the blocks that only it led to can go.
LEMMA ClearedGood ==
    ASSUME NEW U, NEW A, NEW B, Good(U, A, B), NEW f \in File, NEW T,
           LedTo(A, B, f, T)
    PROVE  Good(U \ T, Cleared(A, f), B) /\ OthersPtrs(A, B, Cleared(A, f), f)
<1> DEFINE A2 == Cleared(A, f)
<1>0. U \subseteq BlockNo /\ A \in Inodes /\ B \in Blocks /\ Sound(U, A, B) BY DEF Good
<1>1. /\ A2 \in Inodes /\ A2[f] = [i \in 0..NDIRECT + 1 |-> 0]
      /\ \A g \in File : g # f => A2[g] = A[g]
  BY <1>0 DEF Inodes, Addr, Cleared
<1> HIDE DEF A2
<1>2. ASSUME NEW g \in File, NEW l, NEW m, NEW n, IsPlace(l, m, n)
      PROVE  Ptr(A2, B, g, l, m, n) = IF g = f THEN 0 ELSE Ptr(A, B, g, l, m, n)
  <2>1. CASE g = f
    <3>1. A2[f][NDIRECT] = 0 /\ A2[f][NDIRECT + 1] = 0 BY <1>1, BmapNumbers
    <3>2. l # "dir" => Holder(A2, B, f, l, m) = 0 BY <3>1 DEF Holder
    <3>3. l = "dir" => A2[f][m] = 0 BY <1>1, <1>2 DEF IsPlace
    <3> QED BY <2>1, <3>2, <3>3 DEF Ptr
  <2>2. CASE g # f
    <3>1. A2[g] = A[g] BY <1>1, <2>2
    <3> QED BY <2>2, <3>1 DEF Ptr, Holder
  <2> QED BY <2>1, <2>2
<1>3. Sound(U \ T, A2, B)
  <2>1. ASSUME NEW g \in File, NEW l, NEW m, NEW n, IsPlace(l, m, n), Ptr(A2, B, g, l, m, n) # 0
        PROVE  Ptr(A2, B, g, l, m, n) \in U \ T
    <3>1. g # f /\ Ptr(A2, B, g, l, m, n) = Ptr(A, B, g, l, m, n) BY <1>2, <2>1
    <3>2. Ptr(A, B, g, l, m, n) \in U BY <1>0, <2>1, <3>1 DEF Sound
    <3>3. ASSUME Ptr(A, B, g, l, m, n) \in T PROVE FALSE
      <4>1. PICK k, i, j : IsPlace(k, i, j) /\ Ptr(A, B, f, k, i, j) = Ptr(A, B, g, l, m, n)
        BY <2>1, <3>1, <3>3 DEF LedTo
      <4>2. f = g BY <1>0, <2>1, <3>1, <4>1 DEF Sound
      <4> QED BY <3>1, <4>2
    <3> QED BY <3>1, <3>2, <3>3
  <2>2. ASSUME NEW g \in File, NEW g2 \in File, NEW l, NEW m, NEW n, NEW l2, NEW m2, NEW n2,
               IsPlace(l, m, n), IsPlace(l2, m2, n2), Ptr(A2, B, g, l, m, n) # 0,
               Ptr(A2, B, g, l, m, n) = Ptr(A2, B, g2, l2, m2, n2)
        PROVE  g = g2 /\ l = l2 /\ m = m2 /\ n = n2
    <3>1. /\ IsPlace(l, m, n) /\ IsPlace(l2, m2, n2) /\ Ptr(A, B, g, l, m, n) # 0
          /\ Ptr(A, B, g, l, m, n) = Ptr(A, B, g2, l2, m2, n2)
      BY <1>2, <2>2
    <3> QED BY <1>0, <3>1 DEF Sound
  <2> QED BY <2>1, <2>2 DEF Sound
<1> QED BY <1>0, <1>1, <1>2, <1>3 DEF Good, A2, OthersPtrs

-----------------------------------------------------------------------------
(* balloc() and the pointers that bmap() follows or sets.                   *)
\* The states of the file system that bmap() works on.
StSet == [used : SUBSET BlockNo, blk : Blocks, a : [0..NDIRECT + 1 -> Addr],
          log : SUBSET (BlockNo \cup {BitmapBlock}), addr : Addr]

\* The pointers of all inodes, of which file f's are under way, and whether all is in order.
MapOf(A, f, st) == [A EXCEPT ![f] = st.a]
StGood(A, f, st) == st \in StSet /\ Good(st.used, MapOf(A, f, st), st.blk)
StPtr(A, f, st, k, i, j) == Ptr(MapOf(A, f, st), st.blk, f, k, i, j)

\* st2 is st with the pointer at i, j of kind k in place, with one block more at most, and
\* with that block and the holder logged.
Placed(A, f, st, st2, k, i, j) ==
    /\ StGood(A, f, st2)
    /\ Kept(MapOf(A, f, st), st.blk, MapOf(A, f, st2), st2.blk)
    /\ \E b : st2.used \subseteq st.used \cup {b}
    /\ st2.addr # 0 /\ st2.addr = StPtr(A, f, st2, k, i, j)
    /\ st2.log \subseteq st.log \cup {BitmapBlock, st2.addr} \cup IF k = "dir" THEN {} ELSE {st.addr}
    /\ StPtr(A, f, st, k, i, j) # 0 => st2 = [st EXCEPT !.addr = StPtr(A, f, st, k, i, j)]

\* balloc() takes a free block and zeroes it.
LEMMA BallocIs ==
    ASSUME NEW st \in StSet, FreeBlocks(st) # {}
    PROVE  \E b \in BlockNo \ st.used :
             /\ balloc(st).used = st.used \cup {b} /\ balloc(st).blk = [st.blk EXCEPT ![b] = Zeroed]
             /\ balloc(st).a = st.a /\ balloc(st).log = st.log \cup {BitmapBlock, b} /\ balloc(st).addr = b
             /\ balloc(st) \in [used : SUBSET BlockNo, blk : Blocks, a : [0..NDIRECT + 1 -> Addr],
                                log : SUBSET (BlockNo \cup {BitmapBlock}), addr : BlockNo]
<1> DEFINE b == LowestFree(st)
<1>1. b \in BlockNo \ st.used
  <2>1. FreeBlocks(st) \in SUBSET Nat BY BmapNumbers DEF FreeBlocks
  <2>2. b \in FreeBlocks(st) BY <2>1, Least DEF LowestFree
  <2> QED BY <2>2 DEF FreeBlocks
<1>2. balloc(st) = [st EXCEPT !.used = @ \cup {b}, !.blk = [@ EXCEPT ![b] = Zeroed],
                              !.log = @ \cup {BitmapBlock, b}, !.addr = b]
  BY DEF balloc
<1> HIDE DEF b
<1>3. [st.blk EXCEPT ![b] = Zeroed] \in Blocks
  <2>1. Zeroed \in [Cells -> Nat] BY DEF Zeroed
  <2>2. st.blk \in Blocks BY DEF StSet
  <2> QED BY <1>1, <2>1, <2>2 DEF Blocks
<1>4. /\ balloc(st).used = st.used \cup {b} /\ balloc(st).blk = [st.blk EXCEPT ![b] = Zeroed]
      /\ balloc(st).a = st.a /\ balloc(st).log = st.log \cup {BitmapBlock, b} /\ balloc(st).addr = b
      /\ balloc(st) = [used |-> st.used \cup {b}, blk |-> [st.blk EXCEPT ![b] = Zeroed], a |-> st.a,
                       log |-> st.log \cup {BitmapBlock, b}, addr |-> b]
  BY <1>2 DEF StSet
<1>5. st.used \subseteq BlockNo /\ st.a \in [0..NDIRECT + 1 -> Addr] /\ st.log \subseteq BlockNo \cup {BitmapBlock}
  BY DEF StSet
<1> QED BY <1>1, <1>3, <1>4, <1>5

\* A pointer that is there is followed.
LEMMA FollowedIs ==
    ASSUME NEW A \in Inodes, NEW f \in File, NEW st, StGood(A, f, st), NEW k, NEW i, NEW j, IsPlace(k, i, j),
           StPtr(A, f, st, k, i, j) # 0
    PROVE  Placed(A, f, st, [st EXCEPT !.addr = StPtr(A, f, st, k, i, j)], k, i, j)
<1> DEFINE p == StPtr(A, f, st, k, i, j)
           s2 == [st EXCEPT !.addr = p]
<1>1. p \in Addr /\ p # 0 BY DEF StGood, StPtr, Good, Sound, Addr
<1> HIDE DEF p
<1>2. s2 \in StSet /\ s2.addr = p /\ s2.used = st.used /\ s2.blk = st.blk /\ s2.a = st.a /\ s2.log = st.log
  BY <1>1 DEF StGood, StSet
<1> HIDE DEF s2
<1>3. MapOf(A, f, s2) = MapOf(A, f, st) BY <1>2 DEF MapOf
<1>4. StGood(A, f, s2) BY <1>2, <1>3 DEF StGood
<1>5. StPtr(A, f, s2, k, i, j) = p BY <1>2, <1>3 DEF StPtr, p
<1>6. Kept(MapOf(A, f, st), st.blk, MapOf(A, f, s2), s2.blk) BY <1>2, <1>3 DEF Kept
<1>7. s2 = [st EXCEPT !.addr = p] BY DEF s2
<1>8. \E b : s2.used \subseteq st.used \cup {b} BY <1>2
<1> QED BY <1>1, <1>2, <1>4, <1>5, <1>6, <1>7, <1>8 DEF Placed, p

\* A pointer that is 0 gets a block of its own.
LEMMA GrownIs ==
    ASSUME NEW A \in Inodes, NEW f \in File, NEW st, StGood(A, f, st), NEW k, NEW i, NEW j, IsPlace(k, i, j),
           StPtr(A, f, st, k, i, j) = 0,
           k # "dir" => Holder(MapOf(A, f, st), st.blk, f, k, i) # 0,
           NEW b \in BlockNo \ st.used, NEW st2 \in StSet,
           st2.used = st.used \cup {b}, st2.addr = b,
           st2.log \subseteq st.log \cup {BitmapBlock, b} \cup IF k = "dir" THEN {} ELSE {st.addr},
           MapOf(A, f, st2) = StoredA(MapOf(A, f, st), f, k, i, b),
           st2.blk = StoredB(MapOf(A, f, st), st.blk, f, k, i, j, b)
    PROVE  Placed(A, f, st, st2, k, i, j)
<1> DEFINE M == MapOf(A, f, st)
           A2 == StoredA(M, f, k, i, b)
           B2 == StoredB(M, st.blk, f, k, i, j, b)
<1>1. Good(st.used \cup {b}, A2, B2) /\ Kept(M, st.blk, A2, B2) /\ Ptr(A2, B2, f, k, i, j) = b
  <2>1. Good(st.used, M, st.blk) BY DEF StGood
  <2>2. Ptr(M, st.blk, f, k, i, j) = 0 BY DEF StPtr
  <2>3. k # "dir" => Holder(M, st.blk, f, k, i) # 0 OBVIOUS
  <2> HIDE DEF M
  <2> QED BY <2>1, <2>2, <2>3, StoredGood
<1> HIDE DEF A2, B2
<1>2. StGood(A, f, st2) BY <1>1 DEF StGood, A2, B2
<1>3. StPtr(A, f, st2, k, i, j) = b BY <1>1 DEF StPtr, A2, B2
<1>4. b # 0 BY BmapNumbers
<1>5. Kept(MapOf(A, f, st), st.blk, MapOf(A, f, st2), st2.blk) BY <1>1 DEF A2, B2
<1> QED BY <1>2, <1>3, <1>4, <1>5 DEF Placed

\* The pointers of file f's inode while bmap() works on it.
LEMMA MapIs ==
    ASSUME NEW A \in Inodes, NEW f \in File, NEW st \in StSet
    PROVE  /\ MapOf(A, f, st)[f] = st.a /\ MapOf(A, f, st) \in Inodes
           /\ \A x : [MapOf(A, f, st) EXCEPT ![f] = x] = [A EXCEPT ![f] = x]
<1>1. MapOf(A, f, st)[f] = st.a /\ MapOf(A, f, st) \in Inodes BY DEF MapOf, Inodes, StSet
<1>2. ASSUME NEW x PROVE [MapOf(A, f, st) EXCEPT ![f] = x] = [A EXCEPT ![f] = x]
  <2>1. DOMAIN A = File /\ DOMAIN MapOf(A, f, st) = File BY <1>1 DEF Inodes
  <2>2. \A g \in File : g # f => MapOf(A, f, st)[g] = A[g] BY <2>1 DEF MapOf
  <2> QED BY <2>1, <2>2
<1> QED BY <1>1, <1>2

\* A pointer of the inode.
LEMMA InodePtrIs ==
    ASSUME NEW A \in Inodes, NEW f \in File, NEW st, StGood(A, f, st), NEW i, IsPlace("dir", i, 0),
           FreeBlocks(st) # {}
    PROVE  Placed(A, f, st, InodePtr(st, i), "dir", i, 0)
<1>0. st \in StSet /\ st.a \in [0..NDIRECT + 1 -> Addr] /\ i \in 0..NDIRECT + 1 BY DEF StGood, StSet, IsPlace
<1>1. StPtr(A, f, st, "dir", i, 0) = st.a[i] BY <1>0, MapIs DEF StPtr, Ptr
<1>2. CASE st.a[i] # 0
  <2>1. InodePtr(st, i) = [st EXCEPT !.addr = st.a[i]] BY <1>2 DEF InodePtr
  <2> QED BY <1>0, <1>1, <1>2, <2>1, FollowedIs
<1>3. CASE st.a[i] = 0
  <2> DEFINE s == balloc(st)
             r == [s.a EXCEPT ![i] = s.addr]
             s2 == InodePtr(st, i)
  <2>1. PICK b \in BlockNo \ st.used :
             /\ s.used = st.used \cup {b} /\ s.blk = [st.blk EXCEPT ![b] = Zeroed]
             /\ s.a = st.a /\ s.log = st.log \cup {BitmapBlock, b} /\ s.addr = b
             /\ s \in [used : SUBSET BlockNo, blk : Blocks, a : [0..NDIRECT + 1 -> Addr],
                                log : SUBSET (BlockNo \cup {BitmapBlock}), addr : BlockNo]
    BY <1>0, BallocIs
  <2>2. s2 = [s EXCEPT !.a = r] BY <1>3 DEF InodePtr
  <2> HIDE DEF s, s2
  <2>3. r \in [0..NDIRECT + 1 -> Addr] /\ r = [st.a EXCEPT ![i] = b] BY <1>0, <2>1 DEF Addr
  <2> HIDE DEF r
  <2>4. s2 \in StSet /\ s2.used = s.used /\ s2.blk = s.blk /\ s2.a = r /\ s2.addr = s.addr /\ s2.log = s.log
    BY <2>1, <2>2, <2>3 DEF StSet, Addr
  <2>5. MapOf(A, f, s2) = StoredA(MapOf(A, f, st), f, "dir", i, b)
    <3>1. MapOf(A, f, s2) = [A EXCEPT ![f] = r] BY <2>4 DEF MapOf
    <3>2. StoredA(MapOf(A, f, st), f, "dir", i, b) = [MapOf(A, f, st) EXCEPT ![f] = r]
      <4>1. MapOf(A, f, st)[f] = st.a BY <1>0, MapIs
      <4>2. StoredA(MapOf(A, f, st), f, "dir", i, b)
              = [MapOf(A, f, st) EXCEPT ![f] = [MapOf(A, f, st)[f] EXCEPT ![i] = b]]
        BY DEF StoredA
      <4> QED BY <2>3, <4>1, <4>2
    <3>3. [MapOf(A, f, st) EXCEPT ![f] = r] = [A EXCEPT ![f] = r]
      <4>1. \A x : [MapOf(A, f, st) EXCEPT ![f] = x] = [A EXCEPT ![f] = x] BY <1>0, MapIs
      <4> QED BY <4>1
    <3> QED BY <3>1, <3>2, <3>3
  <2>6. s2.blk = StoredB(MapOf(A, f, st), st.blk, f, "dir", i, 0, b) BY <2>1, <2>4 DEF StoredB
  <2>7. s2.used = st.used \cup {b} /\ s2.addr = b /\ s2.log = st.log \cup {BitmapBlock, b} BY <2>1, <2>4
  <2>8. StPtr(A, f, st, "dir", i, 0) = 0 BY <1>1, <1>3
  <2> QED BY <2>4, <2>5, <2>6, <2>7, <2>8, GrownIs DEF s2
<1> QED BY <1>2, <1>3

\* A pointer in the block st.addr.
LEMMA BlockPtrIs ==
    ASSUME NEW A \in Inodes, NEW f \in File, NEW st, StGood(A, f, st),
           NEW k, NEW i, NEW j, IsPlace(k, i, j), k # "dir",
           st.addr # 0, st.addr = StPtr(A, f, st, Up(k), UpIdx(k, i), 0),
           FreeBlocks(st) # {}
    PROVE  Placed(A, f, st, BlockPtr(st, Entry(k, i, j)), k, i, j)
<1> DEFINE e == Entry(k, i, j)
           M == MapOf(A, f, st)
           h == st.addr
<1>0. st \in StSet /\ st.blk \in Blocks /\ Good(st.used, M, st.blk) BY DEF StGood, StSet
<1>1. /\ h = Holder(M, st.blk, f, k, i) /\ e \in Idx /\ e \in Cells
      /\ StPtr(A, f, st, k, i, j) = st.blk[h][e]
  <2>1. /\ Holder(M, st.blk, f, k, i) = StPtr(A, f, st, Up(k), UpIdx(k, i), 0) /\ e \in Idx
        /\ StPtr(A, f, st, k, i, j) = IF Holder(M, st.blk, f, k, i) = 0 THEN 0 ELSE st.blk[Holder(M, st.blk, f, k, i)][e]
    BY PtrUp DEF StPtr
  <2> HIDE DEF M, e
  <2> QED BY <2>1, BmapNumbers
<1>u. h \in st.used /\ h \in BlockNo
  <2>1. Sound(st.used, M, st.blk) /\ st.used \subseteq BlockNo BY <1>0 DEF Good
  <2>2. Holder(M, st.blk, f, k, i) # 0 BY <1>1
  <2>3. Holder(M, st.blk, f, k, i) \in st.used
    <3> HIDE DEF M
    <3> QED BY <2>1, <2>2, HolderOnce
  <2> QED BY <1>1, <2>1, <2>3
<1>2. CASE st.blk[h][e] # 0
  <2>1. BlockPtr(st, e) = [st EXCEPT !.addr = st.blk[h][e]] BY <1>2 DEF BlockPtr
  <2>2. StPtr(A, f, st, k, i, j) # 0 BY <1>1, <1>2
  <2> QED BY <1>1, <2>1, <2>2, FollowedIs
<1>3. CASE st.blk[h][e] = 0
  <2> DEFINE s == balloc(st)
             r == [s.blk[h] EXCEPT ![e] = s.addr]
             B2 == [s.blk EXCEPT ![h] = r]
             L2 == s.log \cup {h}
             s2 == BlockPtr(st, e)
  <2>1. PICK b \in BlockNo \ st.used :
             /\ s.used = st.used \cup {b} /\ s.blk = [st.blk EXCEPT ![b] = Zeroed]
             /\ s.a = st.a /\ s.log = st.log \cup {BitmapBlock, b} /\ s.addr = b
             /\ s \in [used : SUBSET BlockNo, blk : Blocks, a : [0..NDIRECT + 1 -> Addr],
                                log : SUBSET (BlockNo \cup {BitmapBlock}), addr : BlockNo]
    BY <1>0, BallocIs
  <2>2. s2 = [s EXCEPT !.blk = B2, !.log = L2]
    <3>1. s2 = [balloc(st) EXCEPT !.blk[h][e] = balloc(st).addr, !.log = @ \cup {h}] BY <1>3 DEF BlockPtr
    <3> QED BY <3>1
  <2> HIDE DEF s, s2
  <2>3. s.blk \in Blocks /\ s.blk[h] \in [Cells -> Nat] /\ b \in Nat BY <1>u, <2>1, BmapNumbers DEF Blocks
  <2>4. r \in [Cells -> Nat] BY <1>1, <2>1, <2>3
  <2>e. r = [s.blk[h] EXCEPT ![e] = b] BY <2>1
  <2> HIDE DEF r
  <2>5. B2 \in Blocks BY <1>u, <2>3, <2>4 DEF Blocks
  <2>6. B2 = StoredB(M, st.blk, f, k, i, j, b)
    <3>1. StoredB(M, st.blk, f, k, i, j, b) = [s.blk EXCEPT ![h] = [s.blk[h] EXCEPT ![e] = b]]
      <4> HIDE DEF M, e
      <4> QED BY <1>1, <2>1 DEF StoredB, e
    <3> QED BY <2>e, <3>1
  <2>7. L2 \in SUBSET (BlockNo \cup {BitmapBlock}) /\ L2 = st.log \cup {BitmapBlock, b, h} BY <1>u, <2>1
  <2> HIDE DEF B2, L2
  <2>8. s2 \in StSet /\ s2.used = s.used /\ s2.blk = B2 /\ s2.a = s.a /\ s2.addr = s.addr /\ s2.log = L2
    BY <2>1, <2>2, <2>5, <2>7 DEF StSet, Addr
  <2>9. MapOf(A, f, s2) = StoredA(M, f, k, i, b)
    BY <2>1, <2>8 DEF MapOf, StoredA
  <2>10. s2.used = st.used \cup {b} /\ s2.addr = b /\ s2.blk = StoredB(M, st.blk, f, k, i, j, b)
    BY <2>1, <2>6, <2>8
  <2>12. s2.log \subseteq st.log \cup {BitmapBlock, b} \cup IF k = "dir" THEN {} ELSE {st.addr} BY <2>7, <2>8
  <2>11. StPtr(A, f, st, k, i, j) = 0 /\ Holder(M, st.blk, f, k, i) # 0 BY <1>1, <1>3
  <2> QED BY <2>8, <2>9, <2>10, <2>11, <2>12, GrownIs DEF s2
<1> QED BY <1>2, <1>3

-----------------------------------------------------------------------------
(* bmap().                                                                  *)
\* The place of the pointer to the data of block bn of a file.
KindOf(bn) == IF bn < NDIRECT THEN "dir" ELSE IF bn - NDIRECT < NINDIRECT THEN "ind" ELSE "lev"
RowOf(bn) ==
    IF bn < NDIRECT THEN bn
    ELSE IF bn - NDIRECT < NINDIRECT THEN bn - NDIRECT
    ELSE (bn - NDIRECT - NINDIRECT) \div NINDIRECT
ColOf(bn) == IF bn < NDIRECT + NINDIRECT THEN 0 ELSE (bn - NDIRECT - NINDIRECT) % NINDIRECT

\* Division of a number below a product.
LEMMA DivIs ==
    ASSUME NEW n \in Nat \ {0}, NEW m \in Nat, NEW x \in Nat
    PROVE  /\ x \div n \in Nat /\ x % n \in 0..n - 1 /\ x = n * (x \div n) + (x % n)
           /\ x < m * n => x \div n < m
<1>0. x \div n \in Int /\ x % n \in 0..n - 1 /\ x = n * (x \div n) + (x % n) OBVIOUS
<1>a. ASSUME NEW q \in Int, NEW r \in 0..n - 1, x = n * q + r PROVE q >= 0
  <2>1. ASSUME q < 0 PROVE FALSE
    <3>1. -q - 1 \in Nat /\ n * (-q - 1) \in Nat BY <2>1
    <3>2. n * (-q - 1) = -(n * q) - n OBVIOUS
    <3> QED BY <1>a, <3>1, <3>2
  <2> QED BY <2>1
<1>b. x \div n >= 0 BY <1>0, <1>a
<1>1. x \div n \in Nat /\ x % n \in 0..n - 1 /\ x = n * (x \div n) + (x % n) BY <1>0, <1>b
<1>2. ASSUME NEW q \in Nat, n * q <= x, x < m * n PROVE q < m
  <2>1. ASSUME NEW d \in Nat, q = m + d PROVE FALSE
    <3>1. n * q = n * m + n * d BY <2>1
    <3>2. n * d \in Nat /\ n * m = m * n OBVIOUS
    <3>3. n * m \in Nat /\ n * q \in Nat OBVIOUS
    <3> QED BY <1>2, <3>1, <3>2, <3>3
  <2>2. ASSUME q >= m PROVE FALSE
    <3>1. q - m \in Nat /\ q = m + (q - m) BY <2>2
    <3> QED BY <2>1, <3>1
  <2> QED BY <2>2
<1>3. n * (x \div n) <= x
  <2>1. n * (x \div n) \in Nat BY <1>1
  <2> QED BY <1>1, <2>1
<1> QED BY <1>1, <1>2, <1>3

\* Each block of a file has a place of its own.
LEMMA PlaceIs ==
    ASSUME NEW bn \in 0..MAXFILE - 1
    PROVE  /\ IsData(KindOf(bn), RowOf(bn), ColOf(bn))
           /\ KindOf(bn) \in {"ind", "lev"} => RowOf(bn) \in Idx
           /\ KindOf(bn) = "lev" => ColOf(bn) \in Idx
<1>1. NDIRECT \in Nat /\ NINDIRECT \in Nat /\ NINDIRECT >= 1 /\ NDIRECT >= 1 BY BmapNumbers
<1>2. CASE bn < NDIRECT BY <1>1, <1>2 DEF IsData, IsPlace, KindOf, RowOf, ColOf
<1>3. CASE bn >= NDIRECT /\ bn < NDIRECT + NINDIRECT
  <2>1. bn - NDIRECT \in Idx BY <1>1, <1>3 DEF Idx
  <2> QED BY <1>1, <1>3, <2>1 DEF IsData, IsPlace, KindOf, RowOf, ColOf
<1>4. CASE bn >= NDIRECT + NINDIRECT
  <2> DEFINE x == bn - NDIRECT - NINDIRECT
  <2>1. NINDIRECT * NINDIRECT \in Nat BY <1>1
  <2>2. x \in Nat /\ x < NINDIRECT * NINDIRECT BY <1>1, <1>4, <2>1 DEF MAXFILE, NDOUBLE_INDIRECT
  <2> HIDE DEF x
  <2>n. NINDIRECT \in Nat \ {0} BY <1>1
  <2>d. x \div NINDIRECT \in Nat /\ x \div NINDIRECT < NINDIRECT /\ x % NINDIRECT \in 0..NINDIRECT - 1
    BY <2>2, <2>n, DivIs, Zenon
  <2>3. x \div NINDIRECT \in Idx /\ x % NINDIRECT \in Idx BY <1>1, <2>d DEF Idx
  <2>4. KindOf(bn) = "lev" /\ RowOf(bn) = x \div NINDIRECT /\ ColOf(bn) = x % NINDIRECT
    BY <1>1, <1>4 DEF KindOf, RowOf, ColOf, x
  <2> QED BY <2>3, <2>4 DEF IsData, IsPlace
<1> QED BY <1>1, <1>2, <1>3, <1>4

\* Two blocks have two places.
LEMMA PlaceOnce ==
    ASSUME NEW bn \in 0..MAXFILE - 1, NEW bm \in 0..MAXFILE - 1,
           KindOf(bn) = KindOf(bm), RowOf(bn) = RowOf(bm), ColOf(bn) = ColOf(bm)
    PROVE  bn = bm
<1>1. NDIRECT \in Nat /\ NINDIRECT \in Nat /\ NINDIRECT >= 1 /\ NDIRECT >= 1 BY BmapNumbers
<1>2. CASE bn < NDIRECT BY <1>1, <1>2 DEF KindOf, RowOf
<1>3. CASE bn >= NDIRECT /\ bn < NDIRECT + NINDIRECT BY <1>1, <1>3 DEF KindOf, RowOf
<1>4. CASE bn >= NDIRECT + NINDIRECT
  <2> DEFINE x == bn - NDIRECT - NINDIRECT
             y == bm - NDIRECT - NINDIRECT
  <2>1. bm >= NDIRECT + NINDIRECT BY <1>1, <1>4 DEF KindOf
  <2>2. x \in Nat /\ y \in Nat BY <1>1, <1>4, <2>1
  <2>3. RowOf(bn) = x \div NINDIRECT /\ ColOf(bn) = x % NINDIRECT
        /\ RowOf(bm) = y \div NINDIRECT /\ ColOf(bm) = y % NINDIRECT
    BY <1>1, <1>4, <2>1 DEF RowOf, ColOf
  <2> HIDE DEF x, y
  <2>4. /\ x = NINDIRECT * (x \div NINDIRECT) + (x % NINDIRECT)
        /\ y = NINDIRECT * (y \div NINDIRECT) + (y % NINDIRECT)
    BY <1>1, <2>2, DivIs
  <2>5. x \div NINDIRECT = y \div NINDIRECT /\ x % NINDIRECT = y % NINDIRECT BY <2>3
  <2>6. x = y BY <2>4, <2>5, Zenon
  <2> QED BY <1>1, <2>6 DEF x, y
<1> QED BY <1>1, <1>2, <1>3, <1>4

\* There is room for n blocks.
Room(U, n) == Cardinality(BlockNo \ U) >= n

\* One block less.
LEMMA RoomLess ==
    ASSUME NEW U, NEW n \in Nat, Room(U, n + 1)
    PROVE  BlockNo \ U # {} /\ \A V, b : V \subseteq U \cup {b} => Room(V, n)
<1> SUFFICES ASSUME NEW V, NEW b, V \subseteq U \cup {b} PROVE BlockNo \ U # {} /\ Room(V, n)
  OBVIOUS
<1> DEFINE R == BlockNo \ U
           S == BlockNo \ V
<1>1. IsFiniteSet(BlockNo) BY BmapNumbers, FS_Interval DEF BlockNo
<1>2. IsFiniteSet(R) /\ IsFiniteSet(S) BY <1>1, FS_Subset
<1>3. Cardinality(R) \in Nat /\ Cardinality(S) \in Nat BY <1>2, FS_CardinalityType
<1>4. R \ {b} \in SUBSET S OBVIOUS
<1> HIDE DEF R, S
<1>5. Cardinality(R) >= n + 1 BY DEF R, Room
<1>6. R # {}
  <2>1. ASSUME R = {} PROVE FALSE
    <3>1. Cardinality(R) = 0 BY <2>1, FS_EmptySet
    <3> QED BY <1>5, <3>1
  <2> QED BY <2>1
<1>7. Cardinality(R \ {b}) <= Cardinality(S) BY <1>2, <1>4, FS_Subset
<1>8. Cardinality(R \ {b}) = IF b \in R THEN Cardinality(R) - 1 ELSE Cardinality(R) BY <1>2, FS_RemoveElement
<1>9. Cardinality(S) >= n BY <1>3, <1>5, <1>7, <1>8
<1> QED BY <1>6, <1>9 DEF R, S, Room

\* bmap() needs three blocks at most.
LEMMA RoomIs ==
    ASSUME NEW U
    PROVE  /\ Room(U, 1) \/ Room(U, 2) \/ Room(U, 3) => BlockNo \ U # {}
           /\ Room(U, 3) => \A V, b : V \subseteq U \cup {b} => Room(V, 2)
           /\ Room(U, 2) => \A V, b : V \subseteq U \cup {b} => Room(V, 1)
<1>1. \A n \in Nat : Room(U, n + 1) => BlockNo \ U # {} /\ \A V, b : V \subseteq U \cup {b} => Room(V, n)
  BY RoomLess
<1>2. 0 + 1 = 1 /\ 1 + 1 = 2 /\ 2 + 1 = 3 OBVIOUS
<1> QED BY <1>1, <1>2

\* What two steps keep.
LEMMA KeptTwice ==
    ASSUME NEW A, NEW B, NEW A2, NEW B2, NEW A3, NEW B3, Kept(A, B, A2, B2), Kept(A2, B2, A3, B3)
    PROVE  Kept(A, B, A3, B3)
<1>1. ASSUME NEW g \in File, NEW k, NEW i, NEW j, IsPlace(k, i, j), Ptr(A, B, g, k, i, j) # 0
      PROVE  Ptr(A3, B3, g, k, i, j) = Ptr(A, B, g, k, i, j)
  <2>1. Ptr(A2, B2, g, k, i, j) = Ptr(A, B, g, k, i, j) BY <1>1 DEF Kept
  <2> QED BY <1>1, <2>1 DEF Kept
<1>2. ASSUME NEW g \in File, NEW k, NEW i, NEW j, IsData(k, i, j), Ptr(A, B, g, k, i, j) # 0
      PROVE  B3[Ptr(A, B, g, k, i, j)] = B[Ptr(A, B, g, k, i, j)]
  <2>1. Ptr(A2, B2, g, k, i, j) = Ptr(A, B, g, k, i, j) BY <1>2 DEF Kept, IsData
  <2>2. B2[Ptr(A, B, g, k, i, j)] = B[Ptr(A, B, g, k, i, j)] BY <1>2 DEF Kept
  <2>3. B3[Ptr(A2, B2, g, k, i, j)] = B2[Ptr(A2, B2, g, k, i, j)] BY <1>2, <2>1 DEF Kept
  <2> QED BY <2>1, <2>2, <2>3
<1> QED BY <1>1, <1>2 DEF Kept

\* The blocks between the inode and the data of block bn of file f, and the latter.
OnPath(A, B, f, bn) ==
    {Ptr(A, B, f, KindOf(bn), RowOf(bn), ColOf(bn))}
      \cup IF bn < NDIRECT THEN {}
           ELSE IF bn - NDIRECT < NINDIRECT THEN {Ptr(A, B, f, "dir", NDIRECT, 0)}
           ELSE {Ptr(A, B, f, "dir", NDIRECT + 1, 0), Ptr(A, B, f, "dbl", RowOf(bn), 0)}

\* What bmap() makes of st: the block's pointer is there, and the others stay.
LEMMA BmapGrows ==
    ASSUME NEW A \in Inodes, NEW f \in File, NEW st, StGood(A, f, st), NEW bn \in 0..MAXFILE - 1,
           Room(st.used, 3)
    PROVE  LET s2 == bmap(st, bn) IN
           /\ StGood(A, f, s2) /\ Kept(MapOf(A, f, st), st.blk, MapOf(A, f, s2), s2.blk)
           /\ s2.addr # 0 /\ s2.addr = StPtr(A, f, s2, KindOf(bn), RowOf(bn), ColOf(bn))
           /\ s2.log \subseteq st.log \cup {BitmapBlock} \cup OnPath(MapOf(A, f, s2), s2.blk, f, bn)
<1>0. NDIRECT \in Nat /\ NINDIRECT \in Nat /\ NINDIRECT >= 1 /\ NDIRECT >= 1 BY BmapNumbers
<1>d. IsPlace("dir", NDIRECT, 0) /\ IsPlace("dir", NDIRECT + 1, 0) BY BmapNumbers DEF IsPlace
<1>p. IsPlace(KindOf(bn), RowOf(bn), ColOf(bn)) BY PlaceIs DEF IsData
<1>f. FreeBlocks(st) # {}
  <2>1. BlockNo \ st.used # {} BY RoomIs
  <2> QED BY <2>1 DEF FreeBlocks
<1>1. CASE bn < NDIRECT
  <2>1. KindOf(bn) = "dir" /\ RowOf(bn) = bn /\ ColOf(bn) = 0 BY <1>0, <1>1 DEF KindOf, RowOf, ColOf
  <2>2. bmap(st, bn) = InodePtr(st, bn) BY <1>1 DEF bmap
  <2>3. Placed(A, f, st, InodePtr(st, bn), "dir", bn, 0) BY <1>f, <1>p, <2>1, InodePtrIs
  <2> DEFINE s == InodePtr(st, bn)
  <2>4. OnPath(MapOf(A, f, s), s.blk, f, bn) = {StPtr(A, f, s, "dir", bn, 0)} BY <1>1, <2>1 DEF OnPath, StPtr
  <2>5. s.log \subseteq st.log \cup {BitmapBlock, StPtr(A, f, s, "dir", bn, 0)} BY <2>3 DEF Placed
  <2> HIDE DEF s
  <2>6. s.log \subseteq st.log \cup {BitmapBlock} \cup OnPath(MapOf(A, f, s), s.blk, f, bn) BY <2>4, <2>5
  <2> QED BY <2>1, <2>2, <2>3, <2>6 DEF Placed, s
<1>2. CASE ~ (bn < NDIRECT) /\ bn - NDIRECT < NINDIRECT
  <2> DEFINE s1 == InodePtr(st, NDIRECT)
             i == bn - NDIRECT
             s2 == BlockPtr(s1, i)
  <2>1. KindOf(bn) = "ind" /\ RowOf(bn) = i /\ ColOf(bn) = 0 BY <1>0, <1>2 DEF KindOf, RowOf, ColOf
  <2>2. bmap(st, bn) = s2 BY <1>2 DEF bmap
  <2>3. Placed(A, f, st, s1, "dir", NDIRECT, 0) BY <1>d, <1>f, InodePtrIs
  <2> HIDE DEF s1, i
  <2>4. FreeBlocks(s1) # {}
    <3>1. PICK b : s1.used \subseteq st.used \cup {b} BY <2>3 DEF Placed
    <3>2. Room(s1.used, 2) BY <3>1, RoomIs
    <3>3. BlockNo \ s1.used # {} BY <3>2, RoomIs
    <3> QED BY <3>3 DEF FreeBlocks
  <2>5. Placed(A, f, s1, s2, "ind", i, 0)
    <3>1. IsPlace("ind", i, 0) BY <1>p, <2>1
    <3>2. s1.addr # 0 /\ s1.addr = StPtr(A, f, s1, "dir", NDIRECT, 0) /\ StGood(A, f, s1) BY <2>3 DEF Placed
    <3>3. Up("ind") = "dir" /\ UpIdx("ind", i) = NDIRECT /\ Entry("ind", i, 0) = i BY DEF Up, UpIdx, Entry
    <3> QED BY <2>4, <3>1, <3>2, <3>3, BlockPtrIs
  <2> HIDE DEF s2
  <2>6. Kept(MapOf(A, f, st), st.blk, MapOf(A, f, s2), s2.blk) BY <2>3, <2>5, KeptTwice DEF Placed
  <2>7. StPtr(A, f, s2, "dir", NDIRECT, 0) = s1.addr
    <3>1. s1.addr # 0 /\ s1.addr = Ptr(MapOf(A, f, s1), s1.blk, f, "dir", NDIRECT, 0) BY <2>3 DEF Placed, StPtr
    <3> QED BY <1>d, <2>5, <3>1 DEF Placed, Kept, StPtr
  <2>8. s2.log \subseteq st.log \cup {BitmapBlock} \cup OnPath(MapOf(A, f, s2), s2.blk, f, bn)
    <3>1. OnPath(MapOf(A, f, s2), s2.blk, f, bn) = {StPtr(A, f, s2, "ind", i, 0), StPtr(A, f, s2, "dir", NDIRECT, 0)}
      BY <1>2, <2>1 DEF OnPath, StPtr
    <3>2. s1.log \subseteq st.log \cup {BitmapBlock, s1.addr} BY <2>3 DEF Placed
    <3>3. s2.log \subseteq s1.log \cup {BitmapBlock, StPtr(A, f, s2, "ind", i, 0), s1.addr} BY <2>5 DEF Placed
    <3> QED BY <2>7, <3>1, <3>2, <3>3
  <2> QED BY <2>1, <2>2, <2>5, <2>6, <2>8 DEF Placed
<1>3. CASE ~ (bn < NDIRECT) /\ ~ (bn - NDIRECT < NINDIRECT)
  <2> DEFINE s1 == InodePtr(st, NDIRECT + 1)
             i == (bn - NDIRECT - NINDIRECT) \div NINDIRECT
             j == (bn - NDIRECT - NINDIRECT) % NINDIRECT
             s2 == BlockPtr(s1, i)
             s3 == BlockPtr(s2, j)
  <2>1. KindOf(bn) = "lev" /\ RowOf(bn) = i /\ ColOf(bn) = j BY <1>0, <1>3 DEF KindOf, RowOf, ColOf
  <2>2. bmap(st, bn) = s3 BY <1>3 DEF bmap
  <2>3. Placed(A, f, st, s1, "dir", NDIRECT + 1, 0) BY <1>d, <1>f, InodePtrIs
  <2>i. i \in Idx /\ j \in Idx BY <2>1, PlaceIs
  <2> HIDE DEF s1, i, j
  <2>4. Room(s1.used, 2) /\ FreeBlocks(s1) # {}
    <3>1. PICK b : s1.used \subseteq st.used \cup {b} BY <2>3 DEF Placed
    <3>2. Room(s1.used, 2) BY <3>1, RoomIs
    <3>3. BlockNo \ s1.used # {} BY <3>2, RoomIs
    <3> QED BY <3>2, <3>3 DEF FreeBlocks
  <2>5. Placed(A, f, s1, s2, "dbl", i, 0)
    <3>1. IsPlace("dbl", i, 0) BY <2>i DEF IsPlace
    <3>2. s1.addr # 0 /\ s1.addr = StPtr(A, f, s1, "dir", NDIRECT + 1, 0) /\ StGood(A, f, s1) BY <2>3 DEF Placed
    <3>3. Up("dbl") = "dir" /\ UpIdx("dbl", i) = NDIRECT + 1 /\ Entry("dbl", i, 0) = i BY DEF Up, UpIdx, Entry
    <3> QED BY <2>4, <3>1, <3>2, <3>3, BlockPtrIs
  <2> HIDE DEF s2
  <2>6. FreeBlocks(s2) # {}
    <3>1. PICK b : s2.used \subseteq s1.used \cup {b} BY <2>5 DEF Placed
    <3>2. Room(s2.used, 1) BY <2>4, <3>1, RoomIs
    <3>3. BlockNo \ s2.used # {} BY <3>2, RoomIs
    <3> QED BY <3>3 DEF FreeBlocks
  <2>7. Placed(A, f, s2, s3, "lev", i, j)
    <3>1. IsPlace("lev", i, j) BY <2>i DEF IsPlace
    <3>2. s2.addr # 0 /\ s2.addr = StPtr(A, f, s2, "dbl", i, 0) /\ StGood(A, f, s2) BY <2>5 DEF Placed
    <3>3. Up("lev") = "dbl" /\ UpIdx("lev", i) = i /\ Entry("lev", i, j) = j BY DEF Up, UpIdx, Entry
    <3> QED BY <2>6, <3>1, <3>2, <3>3, BlockPtrIs
  <2> HIDE DEF s3
  <2>8. Kept(MapOf(A, f, st), st.blk, MapOf(A, f, s2), s2.blk) BY <2>3, <2>5, KeptTwice DEF Placed
  <2>9. Kept(MapOf(A, f, st), st.blk, MapOf(A, f, s3), s3.blk) BY <2>7, <2>8, KeptTwice DEF Placed
  <2>10. Kept(MapOf(A, f, s1), s1.blk, MapOf(A, f, s3), s3.blk) BY <2>5, <2>7, KeptTwice DEF Placed
  <2>11. StPtr(A, f, s3, "dir", NDIRECT + 1, 0) = s1.addr
    <3>1. s1.addr # 0 /\ s1.addr = Ptr(MapOf(A, f, s1), s1.blk, f, "dir", NDIRECT + 1, 0) BY <2>3 DEF Placed, StPtr
    <3> QED BY <1>d, <2>10, <3>1 DEF Kept, StPtr
  <2>12. StPtr(A, f, s3, "dbl", i, 0) = s2.addr
    <3>1. s2.addr # 0 /\ s2.addr = Ptr(MapOf(A, f, s2), s2.blk, f, "dbl", i, 0) BY <2>5 DEF Placed, StPtr
    <3>2. IsPlace("dbl", i, 0) BY <2>i DEF IsPlace
    <3> QED BY <2>7, <3>1, <3>2 DEF Placed, Kept, StPtr
  <2>13. s3.log \subseteq st.log \cup {BitmapBlock} \cup OnPath(MapOf(A, f, s3), s3.blk, f, bn)
    <3>1. OnPath(MapOf(A, f, s3), s3.blk, f, bn)
            = {StPtr(A, f, s3, "lev", i, j), StPtr(A, f, s3, "dir", NDIRECT + 1, 0), StPtr(A, f, s3, "dbl", i, 0)}
      BY <1>3, <2>1 DEF OnPath, StPtr
    <3>2. s1.log \subseteq st.log \cup {BitmapBlock, s1.addr} BY <2>3 DEF Placed
    <3>3. s2.log \subseteq s1.log \cup {BitmapBlock, s2.addr, s1.addr} BY <2>5 DEF Placed
    <3>4. s3.log \subseteq s2.log \cup {BitmapBlock, StPtr(A, f, s3, "lev", i, j), s2.addr} BY <2>7 DEF Placed
    <3> QED BY <2>11, <2>12, <3>1, <3>2, <3>3, <3>4
  <2> QED BY <2>1, <2>2, <2>7, <2>9, <2>13 DEF Placed
<1> QED BY <1>1, <1>2, <1>3

\* The block that holds block bn of file f.
DataBlock(A, B, f, bn) == Ptr(A, B, f, KindOf(bn), RowOf(bn), ColOf(bn))

\* bmap() of a block that is there changes nothing.
LEMMA BmapFollows ==
    ASSUME NEW A \in Inodes, NEW f \in File, NEW st \in StSet, NEW bn \in 0..MAXFILE - 1,
           DataBlock(MapOf(A, f, st), st.blk, f, bn) # 0
    PROVE  bmap(st, bn) = [st EXCEPT !.addr = DataBlock(MapOf(A, f, st), st.blk, f, bn)]
<1> DEFINE M == MapOf(A, f, st)
           d == DataBlock(M, st.blk, f, bn)
<1>0. NDIRECT \in Nat /\ NINDIRECT \in Nat /\ NINDIRECT >= 1 /\ NDIRECT >= 1 BY BmapNumbers
<1>m. M[f] = st.a BY MapIs
<1>n. d # 0 OBVIOUS
<1> HIDE DEF M
<1>t. \A x, y : [[st EXCEPT !.addr = x] EXCEPT !.addr = y] = [st EXCEPT !.addr = y]
  OBVIOUS
<1>f. \A x : [st EXCEPT !.addr = x].addr = x /\ [st EXCEPT !.addr = x].blk = st.blk BY DEF StSet
<1>a. ASSUME NEW i, st.a[i] # 0 PROVE InodePtr(st, i) = [st EXCEPT !.addr = st.a[i]]
  BY <1>a DEF InodePtr
<1>b. ASSUME NEW x, NEW i, st.blk[x][i] # 0
      PROVE  BlockPtr([st EXCEPT !.addr = x], i) = [st EXCEPT !.addr = st.blk[x][i]]
  <2> DEFINE s == [st EXCEPT !.addr = x]
  <2>1. s.addr = x /\ s.blk = st.blk BY <1>f
  <2>2. \A y : [s EXCEPT !.addr = y] = [st EXCEPT !.addr = y] BY <1>t
  <2> HIDE DEF s
  <2>3. BlockPtr(s, i) = [s EXCEPT !.addr = s.blk[s.addr][i]] BY <1>b, <2>1 DEF BlockPtr
  <2>4. BlockPtr(s, i) = [st EXCEPT !.addr = st.blk[x][i]] BY <2>1, <2>2, <2>3
  <2> QED BY <2>4 DEF s
<1>1. CASE bn < NDIRECT
  <2>1. KindOf(bn) = "dir" /\ RowOf(bn) = bn BY <1>0, <1>1 DEF KindOf, RowOf
  <2>2. d = st.a[bn] BY <1>m, <2>1 DEF DataBlock, Ptr
  <2>3. bmap(st, bn) = InodePtr(st, bn) BY <1>1 DEF bmap
  <2> HIDE DEF d
  <2>4. bmap(st, bn) = [st EXCEPT !.addr = d] BY <1>a, <1>n, <2>2, <2>3
  <2> QED BY <2>4 DEF d, M
<1>2. CASE ~ (bn < NDIRECT) /\ bn - NDIRECT < NINDIRECT
  <2> DEFINE i == bn - NDIRECT
             x == st.a[NDIRECT]
  <2>1. KindOf(bn) = "ind" /\ RowOf(bn) = i /\ ColOf(bn) = 0 BY <1>0, <1>2 DEF KindOf, RowOf, ColOf
  <2>2. x # 0 /\ d = st.blk[x][i] BY <1>m, <1>n, <2>1 DEF DataBlock, Ptr, Holder, Entry
  <2>3. bmap(st, bn) = BlockPtr(InodePtr(st, NDIRECT), i) BY <1>2 DEF bmap
  <2>4. InodePtr(st, NDIRECT) = [st EXCEPT !.addr = x] BY <1>a, <2>2
  <2> HIDE DEF d, x, i
  <2>5. bmap(st, bn) = [st EXCEPT !.addr = d] BY <1>b, <1>n, <2>2, <2>3, <2>4
  <2> QED BY <2>5 DEF d, M
<1>3. CASE ~ (bn < NDIRECT) /\ ~ (bn - NDIRECT < NINDIRECT)
  <2> DEFINE i == (bn - NDIRECT - NINDIRECT) \div NINDIRECT
             j == (bn - NDIRECT - NINDIRECT) % NINDIRECT
             x == st.a[NDIRECT + 1]
             y == st.blk[x][i]
  <2>1. KindOf(bn) = "lev" /\ RowOf(bn) = i /\ ColOf(bn) = j BY <1>0, <1>3 DEF KindOf, RowOf, ColOf
  <2>2. x # 0 /\ y # 0 /\ d = st.blk[y][j] BY <1>m, <1>n, <2>1 DEF DataBlock, Ptr, Holder, Entry
  <2>3. bmap(st, bn) = BlockPtr(BlockPtr(InodePtr(st, NDIRECT + 1), i), j) BY <1>3 DEF bmap
  <2>4. InodePtr(st, NDIRECT + 1) = [st EXCEPT !.addr = x] BY <1>a, <2>2
  <2> HIDE DEF d, x, i, j
  <2>5. BlockPtr([st EXCEPT !.addr = x], i) = [st EXCEPT !.addr = y] BY <1>b, <2>2
  <2> HIDE DEF y
  <2>6. bmap(st, bn) = [st EXCEPT !.addr = d] BY <1>b, <1>n, <2>2, <2>3, <2>4, <2>5
  <2> QED BY <2>6 DEF d, M
<1> QED BY <1>1, <1>2, <1>3

\* A quotient and a remainder are what they are.
LEMMA DivUnique ==
    ASSUME NEW n \in Nat \ {0}, NEW x \in Nat, NEW q \in Nat, NEW r \in 0..n - 1, x = n * q + r
    PROVE  x \div n = q /\ x % n = r
OBVIOUS

\* The bytes that a turn of writei()'s loop moves are in one block.
LEMMA TurnIs ==
    ASSUME NEW o \in Nat, NEW n \in Nat \ {0}
    PROVE  LET m == Turn(o, n)
               lo == o % BSIZE
           IN /\ m \in 1..n /\ lo \in 0..BSIZE - 1 /\ lo + m <= BSIZE
              /\ \A q \in Nat : q \in o..o + m - 1 <=>
                    q \div BSIZE = o \div BSIZE /\ q % BSIZE \in lo..lo + m - 1
<1> DEFINE m == Turn(o, n)
           lo == o % BSIZE
           k == o \div BSIZE
<1>0. BSIZE \in Nat \ {0} BY BmapAssumption
<1>1. k \in Nat /\ lo \in 0..BSIZE - 1 /\ o = BSIZE * k + lo BY <1>0, DivIs
<1> HIDE DEF k, lo
<1>2. m \in 1..n /\ lo + m <= BSIZE BY <1>0, <1>1 DEF Turn, SmallerOf, lo
<1> HIDE DEF m
<1>k. BSIZE * k \in Nat BY <1>0, <1>1
<1>3. ASSUME NEW q \in Nat, q \in o..o + m - 1
      PROVE  q \div BSIZE = k /\ q % BSIZE \in lo..lo + m - 1
  <2> DEFINE r == lo + (q - o)
  <2>1. r \in 0..BSIZE - 1 /\ r \in lo..lo + m - 1 BY <1>0, <1>1, <1>2, <1>3
  <2>2. q = BSIZE * k + r BY <1>0, <1>1, <1>3, <1>k
  <2> HIDE DEF r
  <2>3. q \div BSIZE = k /\ q % BSIZE = r BY <1>0, <1>1, <2>1, <2>2, DivUnique
  <2> QED BY <2>1, <2>3
<1>4. ASSUME NEW q \in Nat, q \div BSIZE = k, q % BSIZE \in lo..lo + m - 1
      PROVE  q \in o..o + m - 1
  <2> DEFINE r == q % BSIZE
             d == q \div BSIZE
  <2>1. q = BSIZE * d + r BY <1>0, DivIs
  <2>2. d = k BY <1>4
  <2>3. r \in lo..lo + m - 1 BY <1>4
  <2> HIDE DEF r, d
  <2>4. q = BSIZE * k + r BY <2>1, <2>2
  <2> QED BY <1>0, <1>1, <1>2, <1>k, <2>3, <2>4
<1> QED BY <1>1, <1>2, <1>3, <1>4 DEF m, lo, k

MaxSize == MAXFILE * BSIZE

\* Sizes are numbers.
LEMMA SizeNumbers ==
    /\ MAXFILE \in Nat /\ MaxSize \in Nat /\ MaxChunk \in Nat /\ MaxChunk >= 1
    /\ \A o \in Nat : o < MaxSize => o \div BSIZE \in 0..MAXFILE - 1 /\ o % BSIZE \in Cells
    /\ NoWrite.file \notin File
<1>1. NDIRECT \in Nat /\ NINDIRECT \in Nat /\ BSIZE \in Nat \ {0} /\ MaxOpBlocks \in Nat /\ MaxOpBlocks >= 6
  BY BmapAssumption
<1>2. NINDIRECT * NINDIRECT \in Nat BY <1>1
<1>3. MAXFILE \in Nat BY <1>1, <1>2 DEF MAXFILE, NDOUBLE_INDIRECT
<1>4. MaxSize \in Nat BY <1>1, <1>3 DEF MaxSize
<1>5. MaxChunk \in Nat /\ MaxChunk >= 1
  <2> DEFINE c == (MaxOpBlocks - 1 - 1 - 2) \div 2
  <2>1. c \in Nat /\ c >= 1 BY <1>1
  <2>2. MaxChunk = c * BSIZE BY DEF MaxChunk
  <2> HIDE DEF c
  <2>3. c - 1 \in Nat /\ (c - 1) * BSIZE \in Nat /\ c * BSIZE = (c - 1) * BSIZE + BSIZE BY <1>1, <2>1
  <2> QED BY <1>1, <2>1, <2>2, <2>3
<1>6. ASSUME NEW o \in Nat, o < MaxSize PROVE o \div BSIZE \in 0..MAXFILE - 1 /\ o % BSIZE \in Cells
  <2>1. o \div BSIZE \in Nat /\ o \div BSIZE < MAXFILE /\ o % BSIZE \in 0..BSIZE - 1
    <3>1. o < MAXFILE * BSIZE BY <1>6 DEF MaxSize
    <3> QED BY <1>1, <1>3, <3>1, DivIs, Zenon
  <2> QED BY <1>3, <2>1, BmapNumbers
<1>7. NoWrite.file \notin File BY BmapAssumption DEF NoWrite
<1> QED BY <1>3, <1>4, <1>5, <1>6, <1>7

-----------------------------------------------------------------------------
(* The inductive invariant of Bmap.                                         *)
\* Byte q of file f is in a block, and is what has been written.
Stored(A, B, s, f, q) ==
    /\ DataBlock(A, B, f, q \div BSIZE) # 0
    /\ B[DataBlock(A, B, f, q \div BSIZE)][q % BSIZE] = s[q + 1]

ContentInv ==
    \A f \in File :
        /\ size[f] <= Len(content[f]) /\ Len(content[f]) <= MaxSize
        /\ \A q \in Nat : q < Len(content[f]) => Stored(addrs, blk, content[f], f, q)

\* The values of the other variables.
BmapValues ==
    /\ size \in [File -> 0..MaxSize] /\ off \in [File -> Nat]
    /\ txn \subseteq BlockNo \cup {InodeBlock, BitmapBlock}
    /\ nops \in Nat /\ content \in [File -> Seq(Nat)]

\* The calls of write() that writei() can be in, with what has been copied.
WriteCall == [file : File, left : Nat, n1 : Nat \ {0}, tot : Nat]
WriteInv ==
    \/ wr = NoWrite
    \/ /\ wr \in WriteCall /\ wr.n1 <= wr.left /\ wr.n1 <= MaxChunk /\ wr.tot <= wr.n1
       /\ wr.tot > 0 => /\ InRange
                        /\ off[wr.file] + wr.tot <= Len(content[wr.file])

BmapInv == Good(bitmap, addrs, blk) /\ BmapValues /\ WriteInv /\ ContentInv

\* No pointer leads anywhere at first.
LEMMA BmapInitInv == BmapInit => BmapInv
<1> SUFFICES ASSUME BmapInit PROVE BmapInv
  OBVIOUS
<1>0. /\ bitmap = {} /\ blk = [b \in BlockNo |-> Zeroed] /\ addrs = [f \in File |-> [i \in 0..NDIRECT + 1 |-> 0]]
      /\ size = [f \in File |-> 0] /\ off = [f \in File |-> 0] /\ txn = {} /\ wr = NoWrite /\ nops = 0
      /\ content = [f \in File |-> <<>>]
  BY DEF BmapInit
<1>1. Zeroed \in [Cells -> Nat] BY DEF Zeroed
<1>2. blk \in Blocks /\ addrs \in Inodes BY <1>0, <1>1 DEF Blocks, Inodes, Addr
<1>3. ASSUME NEW f \in File, NEW k, NEW i, NEW j, IsPlace(k, i, j) PROVE Ptr(addrs, blk, f, k, i, j) = 0
  <2>1. \A m \in 0..NDIRECT + 1 : addrs[f][m] = 0 BY <1>0
  <2>2. CASE k = "dir" BY <1>3, <2>1, <2>2 DEF Ptr, IsPlace
  <2>3. CASE k # "dir"
    <3>1. addrs[f][NDIRECT] = 0 /\ addrs[f][NDIRECT + 1] = 0 BY <2>1, BmapNumbers
    <3> QED BY <2>3, <3>1 DEF Ptr, Holder
  <2> QED BY <2>2, <2>3
<1>4. Good(bitmap, addrs, blk)
  <2>1. Sound(bitmap, addrs, blk) BY <1>3 DEF Sound
  <2> QED BY <1>0, <1>2, <2>1 DEF Good
<1>5. BmapValues BY <1>0, SizeNumbers DEF BmapValues
<1>6. WriteInv BY <1>0 DEF WriteInv
<1>7. ContentInv
  <2>1. \A f \in File : size[f] = 0 /\ Len(content[f]) = 0 BY <1>0
  <2> QED BY <2>1, SizeNumbers DEF ContentInv
<1> QED BY <1>4, <1>5, <1>6, <1>7 DEF BmapInv

\* Steps that change no contents.
LEMMA BmapQuiet ==
    ASSUME BmapInv, UNCHANGED <<bitmap, blk, addrs, content>>, BmapValues', WriteInv',
           \A f \in File : size'[f] <= Len(content[f])
    PROVE  BmapInv'
<1>1. ContentInv' BY DEF BmapInv, ContentInv
<1> QED BY <1>1 DEF BmapInv

\* The chunk that a call of write() of n bytes begins with.
LEMMA ChunkIs ==
    ASSUME NEW n \in Nat \ {0}
    PROVE  SmallerOf(n, MaxChunk) \in Nat \ {0} /\ SmallerOf(n, MaxChunk) <= n /\ SmallerOf(n, MaxChunk) <= MaxChunk
BY SizeNumbers DEF SmallerOf

\* write() begins.
LEMMA SysWriteStep ==
    ASSUME BmapInv, NEW f \in File, NEW n \in WriteSizes, SysWrite(f, n) PROVE BmapInv'
<1>1. /\ nops' = nops + 1 /\ txn' = {} /\ UNCHANGED <<diskState, off, content>>
      /\ wr' = [file |-> f, left |-> n, n1 |-> SmallerOf(n, MaxChunk), tot |-> 0]
  BY DEF SysWrite
<1>2. n \in Nat \ {0} BY BmapAssumption
<1>3. WriteInv'
  <2>1. SmallerOf(n, MaxChunk) \in Nat \ {0} /\ SmallerOf(n, MaxChunk) <= n /\ SmallerOf(n, MaxChunk) <= MaxChunk
    BY <1>2, ChunkIs
  <2> DEFINE c == SmallerOf(n, MaxChunk)
  <2>2. wr' = [file |-> f, left |-> n, n1 |-> c, tot |-> 0] BY <1>1
  <2> HIDE DEF c
  <2>3. c \in Nat \ {0} /\ c <= n /\ c <= MaxChunk BY <2>1 DEF c
  <2>4. /\ wr' \in WriteCall /\ wr'.n1 = c /\ wr'.left = n /\ wr'.tot = 0
    BY <1>2, <2>2, <2>3 DEF WriteCall
  <2> QED BY <2>3, <2>4 DEF WriteInv
<1>4. BmapValues' BY <1>1 DEF BmapInv, BmapValues, diskState
<1>5. \A g \in File : size'[g] <= Len(content[g]) BY <1>1 DEF BmapInv, ContentInv, diskState
<1> QED BY <1>1, <1>3, <1>4, <1>5, BmapQuiet DEF diskState

\* What WriteInv says of a call.
LEMMA CallIs ==
    ASSUME BmapInv, wr # NoWrite
    PROVE  /\ wr \in WriteCall /\ wr.file \in File /\ wr.left \in Nat /\ wr.n1 \in Nat \ {0} /\ wr.tot \in Nat
           /\ wr.n1 <= wr.left /\ wr.n1 <= MaxChunk /\ wr.tot <= wr.n1
           /\ wr.tot > 0 => InRange /\ off[wr.file] + wr.tot <= Len(content[wr.file])
           /\ off[wr.file] \in Nat /\ size[wr.file] \in Nat /\ size[wr.file] <= Len(content[wr.file])
           /\ size[wr.file] <= MaxSize /\ Len(content[wr.file]) \in Nat
<1>1. wr \in WriteCall /\ wr.n1 <= wr.left /\ wr.n1 <= MaxChunk /\ wr.tot <= wr.n1
      /\ (wr.tot > 0 => InRange /\ off[wr.file] + wr.tot <= Len(content[wr.file]))
  BY DEF BmapInv, WriteInv
<1>2. wr.file \in File /\ wr.left \in Nat /\ wr.n1 \in Nat \ {0} /\ wr.tot \in Nat BY <1>1 DEF WriteCall
<1>3. off[wr.file] \in Nat /\ size[wr.file] \in 0..MaxSize /\ content[wr.file] \in Seq(Nat)
  BY <1>2 DEF BmapInv, BmapValues
<1>4. size[wr.file] <= Len(content[wr.file]) BY <1>2 DEF BmapInv, ContentInv
<1>5. Len(content[wr.file]) \in Nat BY <1>3, LenProperties
<1> QED BY <1>1, <1>2, <1>3, <1>4, <1>5, SizeNumbers

\* write() gives up.
LEMMA WriteRefusedStep == ASSUME BmapInv, WriteRefused PROVE BmapInv'
<1>1. wr' = NoWrite /\ UNCHANGED <<diskState, off, txn, nops, content>> BY DEF WriteRefused
<1>2. WriteInv' BY <1>1 DEF WriteInv
<1>3. BmapValues' BY <1>1 DEF BmapInv, BmapValues, diskState
<1>4. \A g \in File : size'[g] <= Len(content[g]) BY <1>1 DEF BmapInv, ContentInv, diskState
<1> QED BY <1>1, <1>2, <1>3, <1>4, BmapQuiet DEF diskState

\* read() and open() move the offset only.
LEMMA OffsetStep ==
    ASSUME BmapInv, NEW f \in File, (\E n \in WriteSizes : SysRead(f, n)) \/ SysReopen(f)
    PROVE  BmapInv'
<1>1. wr = NoWrite /\ UNCHANGED <<diskState, txn, wr, nops, content>> BY DEF SysRead, SysReopen
<1>2. off' \in [File -> Nat]
  <2>0. off \in [File -> Nat] /\ size \in [File -> 0..MaxSize] BY DEF BmapInv, BmapValues
  <2>1. CASE SysReopen(f) BY <2>0, <2>1 DEF SysReopen
  <2>2. ASSUME NEW n \in WriteSizes, SysRead(f, n) PROVE off' \in [File -> Nat]
    <3>1. n \in Nat BY BmapAssumption
    <3>2. off' = [off EXCEPT ![f] = off[f] + SmallerOf(n, size[f] - off[f])] /\ off[f] < size[f]
      BY <2>0, <2>2 DEF SysRead
    <3>3. off[f] + SmallerOf(n, size[f] - off[f]) \in Nat BY <2>0, <3>1, <3>2, SizeNumbers DEF SmallerOf
    <3> QED BY <2>0, <3>2, <3>3
  <2> QED BY <2>1, <2>2
<1>3. WriteInv' BY <1>1 DEF WriteInv
<1>4. BmapValues' BY <1>1, <1>2 DEF BmapInv, BmapValues, diskState
<1>5. \A g \in File : size'[g] <= Len(content[g]) BY <1>1 DEF BmapInv, ContentInv, diskState
<1> QED BY <1>1, <1>3, <1>4, <1>5, BmapQuiet DEF diskState

-----------------------------------------------------------------------------
(* The steps of Bmap.                                                       *)
\* filewrite() goes on with the next chunk, or returns.
LEMMA NextChunkIs ==
    ASSUME BmapInv, wr # NoWrite, NEW L, L \subseteq BlockNo \cup {BitmapBlock}, NextChunk(L)
    PROVE  off' \in [File -> Nat] /\ txn' \subseteq BlockNo \cup {InodeBlock, BitmapBlock} /\ WriteInv'
<1> DEFINE left == wr.left - wr.n1
<1>1. /\ wr \in WriteCall /\ wr.file \in File /\ wr.left \in Nat /\ wr.n1 \in Nat \ {0}
      /\ wr.n1 <= wr.left
  BY CallIs
<1>2. /\ off' = [off EXCEPT ![wr.file] = @ + wr.n1]
      /\ txn' = IF left = 0 THEN txn \cup L \cup {InodeBlock} ELSE {}
      /\ wr' = IF left = 0 THEN NoWrite
               ELSE [wr EXCEPT !.left = left, !.n1 = SmallerOf(left, MaxChunk), !.tot = 0]
  BY DEF NextChunk
<1>3. left \in Nat BY <1>1
<1> HIDE DEF left
<1>4. off' \in [File -> Nat]
  <2>1. off \in [File -> Nat] BY DEF BmapInv, BmapValues
  <2>2. off[wr.file] + wr.n1 \in Nat BY <1>1, <2>1
  <2> QED BY <1>1, <1>2, <2>1, <2>2
<1>5. txn' \subseteq BlockNo \cup {InodeBlock, BitmapBlock} BY <1>2 DEF BmapInv, BmapValues
<1>6. CASE left = 0 BY <1>2, <1>4, <1>5, <1>6 DEF WriteInv
<1>7. CASE left # 0
  <2> DEFINE c == SmallerOf(left, MaxChunk)
  <2>1. c \in Nat \ {0} /\ c <= left /\ c <= MaxChunk BY <1>3, <1>7, ChunkIs
  <2>2. wr' = [wr EXCEPT !.left = left, !.n1 = c, !.tot = 0] BY <1>2, <1>7
  <2> HIDE DEF c
  <2>3. wr' \in WriteCall /\ wr'.n1 = c /\ wr'.left = left /\ wr'.tot = 0
    BY <1>1, <1>3, <2>1, <2>2 DEF WriteCall
  <2>4. WriteInv' BY <2>1, <2>3 DEF WriteInv
  <2> QED BY <1>4, <1>5, <2>4
<1> QED BY <1>6, <1>7

\* The end of a chunk.
LEMMA WriteChunkDoneStep == ASSUME BmapInv, WriteChunkDone PROVE BmapInv'
<1> DEFINE f == wr.file
           o == off[f] + wr.n1
<1>1. /\ wr # NoWrite /\ wr.tot = wr.n1 /\ size' = [size EXCEPT ![f] = IF o > @ THEN o ELSE @]
      /\ NextChunk({}) /\ UNCHANGED <<bitmap, blk, addrs, nops, content>>
  BY DEF WriteChunkDone
<1>2. off' \in [File -> Nat] /\ txn' \subseteq BlockNo \cup {InodeBlock, BitmapBlock} /\ WriteInv'
  BY <1>1, NextChunkIs
<1>3. f \in File /\ o \in Nat /\ o <= MaxSize /\ o <= Len(content[f])
  <2>1. wr.n1 \in Nat \ {0} /\ wr.file \in File /\ off[wr.file] \in Nat BY <1>1, CallIs
  <2>2. InRange /\ off[wr.file] + wr.tot <= Len(content[wr.file]) BY <1>1, <2>1, CallIs
  <2> QED BY <1>1, <2>1, <2>2 DEF InRange, MaxSize
<1> HIDE DEF o, f
<1>4. size' \in [File -> 0..MaxSize] /\ \A g \in File : size'[g] <= Len(content[g])
  <2>1. size \in [File -> 0..MaxSize] /\ \A g \in File : size[g] <= Len(content[g])
    BY DEF BmapInv, BmapValues, ContentInv
  <2>2. (IF o > size[f] THEN o ELSE size[f]) \in 0..MaxSize BY <1>3, <2>1, SizeNumbers
  <2> QED BY <1>1, <1>3, <2>1, <2>2
<1>5. BmapValues' BY <1>1, <1>2, <1>4 DEF BmapInv, BmapValues
<1> QED BY <1>1, <1>2, <1>4, <1>5, BmapQuiet

\* What itrunc() frees the file has pointers to.
LEMMA TruncatedIs ==
    ASSUME NEW f \in File, NEW b \in Truncated(f)
    PROVE  \E k, i, j : IsPlace(k, i, j) /\ Ptr(addrs, blk, f, k, i, j) = b
<1> DEFINE ind == addrs[f][NDIRECT]
<1>0. NDIRECT \in Nat /\ NINDIRECT \in Nat BY BmapNumbers
<1>1. \/ \E i \in 0..NDIRECT - 1 : b = addrs[f][i]
      \/ ind # 0 /\ b = ind
      \/ ind # 0 /\ \E j \in 0..NINDIRECT - 1 : b = blk[ind][j]
  BY DEF Truncated
<1>2. ASSUME NEW i \in 0..NDIRECT - 1, b = addrs[f][i]
      PROVE  IsPlace("dir", i, 0) /\ Ptr(addrs, blk, f, "dir", i, 0) = b
  BY <1>0, <1>2 DEF IsPlace, Ptr
<1>3. ASSUME b = ind
      PROVE  IsPlace("dir", NDIRECT, 0) /\ Ptr(addrs, blk, f, "dir", NDIRECT, 0) = b
  BY <1>3, BmapNumbers DEF IsPlace, Ptr
<1>4. ASSUME ind # 0, NEW j \in 0..NINDIRECT - 1, b = blk[ind][j]
      PROVE  IsPlace("ind", j, 0) /\ Ptr(addrs, blk, f, "ind", j, 0) = b
  BY <1>4 DEF IsPlace, Ptr, Holder, Entry, Idx
<1> QED BY <1>1, <1>2, <1>3, <1>4

\* A file is removed.
LEMMA ItruncStep == ASSUME BmapInv, NEW f \in File, Itrunc(f) PROVE BmapInv'
<1>1. /\ wr = NoWrite /\ bitmap' = bitmap \ Truncated(f)
      /\ addrs' = [addrs EXCEPT ![f] = [i \in 0..NDIRECT + 1 |-> 0]]
      /\ size' = [size EXCEPT ![f] = 0] /\ off' = [off EXCEPT ![f] = 0] /\ txn' = {BitmapBlock, InodeBlock}
      /\ content' = [content EXCEPT ![f] = <<>>] /\ UNCHANGED <<blk, wr, nops>>
  BY DEF Itrunc
<1>2. Good(bitmap, addrs, blk) /\ BmapValues /\ ContentInv BY DEF BmapInv
<1>3. /\ Good(bitmap', addrs', blk')
      /\ \A g \in File : \A l, m, n : IsPlace(l, m, n) =>
            Ptr(addrs', blk', g, l, m, n) = IF g = f THEN 0 ELSE Ptr(addrs, blk, g, l, m, n)
  <2>1. LedTo(addrs, blk, f, Truncated(f)) BY TruncatedIs DEF LedTo
  <2>2. Good(bitmap \ Truncated(f), Cleared(addrs, f), blk) /\ OthersPtrs(addrs, blk, Cleared(addrs, f), f)
    BY <1>2, <2>1, ClearedGood
  <2> QED BY <1>1, <2>2 DEF Cleared, OthersPtrs
<1>4. BmapValues'
  <2>1. size' \in [File -> 0..MaxSize] /\ off' \in [File -> Nat] /\ content' \in [File -> Seq(Nat)]
    <3>1. <<>> \in Seq(Nat) OBVIOUS
    <3> QED BY <1>1, <1>2, <3>1, SizeNumbers DEF BmapValues
  <2> QED BY <1>1, <1>2, <2>1 DEF BmapValues
<1>5. WriteInv' BY <1>1 DEF WriteInv
<1>6. ContentInv'
  <2>1. ASSUME NEW g \in File
        PROVE  /\ size'[g] <= Len(content'[g]) /\ Len(content'[g]) <= MaxSize
               /\ \A q \in Nat : q < Len(content'[g]) => Stored(addrs', blk', content'[g], g, q)
    <3>1. CASE g = f
      <4>1. size'[g] = 0 /\ content'[g] = <<>> BY <1>1, <1>2, <3>1 DEF BmapValues
      <4> QED BY <4>1, SizeNumbers
    <3>2. CASE g # f
      <4>1. size'[g] = size[g] /\ content'[g] = content[g] BY <1>1, <1>2, <3>2 DEF BmapValues
      <4>2. size[g] <= Len(content[g]) /\ Len(content[g]) <= MaxSize
            /\ \A q \in Nat : q < Len(content[g]) => Stored(addrs, blk, content[g], g, q)
        BY <1>2 DEF ContentInv
      <4>3. ASSUME NEW q \in Nat, q < Len(content[g]) PROVE Stored(addrs', blk', content[g], g, q)
        <5>1. q < MaxSize /\ content[g] \in Seq(Nat) BY <1>2, <4>2, <4>3, SizeNumbers, LenProperties DEF BmapValues
        <5>2. q \div BSIZE \in 0..MAXFILE - 1 BY <5>1, SizeNumbers
        <5>3. DataBlock(addrs', blk', g, q \div BSIZE) = DataBlock(addrs, blk, g, q \div BSIZE)
          BY <1>3, <3>2, <5>2, PlaceIs DEF DataBlock, IsData
        <5> QED BY <1>1, <4>2, <4>3, <5>3 DEF Stored
      <4> QED BY <4>1, <4>2, <4>3
    <3> QED BY <3>1, <3>2
  <2> QED BY <2>1 DEF ContentInv
<1> QED BY <1>3, <1>4, <1>5, <1>6 DEF BmapInv

\* bmap() on the state of the disk.
LEMMA FsStateIs ==
    ASSUME BmapInv, NEW f \in File
    PROVE  /\ addrs \in Inodes /\ FsState(f) \in StSet /\ StGood(addrs, f, FsState(f))
           /\ MapOf(addrs, f, FsState(f)) = addrs /\ FsState(f).blk = blk /\ FsState(f).used = bitmap
<1>1. Good(bitmap, addrs, blk) /\ addrs \in Inodes BY DEF BmapInv, Good
<1>2. FsState(f) \in StSet BY <1>1, BmapNumbers DEF FsState, StSet, Good, Inodes, Addr
<1>3. FsState(f).a = addrs[f] /\ FsState(f).used = bitmap /\ FsState(f).blk = blk BY DEF FsState
<1>4. MapOf(addrs, f, FsState(f)) = addrs BY <1>1, <1>3 DEF MapOf, Inodes
<1> QED BY <1>1, <1>2, <1>3, <1>4 DEF StGood

\* What it makes of the pointers and blocks.
LEMMA AfterBmap ==
    ASSUME BmapInv, NEW f \in File, NEW bn \in 0..MAXFILE - 1, Cardinality(BlockNo \ bitmap) >= 3
    PROVE  LET st == bmap(FsState(f), bn)
               A2 == [addrs EXCEPT ![f] = st.a]
           IN /\ Good(st.used, A2, st.blk) /\ Kept(addrs, blk, A2, st.blk)
              /\ st.addr # 0 /\ st.addr = DataBlock(A2, st.blk, f, bn) /\ st.addr \in BlockNo
              /\ st.log \subseteq BlockNo \cup {BitmapBlock}
              /\ st.log \subseteq {BitmapBlock} \cup OnPath(A2, st.blk, f, bn)
<1> DEFINE st == bmap(FsState(f), bn)
           A2 == [addrs EXCEPT ![f] = st.a]
<1>1. /\ addrs \in Inodes /\ StGood(addrs, f, FsState(f)) /\ MapOf(addrs, f, FsState(f)) = addrs
      /\ FsState(f).blk = blk /\ FsState(f).log = {} /\ Room(FsState(f).used, 3)
  <2>1. FsState(f).log = {} BY DEF FsState
  <2> QED BY <2>1, FsStateIs DEF Room
<1>2. /\ StGood(addrs, f, st) /\ Kept(addrs, blk, MapOf(addrs, f, st), st.blk)
      /\ st.addr # 0 /\ st.addr = StPtr(addrs, f, st, KindOf(bn), RowOf(bn), ColOf(bn))
      /\ st.log \subseteq {BitmapBlock} \cup OnPath(MapOf(addrs, f, st), st.blk, f, bn)
  BY <1>1, BmapGrows
<1>3. A2 = MapOf(addrs, f, st) BY DEF MapOf
<1> HIDE DEF st, A2
<1>4. st.addr \in BlockNo /\ st.log \subseteq BlockNo \cup {BitmapBlock} BY <1>2 DEF StGood, StSet, Addr
<1>5. Good(st.used, A2, st.blk) BY <1>2, <1>3 DEF StGood
<1>6. st.addr = DataBlock(A2, st.blk, f, bn) BY <1>2, <1>3 DEF StPtr, DataBlock
<1> QED BY <1>2, <1>3, <1>4, <1>5, <1>6 DEF st, A2

\* Bytes that have been written stay where they are.
LEMMA StoredStays ==
    ASSUME ContentInv, BmapValues, NEW A2, NEW B2, Kept(addrs, blk, A2, B2),
           NEW g \in File, NEW q \in Nat, q < Len(content[g])
    PROVE  /\ Stored(A2, B2, content[g], g, q)
           /\ DataBlock(A2, B2, g, q \div BSIZE) = DataBlock(addrs, blk, g, q \div BSIZE)
           /\ q \div BSIZE \in 0..MAXFILE - 1 /\ q % BSIZE \in Cells
<1>1. Stored(addrs, blk, content[g], g, q) /\ Len(content[g]) <= MaxSize BY DEF ContentInv
<1>2. content[g] \in Seq(Nat) BY DEF BmapValues
<1>3. q < MaxSize BY <1>1, <1>2, SizeNumbers, LenProperties
<1>4. q \div BSIZE \in 0..MAXFILE - 1 /\ q % BSIZE \in Cells BY <1>3, SizeNumbers
<1> DEFINE n == q \div BSIZE
<1> HIDE DEF n
<1>5. IsData(KindOf(n), RowOf(n), ColOf(n)) BY <1>4, PlaceIs DEF n
<1>6. DataBlock(addrs, blk, g, n) # 0 BY <1>1 DEF Stored, n
<1>7. DataBlock(A2, B2, g, n) = DataBlock(addrs, blk, g, n) /\ B2[DataBlock(addrs, blk, g, n)] = blk[DataBlock(addrs, blk, g, n)]
  BY <1>5, <1>6 DEF Kept, DataBlock, IsData
<1> QED BY <1>1, <1>4, <1>7 DEF Stored, n

\* A write fails in between.
LEMMA WriteFaultStep == ASSUME BmapInv, WriteFault PROVE BmapInv'
<1> DEFINE f == wr.file
           o == off[f] + wr.tot
           st == bmap(FsState(f), o \div BSIZE)
<1>1. /\ wr # NoWrite /\ InRange /\ wr.tot < wr.n1 /\ Cardinality(BlockNo \ bitmap) >= 3
      /\ bitmap' = st.used /\ blk' = st.blk /\ addrs' = [addrs EXCEPT ![f] = st.a]
      /\ size' = [size EXCEPT ![f] = IF o > @ THEN o ELSE @]
      /\ NextChunk(st.log) /\ UNCHANGED <<nops, content>>
  BY DEF WriteFault
<1>v. BmapValues /\ ContentInv BY DEF BmapInv
<1>2. f \in File /\ o \in Nat /\ o < MaxSize /\ o <= Len(content[f])
  <2>1. /\ wr.n1 \in Nat \ {0} /\ wr.tot \in Nat /\ wr.file \in File /\ off[wr.file] \in Nat
        /\ size[wr.file] \in Nat /\ size[wr.file] <= Len(content[wr.file]) /\ Len(content[wr.file]) \in Nat
        /\ wr.tot > 0 => off[wr.file] + wr.tot <= Len(content[wr.file])
    BY <1>1, CallIs
  <2>2. off[wr.file] <= size[wr.file] /\ off[wr.file] + wr.n1 <= MaxSize BY <1>1 DEF InRange, MaxSize
  <2>3. off[wr.file] + wr.tot <= Len(content[wr.file]) BY <2>1, <2>2
  <2>4. off[wr.file] + wr.tot \in Nat BY <2>1
  <2>5. wr.tot < wr.n1 BY <1>1
  <2>6. off[wr.file] + wr.tot < MaxSize BY <2>1, <2>2, <2>5, SizeNumbers
  <2> QED BY <2>1, <2>3, <2>4, <2>6
<1>3. o \div BSIZE \in 0..MAXFILE - 1 BY <1>2, SizeNumbers
<1> HIDE DEF f, o
<1>4. /\ Good(st.used, addrs', st.blk) /\ Kept(addrs, blk, addrs', st.blk)
      /\ st.log \subseteq BlockNo \cup {BitmapBlock}
  BY <1>1, <1>2, <1>3, AfterBmap
<1>5. off' \in [File -> Nat] /\ txn' \subseteq BlockNo \cup {InodeBlock, BitmapBlock} /\ WriteInv'
  BY <1>1, <1>4, NextChunkIs
<1> HIDE DEF st
<1>6. size' \in [File -> 0..MaxSize] /\ \A g \in File : size'[g] <= Len(content[g])
  <2>1. size \in [File -> 0..MaxSize] /\ \A g \in File : size[g] <= Len(content[g])
    BY <1>v DEF BmapValues, ContentInv
  <2>2. (IF o > size[f] THEN o ELSE size[f]) \in 0..MaxSize BY <1>2, <2>1, SizeNumbers
  <2> QED BY <1>1, <1>2, <2>1, <2>2
<1>7. BmapValues' BY <1>1, <1>5, <1>6, <1>v DEF BmapValues
<1>8. ContentInv'
  <2>1. \A g \in File : Len(content[g]) <= MaxSize BY <1>v DEF ContentInv
  <2>2. ASSUME NEW g \in File, NEW q \in Nat, q < Len(content[g]) PROVE Stored(addrs', blk', content[g], g, q)
    BY <1>1, <1>4, <1>v, <2>2, StoredStays
  <2> QED BY <1>1, <1>6, <2>1, <2>2 DEF ContentInv
<1> QED BY <1>1, <1>4, <1>5, <1>7, <1>8 DEF BmapInv

\* The contents after m bytes v at byte o.
LEMMA OverwriteIs ==
    ASSUME NEW s \in Seq(Nat), NEW o \in Nat, o <= Len(s), NEW m \in Nat \ {0}, NEW v \in Nat
    PROVE  LET t == Overwrite(s, o, m, v)
           IN /\ t \in Seq(Nat) /\ Len(t) >= Len(s) /\ Len(t) >= o + m
              /\ Len(t) = Len(s) \/ Len(t) = o + m
              /\ \A q \in Nat : q < Len(t) =>
                   /\ t[q + 1] = IF q \in o..o + m - 1 THEN v ELSE s[q + 1]
                   /\ q < Len(s) \/ q \in o..o + m - 1
<1> DEFINE n == IF o + m > Len(s) THEN o + m ELSE Len(s)
           t == Overwrite(s, o, m, v)
<1>0. Len(s) \in Nat BY LenProperties
<1>1. n \in Nat /\ n >= Len(s) /\ n >= o + m /\ (n = Len(s) \/ n = o + m) BY <1>0
<1>2. t = [i \in 1..n |-> IF i > o /\ i <= o + m THEN v ELSE s[i]] BY DEF Overwrite
<1> HIDE DEF n, t
<1>3. \A i \in 1..n : (IF i > o /\ i <= o + m THEN v ELSE s[i]) \in Nat
  <2>1. ASSUME NEW i \in 1..n PROVE (IF i > o /\ i <= o + m THEN v ELSE s[i]) \in Nat
    <3>1. CASE i \in 1..Len(s) BY <3>1, ElementOfSeq
    <3>2. CASE i \notin 1..Len(s) BY <1>0, <1>1, <3>2
    <3> QED BY <3>1, <3>2
  <2> QED BY <2>1
<1>4. t \in [1..n -> Nat] BY <1>2, <1>3
<1>5. t \in Seq(Nat) /\ Len(t) = n BY <1>1, <1>4, SeqDef, LenProperties
<1>6. ASSUME NEW q \in Nat, q < n
      PROVE  /\ t[q + 1] = IF q \in o..o + m - 1 THEN v ELSE s[q + 1]
             /\ q < Len(s) \/ q \in o..o + m - 1
  BY <1>0, <1>1, <1>2, <1>6
<1> QED BY <1>1, <1>5, <1>6 DEF t

\* A turn of writei()'s loop: the other bytes, in the block and elsewhere, stay.
LEMMA WriteTurnStep == ASSUME BmapInv, WriteTurn PROVE BmapInv'
<1> DEFINE f == wr.file
           o == off[f] + wr.tot
           m == Turn(o, wr.n1 - wr.tot)
           st == bmap(FsState(f), o \div BSIZE)
           b == st.addr
           lo == o % BSIZE
           x == [c \in Cells |-> IF c \in lo..lo + m - 1 THEN nops ELSE st.blk[b][c]]
           k == o \div BSIZE
<1>1. /\ wr # NoWrite /\ InRange /\ wr.tot < wr.n1 /\ Cardinality(BlockNo \ bitmap) >= 3
      /\ bitmap' = st.used /\ blk' = [st.blk EXCEPT ![b] = x]
      /\ addrs' = [addrs EXCEPT ![f] = st.a]
      /\ txn' = txn \cup st.log \cup {b}
      /\ wr' = [wr EXCEPT !.tot = wr.tot + m]
      /\ content' = [content EXCEPT ![f] = Overwrite(content[f], o, m, nops)]
      /\ UNCHANGED <<size, off, nops>>
  BY DEF WriteTurn
<1>v. BmapValues /\ ContentInv BY DEF BmapInv
<1>c. /\ wr \in WriteCall /\ wr.n1 \in Nat \ {0} /\ wr.tot \in Nat /\ f \in File /\ off[f] \in Nat
      /\ size[f] \in Nat /\ size[f] <= Len(content[f]) /\ Len(content[f]) \in Nat
      /\ wr.n1 <= wr.left /\ wr.left \in Nat /\ wr.n1 <= MaxChunk
      /\ wr.tot > 0 => off[f] + wr.tot <= Len(content[f])
  BY <1>1, CallIs
<1>r. off[f] <= size[f] /\ off[f] + wr.n1 <= MaxSize BY <1>1 DEF InRange, MaxSize
<1>s. wr.tot < wr.n1 /\ MaxSize \in Nat BY <1>1, SizeNumbers
<1>u. off[f] \in Nat /\ wr.tot \in Nat /\ wr.n1 \in Nat BY <1>c
<1> HIDE DEF f
<1>2. o \in Nat /\ o < MaxSize /\ o <= Len(content[f]) /\ wr.n1 - wr.tot \in Nat \ {0}
  <2>1. off[f] + wr.tot <= Len(content[f]) BY <1>c, <1>r
  <2>2. off[f] + wr.tot < MaxSize BY <1>r, <1>s, <1>u
  <2>3. off[f] + wr.tot \in Nat BY <1>u
  <2>4. wr.n1 - wr.tot \in Nat \ {0} BY <1>s, <1>u
  <2> QED BY <2>1, <2>2, <2>3, <2>4
<1>o. o = off[f] + wr.tot OBVIOUS
<1>3. k \in 0..MAXFILE - 1 BY <1>2, SizeNumbers
<1> HIDE DEF o
<1>4. /\ m \in 1..wr.n1 - wr.tot
      /\ \A q \in Nat : q \in o..o + m - 1 <=> q \div BSIZE = k /\ q % BSIZE \in lo..lo + m - 1
  BY <1>2, TurnIs
<1> HIDE DEF m
<1>5. /\ Good(st.used, addrs', st.blk) /\ Kept(addrs, blk, addrs', st.blk)
      /\ b # 0 /\ b = DataBlock(addrs', st.blk, f, k) /\ b \in BlockNo
      /\ st.log \subseteq BlockNo \cup {BitmapBlock}
  BY <1>1, <1>3, <1>c, AfterBmap DEF f
<1> HIDE DEF st, lo, k
<1>6. x \in [Cells -> Nat]
  <2>1. st.blk[b] \in [Cells -> Nat] BY <1>5 DEF Good, Blocks
  <2>2. nops \in Nat BY <1>v DEF BmapValues
  <2> HIDE DEF b
  <2> QED BY <2>1, <2>2
<1>x. \A c \in Cells : x[c] = IF c \in lo..lo + m - 1 THEN nops ELSE st.blk[b][c]
  OBVIOUS
<1> HIDE DEF x, b
<1>7. /\ Good(bitmap', addrs', blk')
      /\ \A g \in File : \A l, i, j : IsPlace(l, i, j) =>
            Ptr(addrs', blk', g, l, i, j) = Ptr(addrs', st.blk, g, l, i, j)
  <2>1. IsData(KindOf(k), RowOf(k), ColOf(k)) BY <1>3, PlaceIs
  <2>2. b = Ptr(addrs', st.blk, f, KindOf(k), RowOf(k), ColOf(k)) BY <1>5 DEF DataBlock
  <2> DEFINE b1 == Ptr(addrs', st.blk, f, KindOf(k), RowOf(k), ColOf(k))
  <2>3. Good(st.used, addrs', Written(st.blk, b1, x)) /\ SamePtrs(addrs', st.blk, Written(st.blk, b1, x))
    <3>1. Ptr(addrs', st.blk, f, KindOf(k), RowOf(k), ColOf(k)) # 0 /\ Good(st.used, addrs', st.blk) /\ f \in File
      BY <1>5, <1>c, <2>2
    <3> QED BY <1>6, <2>1, <3>1, WrittenGood
  <2>4. SamePtrs(addrs', st.blk, blk') /\ Good(bitmap', addrs', blk') BY <1>1, <2>2, <2>3 DEF Written
  <2> QED BY <2>4 DEF SamePtrs
<1>8. blk'[b] = x /\ \A c \in BlockNo : c # b => blk'[c] = st.blk[c]
  BY <1>1, <1>5 DEF Good, Blocks
<1> DEFINE t == Overwrite(content[f], o, m, nops)
<1>9. /\ t \in Seq(Nat) /\ Len(t) >= Len(content[f]) /\ Len(t) >= o + m
      /\ Len(t) = Len(content[f]) \/ Len(t) = o + m
      /\ \A q \in Nat : q < Len(t) =>
           /\ t[q + 1] = IF q \in o..o + m - 1 THEN nops ELSE content[f][q + 1]
           /\ q < Len(content[f]) \/ q \in o..o + m - 1
  <2>1. content[f] \in Seq(Nat) /\ nops \in Nat BY <1>c, <1>v DEF BmapValues
  <2>2. m \in Nat \ {0} BY <1>4, <1>c
  <2> HIDE DEF t
  <2> QED BY <1>2, <2>1, <2>2, OverwriteIs DEF t
<1>w. /\ content'[f] = t /\ \A g \in File : g # f => content'[g] = content[g]
      /\ content' \in [File -> Seq(Nat)]
  BY <1>1, <1>9, <1>c, <1>v DEF BmapValues
<1> HIDE DEF t
<1>10. BmapValues'
  <2>1. txn' \subseteq BlockNo \cup {InodeBlock, BitmapBlock} BY <1>1, <1>5, <1>v DEF BmapValues
  <2> QED BY <1>1, <1>v, <1>w, <2>1 DEF BmapValues
<1>11. WriteInv'
  <2>1. m \in Nat /\ m >= 1 /\ wr.tot + m <= wr.n1 BY <1>4, <1>c
  <2>2. wr' \in WriteCall /\ wr'.file = f /\ wr'.n1 = wr.n1 /\ wr'.left = wr.left /\ wr'.tot = wr.tot + m
    BY <1>1, <1>c, <2>1 DEF WriteCall, f
  <2>3. InRange' BY <1>1, <1>r, <2>2 DEF InRange, MaxSize
  <2>4. off'[wr'.file] + wr'.tot <= Len(content'[wr'.file])
    <3>1. off[f] + (wr.tot + m) = o + m BY <1>c, <1>o, <2>1
    <3> QED BY <1>1, <1>9, <1>w, <2>2, <3>1
  <2> QED BY <1>c, <2>1, <2>2, <2>3, <2>4 DEF WriteInv
<1>12. ASSUME NEW g \in File, NEW q \in Nat, q < Len(content[g])
       PROVE  /\ DataBlock(addrs', blk', g, q \div BSIZE) = DataBlock(addrs', st.blk, g, q \div BSIZE)
              /\ Stored(addrs', st.blk, content[g], g, q)
              /\ q \div BSIZE \in 0..MAXFILE - 1 /\ q % BSIZE \in Cells
              /\ DataBlock(addrs', st.blk, g, q \div BSIZE) \in BlockNo
  <2>1. Stored(addrs', st.blk, content[g], g, q) /\ q \div BSIZE \in 0..MAXFILE - 1 /\ q % BSIZE \in Cells
    BY <1>5, <1>12, <1>v, StoredStays
  <2> DEFINE n == q \div BSIZE
  <2>2. n \in 0..MAXFILE - 1 /\ DataBlock(addrs', st.blk, g, n) # 0 BY <2>1 DEF Stored
  <2> HIDE DEF n
  <2>3. IsPlace(KindOf(n), RowOf(n), ColOf(n)) BY <2>2, PlaceIs DEF IsData
  <2>4. DataBlock(addrs', blk', g, n) = DataBlock(addrs', st.blk, g, n) BY <1>7, <2>3 DEF DataBlock
  <2>5. DataBlock(addrs', st.blk, g, n) \in BlockNo BY <1>5, <2>2, <2>3 DEF DataBlock, Good, Sound
  <2> QED BY <2>1, <2>4, <2>5 DEF n
<1>13. ASSUME NEW g \in File, NEW q \in Nat, q < Len(content[g]), ~ (g = f /\ q \in o..o + m - 1)
       PROVE  Stored(addrs', blk', content[g], g, q)
  <2> DEFINE d == DataBlock(addrs', st.blk, g, q \div BSIZE)
  <2>1. /\ DataBlock(addrs', blk', g, q \div BSIZE) = d /\ d # 0 /\ d \in BlockNo
        /\ st.blk[d][q % BSIZE] = content[g][q + 1]
        /\ q \div BSIZE \in 0..MAXFILE - 1 /\ q % BSIZE \in Cells
    BY <1>12, <1>13 DEF Stored
  <2>2. CASE d # b BY <1>8, <2>1, <2>2 DEF Stored
  <2>3. CASE d = b
    <3> DEFINE n == q \div BSIZE
    <3>1. g = f /\ n = k
      <4>1. n \in 0..MAXFILE - 1 /\ DataBlock(addrs', st.blk, g, n) = b BY <2>1, <2>3
      <4> HIDE DEF n
      <4>2. IsPlace(KindOf(n), RowOf(n), ColOf(n)) /\ IsPlace(KindOf(k), RowOf(k), ColOf(k))
        BY <1>3, <4>1, PlaceIs DEF IsData
      <4>3. /\ Ptr(addrs', st.blk, g, KindOf(n), RowOf(n), ColOf(n)) = Ptr(addrs', st.blk, f, KindOf(k), RowOf(k), ColOf(k))
            /\ Ptr(addrs', st.blk, g, KindOf(n), RowOf(n), ColOf(n)) # 0
        BY <1>5, <4>1 DEF DataBlock
      <4>4. g = f /\ KindOf(n) = KindOf(k) /\ RowOf(n) = RowOf(k) /\ ColOf(n) = ColOf(k)
        BY <1>5, <1>c, <4>2, <4>3 DEF Good, Sound
      <4> QED BY <1>3, <4>1, <4>4, PlaceOnce
    <3>2. q % BSIZE \notin lo..lo + m - 1 BY <1>4, <1>13, <3>1
    <3>3. x[q % BSIZE] = st.blk[b][q % BSIZE] BY <1>x, <2>1, <3>2
    <3> QED BY <1>8, <2>1, <2>3, <3>3 DEF Stored
  <2> QED BY <2>2, <2>3
<1>14. ASSUME NEW q \in Nat, q \in o..o + m - 1
       PROVE  DataBlock(addrs', blk', f, q \div BSIZE) # 0 /\ blk'[DataBlock(addrs', blk', f, q \div BSIZE)][q % BSIZE] = nops
  <2>1. q \div BSIZE = k /\ q % BSIZE \in lo..lo + m - 1 BY <1>4, <1>14
  <2>2. DataBlock(addrs', blk', f, k) = b
    <3>1. IsPlace(KindOf(k), RowOf(k), ColOf(k)) BY <1>3, PlaceIs DEF IsData
    <3> QED BY <1>5, <1>7, <1>c, <3>1 DEF DataBlock
  <2>3. q % BSIZE \in Cells BY BmapNumbers, ModRange
  <2>4. x[q % BSIZE] = nops BY <1>x, <2>1, <2>3
  <2> QED BY <1>5, <1>8, <2>1, <2>2, <2>4
<1>15. ContentInv'
  <2>1. ASSUME NEW g \in File
        PROVE  /\ size'[g] <= Len(content'[g]) /\ Len(content'[g]) <= MaxSize
               /\ \A q \in Nat : q < Len(content'[g]) => Stored(addrs', blk', content'[g], g, q)
    <3>0. size[g] <= Len(content[g]) /\ Len(content[g]) <= MaxSize /\ size[g] \in Nat BY <1>v, SizeNumbers DEF ContentInv, BmapValues
    <3>1. CASE g # f
      <4>1. size'[g] = size[g] /\ content'[g] = content[g] BY <1>1, <1>w, <3>1
      <4> QED BY <1>13, <3>0, <3>1, <4>1
    <3>2. CASE g = f
      <4>1. size'[f] = size[f] /\ content'[f] = t BY <1>1, <1>w
      <4>2. o + m <= MaxSize /\ m \in Nat
        <5>1. m \in Nat /\ m <= wr.n1 - wr.tot BY <1>4, <1>u
        <5> QED BY <1>o, <1>r, <1>s, <1>u, <5>1
      <4>3. size'[f] <= Len(t) /\ Len(t) <= MaxSize
        <5>1. Len(t) \in Nat BY <1>9, LenProperties
        <5> QED BY <1>9, <1>c, <3>0, <3>2, <4>1, <4>2, <5>1
      <4>4. ASSUME NEW q \in Nat, q < Len(t) PROVE Stored(addrs', blk', t, f, q)
        <5>1. CASE q \in o..o + m - 1
          <6>1. t[q + 1] = nops BY <1>9, <4>4, <5>1
          <6> QED BY <1>14, <5>1, <6>1 DEF Stored
        <5>2. CASE q \notin o..o + m - 1
          <6>1. t[q + 1] = content[f][q + 1] /\ q < Len(content[f]) BY <1>9, <4>4, <5>2
          <6>2. Stored(addrs', blk', content[f], f, q) BY <1>13, <1>c, <5>2, <6>1
          <6> QED BY <6>1, <6>2 DEF Stored
        <5> QED BY <5>1, <5>2
      <4> QED BY <3>2, <4>1, <4>3, <4>4
    <3> QED BY <3>1, <3>2
  <2> QED BY <2>1 DEF ContentInv
<1> QED BY <1>7, <1>10, <1>11, <1>15 DEF BmapInv

-----------------------------------------------------------------------------
(* The theorems about Bmap.                                                 *)
\* Every step preserves the invariant, action by action.
LEMMA BmapNextInv == BmapInv /\ [BmapNext]_bmapVars => BmapInv'
<1> SUFFICES ASSUME BmapInv, [BmapNext]_bmapVars PROVE BmapInv'
  OBVIOUS
<1>1. ASSUME NEW f \in File, NEW n \in WriteSizes, SysWrite(f, n) PROVE BmapInv' BY <1>1, SysWriteStep
<1>2. ASSUME NEW f \in File, NEW n \in WriteSizes, SysRead(f, n) PROVE BmapInv' BY <1>2, OffsetStep
<1>3. CASE WriteRefused BY <1>3, WriteRefusedStep
<1>4. CASE WriteTurn BY <1>4, WriteTurnStep
<1>5. CASE WriteFault BY <1>5, WriteFaultStep
<1>6. CASE WriteChunkDone BY <1>6, WriteChunkDoneStep
<1>7. ASSUME NEW f \in File, SysReopen(f) PROVE BmapInv' BY <1>7, OffsetStep
<1>8. ASSUME NEW f \in File, Itrunc(f) PROVE BmapInv' BY <1>8, ItruncStep
<1>9. CASE UNCHANGED bmapVars
  <2>1. UNCHANGED <<bitmap, blk, addrs, size, off, txn, wr, nops, content>> BY <1>9 DEF bmapVars
  <2>2. BmapValues' BY <2>1 DEF BmapInv, BmapValues
  <2>3. WriteInv' BY <2>1 DEF BmapInv, WriteInv, InRange
  <2>4. \A f \in File : size'[f] <= Len(content[f]) BY <2>1 DEF BmapInv, ContentInv
  <2> QED BY <2>1, <2>2, <2>3, <2>4, BmapQuiet
<1> QED BY <1>1, <1>2, <1>3, <1>4, <1>5, <1>6, <1>7, <1>8, <1>9 DEF BmapNext

\* BmapInv is an invariant of Bmap, for any number and size of blocks.
THEOREM BmapInvariant == BmapSpec => []BmapInv
<1>1. BmapInit => BmapInv BY BmapInitInv
<1>2. BmapInv /\ [BmapNext]_bmapVars => BmapInv' BY BmapNextInv
<1> QED BY <1>1, <1>2, PTL DEF BmapSpec

\* Every variable of Bmap has the values the code allows: no file is longer than MAXFILE
\* blocks, and no transaction logs what is no block.
THEOREM BmapTypeCorrect == BmapSpec => []BmapTypeOK
<1>1. BmapInv => BmapTypeOK
  <2> SUFFICES ASSUME BmapInv PROVE BmapTypeOK
    OBVIOUS
  <2>1. bitmap \subseteq BlockNo /\ addrs \in [File -> [0..NDIRECT + 1 -> BlockNo \cup {0}]]
    BY DEF BmapInv, Good, Inodes, Addr
  <2>2. /\ \A f \in File : size[f] \in 0..MAXFILE * BSIZE
        /\ \A f \in File : off[f] \in Nat
        /\ txn \subseteq BlockNo \cup {InodeBlock, BitmapBlock}
    BY DEF BmapInv, BmapValues, MaxSize
  <2>3. wr.file \in File \cup {NoFile} BY DEF BmapInv, WriteInv, WriteCall, NoWrite
  <2> QED BY <2>1, <2>2, <2>3 DEF BmapTypeOK
<1> QED BY <1>1, BmapInvariant, PTL

\* Where the pointers of a file are.
LEMMA PointerIs ==
    ASSUME NEW f \in File, NEW x \in Pointers(f)
    PROVE  \E k, i, j :
             /\ IsPlace(k, i, j) /\ x[2] = Ptr(addrs, blk, f, k, i, j) /\ x[2] # 0
             /\ x = << IF k = "dir" THEN <<f, i>> ELSE <<Holder(addrs, blk, f, k, i), Entry(k, i, j)>>, x[2] >>
<1> DEFINE At(k, i, j) ==
             /\ IsPlace(k, i, j) /\ x[2] = Ptr(addrs, blk, f, k, i, j) /\ x[2] # 0
             /\ x = << IF k = "dir" THEN <<f, i>> ELSE <<Holder(addrs, blk, f, k, i), Entry(k, i, j)>>, x[2] >>
           direct == Live({<< <<f, i>>, addrs[f][i] >> : i \in 0..NDIRECT + 1})
           level1 == Pointees(addrs[f][NDIRECT])
           double == Pointees(addrs[f][NDIRECT + 1])
<1>1. x \in direct \/ x \in level1 \/ x \in double \/ \E y \in double : x \in Pointees(y[2])
  BY DEF Pointers
<1>2. ASSUME NEW b, NEW y \in Pointees(b)
      PROVE  b # 0 /\ \E j \in Idx : y = << <<b, j>>, blk[b][j] >> /\ y[2] = blk[b][j] /\ y[2] # 0
  <2>1. b # 0 BY <1>2 DEF Pointees
  <2>2. y[2] # 0 /\ \E j \in Idx : y = << <<b, j>>, blk[b][j] >> BY <1>2, <2>1 DEF Pointees, Live, Idx
  <2> QED BY <2>1, <2>2
<1>3. CASE x \in direct
  <2>1. PICK i \in 0..NDIRECT + 1 : x = << <<f, i>>, addrs[f][i] >> /\ x[2] # 0 BY <1>3 DEF Live
  <2>2. At("dir", i, 0) BY <2>1 DEF IsPlace, Ptr
  <2> QED BY <2>2
<1>4. CASE x \in level1
  <2>1. PICK j \in Idx : x = << <<addrs[f][NDIRECT], j>>, blk[addrs[f][NDIRECT]][j] >>
                         /\ x[2] = blk[addrs[f][NDIRECT]][j] /\ x[2] # 0 /\ addrs[f][NDIRECT] # 0
    BY <1>2, <1>4
  <2>2. At("ind", j, 0) BY <2>1 DEF IsPlace, Ptr, Holder, Entry
  <2> QED BY <2>2
<1>5. ASSUME NEW y \in double
      PROVE  \E i \in Idx : /\ y = << <<addrs[f][NDIRECT + 1], i>>, y[2] >> /\ addrs[f][NDIRECT + 1] # 0
                            /\ y[2] = blk[addrs[f][NDIRECT + 1]][i] /\ y[2] # 0
  BY <1>2, <1>5
<1>6. CASE x \in double
  <2>1. PICK i \in Idx : /\ x = << <<addrs[f][NDIRECT + 1], i>>, x[2] >> /\ addrs[f][NDIRECT + 1] # 0
                         /\ x[2] = blk[addrs[f][NDIRECT + 1]][i] /\ x[2] # 0
    BY <1>5, <1>6
  <2>2. At("dbl", i, 0) BY <2>1 DEF IsPlace, Ptr, Holder, Entry
  <2> QED BY <2>2
<1>7. ASSUME NEW y \in double, x \in Pointees(y[2]) PROVE \E k, i, j : At(k, i, j)
  <2>1. PICK i \in Idx : y[2] = blk[addrs[f][NDIRECT + 1]][i] /\ y[2] # 0 /\ addrs[f][NDIRECT + 1] # 0 BY <1>5, <1>7
  <2>2. PICK j \in Idx : x = << <<y[2], j>>, blk[y[2]][j] >> /\ x[2] = blk[y[2]][j] /\ x[2] # 0 BY <1>2, <1>7
  <2>3. At("lev", i, j) BY <2>1, <2>2 DEF IsPlace, Ptr, Holder, Entry
  <2> QED BY <2>3
<1> QED BY <1>1, <1>3, <1>4, <1>6, <1>7

\* Every block that a pointer leads to is marked in the bitmap, and no other pointer
\* leads to it, so that bfree() never finds its block free (balloc(), bmap(), itrunc()).
THEOREM BmapBlocksOwnedOnce == BmapSpec => []BlocksOwnedOnce
<1>1. BmapInv => BlocksOwnedOnce
  <2> SUFFICES ASSUME BmapInv PROVE BlocksOwnedOnce
    OBVIOUS
  <2>1. Sound(bitmap, addrs, blk) BY DEF BmapInv, Good
  <2>2. Reachable \subseteq bitmap
    <3>1. ASSUME NEW f \in File, NEW x \in Pointers(f) PROVE x[2] \in bitmap
      BY <2>1, <3>1, PointerIs DEF Sound
    <3> QED BY <3>1 DEF Reachable
  <2>3. ASSUME NEW f \in File, NEW g \in File, NEW x \in Pointers(f), NEW y \in Pointers(g), x[2] = y[2]
        PROVE  x = y
    <3>1. PICK k, i, j :
             /\ IsPlace(k, i, j) /\ x[2] = Ptr(addrs, blk, f, k, i, j) /\ x[2] # 0
             /\ x = << IF k = "dir" THEN <<f, i>> ELSE <<Holder(addrs, blk, f, k, i), Entry(k, i, j)>>, x[2] >>
      BY PointerIs
    <3>2. PICK l, m, n :
             /\ IsPlace(l, m, n) /\ y[2] = Ptr(addrs, blk, g, l, m, n) /\ y[2] # 0
             /\ y = << IF l = "dir" THEN <<g, m>> ELSE <<Holder(addrs, blk, g, l, m), Entry(l, m, n)>>, y[2] >>
      BY PointerIs
    <3>3. /\ IsPlace(k, i, j) /\ IsPlace(l, m, n)
          /\ Ptr(addrs, blk, f, k, i, j) # 0 /\ Ptr(addrs, blk, f, k, i, j) = Ptr(addrs, blk, g, l, m, n)
      BY <2>3, <3>1, <3>2
    <3>4. f = g /\ k = l /\ i = m /\ j = n BY <2>1, <3>3 DEF Sound
    <3> QED BY <2>3, <3>1, <3>2, <3>4
  <2> DEFINE all == UNION {Pointers(f) : f \in File}
  <2>4. ASSUME NEW x \in all, NEW y \in all, x[2] = y[2] PROVE x = y
    <3>1. PICK f \in File : x \in Pointers(f) OBVIOUS
    <3>2. PICK g \in File : y \in Pointers(g) OBVIOUS
    <3> QED BY <2>3, <2>4, <3>1, <3>2
  <2> QED BY <2>2, <2>4 DEF BlocksOwnedOnce
<1> QED BY <1>1, BmapInvariant, PTL

\* readi() finds at every offset what writei() put there last, through whatever pointers
\* bmap() follows, and whatever other files grow, are removed and take the blocks.
THEOREM BmapFileReadsBack == BmapSpec => []FileReadsBack
<1>1. BmapInv => FileReadsBack
  <2> SUFFICES ASSUME BmapInv, NEW f \in File, NEW o \in 0..size[f] - 1
               PROVE  ByteAt(f, o) = content[f][o + 1]
    BY DEF FileReadsBack
  <2>1. size[f] \in 0..MaxSize /\ size[f] <= Len(content[f]) /\ content[f] \in Seq(Nat)
    BY DEF BmapInv, BmapValues, ContentInv
  <2>2. o \in Nat /\ o < MaxSize /\ o < Len(content[f]) BY <2>1, SizeNumbers, LenProperties
  <2> DEFINE n == o \div BSIZE
             d == DataBlock(addrs, blk, f, n)
             st == FsState(f)
  <2>3. d # 0 /\ blk[d][o % BSIZE] = content[f][o + 1] BY <2>2 DEF BmapInv, ContentInv, Stored
  <2>4. n \in 0..MAXFILE - 1 BY <2>2, SizeNumbers
  <2>5. addrs \in Inodes /\ st \in StSet /\ MapOf(addrs, f, st) = addrs /\ st.blk = blk BY FsStateIs
  <2> HIDE DEF n, st
  <2>6. bmap(st, n) = [st EXCEPT !.addr = d] BY <2>3, <2>4, <2>5, BmapFollows
  <2> HIDE DEF d
  <2>7. bmap(st, n).blk = blk /\ bmap(st, n).addr = d BY <2>5, <2>6 DEF StSet
  <2>8. ByteAt(f, o) = bmap(st, n).blk[bmap(st, n).addr][o % BSIZE] BY DEF ByteAt, n, st
  <2> QED BY <2>3, <2>7, <2>8
<1> QED BY <1>1, BmapInvariant, PTL

-----------------------------------------------------------------------------
(* The blocks that a transaction touches.                                   *)
\* A quotient is no less than a number whose product is no more.
LEMMA DivAtLeast ==
    ASSUME NEW n \in Nat \ {0}, NEW x \in Nat, NEW q \in Nat, n * q <= x
    PROVE  q <= x \div n
<1> DEFINE p == x \div n
           s == x % n
<1>1. p \in Nat /\ s \in 0..n - 1 /\ x = n * p + s BY DivIs
<1> HIDE DEF p, s
<1>2. ASSUME p < q PROVE FALSE
  <2>1. q - p - 1 \in Nat BY <1>1, <1>2
  <2>2. n * (q - p - 1) \in Nat BY <2>1
  <2>3. n * (q - p - 1) = n * q - n * p - n BY <1>1
  <2>4. n * q \in Nat /\ n * p \in Nat BY <1>1
  <2> QED BY <1>1, <2>2, <2>3, <2>4
<1>3. q <= p BY <1>1, <1>2
<1> QED BY <1>3 DEF p

\* The quotients of numbers that are not far apart.
LEMMA DivNear ==
    ASSUME NEW n \in Nat \ {0}, NEW y \in Nat, NEW x \in Nat, NEW d \in Nat, y <= x, x <= y + d * n
    PROVE  x \div n \in (y \div n)..(y \div n) + d
<1> DEFINE q == y \div n
           r == y % n
<1>1. q \in Nat /\ r \in 0..n - 1 /\ y = n * q + r BY DivIs
<1> HIDE DEF q, r
<1>2. n * q \in Nat /\ d * n \in Nat BY <1>1
<1>3. q <= x \div n
  <2>1. n * q <= x BY <1>1, <1>2
  <2> QED BY <1>1, <2>1, DivAtLeast
<1>4. x \div n \in Nat /\ x \div n < q + 1 + d
  <2>1. (q + 1 + d) * n = n * q + n + d * n BY <1>1
  <2>2. x < (q + 1 + d) * n BY <1>1, <1>2, <2>1
  <2>3. q + 1 + d \in Nat BY <1>1
  <2> HIDE DEF q
  <2> QED BY <2>2, <2>3, DivIs
<1>5. x \div n \in q..q + d BY <1>1, <1>3, <1>4
<1> QED BY <1>5 DEF q

\* The blocks of a transaction that moves the bytes of a chunk, the first of them in block
\* k of file f: data, and what is between the inode and the data.
ChunkBlocks == (MaxOpBlocks - 1 - 1 - 2) \div 2
DataOf(k) == (k..k + ChunkBlocks) \cap (0..MAXFILE - 1)
RowsOf(k, R) == (IF k < NDIRECT + NINDIRECT THEN 0..R - 1 ELSE RowOf(k)..RowOf(k) + R) \cap Idx
Heads(A, B, f, k) ==
    {Ptr(A, B, f, "dir", NDIRECT + 1, 0)}
      \cup IF k < NDIRECT + NINDIRECT THEN {Ptr(A, B, f, "dir", NDIRECT, 0)} ELSE {}
Touched(A, B, f, k, R) ==
    Heads(A, B, f, k) \cup {DataBlock(A, B, f, bn) : bn \in DataOf(k)}
      \cup {Ptr(A, B, f, "dbl", r, 0) : r \in RowsOf(k, R)}

\* R blocks of pointers are enough for the pointers to a chunk.
LEMMA OnPathTouched ==
    ASSUME NEW R \in Nat, ChunkBlocks <= R * NINDIRECT, NEW A, NEW B, NEW f \in File,
           NEW k \in Nat, NEW bn \in DataOf(k)
    PROVE  OnPath(A, B, f, bn) \subseteq Touched(A, B, f, k, R)
<1>0. NDIRECT \in Nat /\ NINDIRECT \in Nat \ {0} /\ MaxOpBlocks \in Nat /\ MaxOpBlocks >= 6 BY BmapAssumption
<1>1. ChunkBlocks \in Nat BY <1>0 DEF ChunkBlocks
<1>2. bn \in k..k + ChunkBlocks /\ bn \in 0..MAXFILE - 1 BY DEF DataOf
<1>3. R * NINDIRECT \in Nat BY <1>0
<1>n. bn \in Nat BY <1>2, SizeNumbers
<1>4. Ptr(A, B, f, KindOf(bn), RowOf(bn), ColOf(bn)) \in Touched(A, B, f, k, R) BY DEF Touched, DataBlock
<1>5. CASE bn < NDIRECT BY <1>4, <1>5 DEF OnPath
<1>6. CASE bn >= NDIRECT /\ bn < NDIRECT + NINDIRECT
  <2>1. k < NDIRECT + NINDIRECT BY <1>0, <1>1, <1>2, <1>6
  <2>2. Ptr(A, B, f, "dir", NDIRECT, 0) \in Touched(A, B, f, k, R) BY <2>1 DEF Touched, Heads
  <2>3. ~ (bn < NDIRECT) /\ bn - NDIRECT < NINDIRECT BY <1>0, <1>6, <1>n
  <2> QED BY <1>4, <2>2, <2>3 DEF OnPath
<1>7. CASE bn >= NDIRECT + NINDIRECT
  <2> DEFINE x == bn - NDIRECT - NINDIRECT
  <2>1. x \in Nat /\ RowOf(bn) = x \div NINDIRECT /\ KindOf(bn) = "lev" BY <1>0, <1>2, <1>7 DEF RowOf, KindOf
  <2>2. RowOf(bn) \in Idx BY <1>2, <2>1, PlaceIs
  <2>3. RowOf(bn) \in RowsOf(k, R)
    <3>1. CASE k < NDIRECT + NINDIRECT
      <4>1. x < R * NINDIRECT BY <1>0, <1>1, <1>2, <1>3, <3>1
      <4>2. RowOf(bn) \in Nat /\ RowOf(bn) < R
        <5> HIDE DEF x
        <5>1. x \div NINDIRECT \in Nat /\ x \div NINDIRECT < R BY <1>0, <2>1, <4>1, DivIs, Zenon
        <5> QED BY <2>1, <5>1
      <4> QED BY <2>2, <3>1, <4>2 DEF RowsOf
    <3>2. CASE ~ (k < NDIRECT + NINDIRECT)
      <4> DEFINE y == k - NDIRECT - NINDIRECT
      <4>1. y \in Nat /\ y <= x /\ x <= y + R * NINDIRECT /\ RowOf(k) = y \div NINDIRECT
        BY <1>0, <1>1, <1>2, <1>3, <3>2 DEF RowOf
      <4>2. RowOf(bn) \in RowOf(k)..RowOf(k) + R
        <5> HIDE DEF x, y
        <5> QED BY <1>0, <2>1, <4>1, DivNear
      <4> QED BY <2>2, <3>2, <4>2 DEF RowsOf
    <3> QED BY <3>1, <3>2
  <2>4. Ptr(A, B, f, "dir", NDIRECT + 1, 0) \in Touched(A, B, f, k, R) BY DEF Touched, Heads
  <2>5. Ptr(A, B, f, "dbl", RowOf(bn), 0) \in Touched(A, B, f, k, R) BY <2>3 DEF Touched
  <2>6. ~ (bn < NDIRECT) /\ ~ (bn - NDIRECT < NINDIRECT) BY <1>0, <1>7, <1>n
  <2> QED BY <1>4, <2>4, <2>5, <2>6 DEF OnPath
<1> QED BY <1>0, <1>n, <1>5, <1>6, <1>7

\* They stay what they are when pointers appear.
LEMMA TouchedKept ==
    ASSUME NEW R \in Nat, NEW A, NEW B, NEW A2, NEW B2, NEW f \in File, NEW k \in Nat,
           \A g \in File : \A l, i, j : IsPlace(l, i, j) /\ Ptr(A, B, g, l, i, j) # 0 =>
              Ptr(A2, B2, g, l, i, j) = Ptr(A, B, g, l, i, j)
    PROVE  Touched(A, B, f, k, R) \ {0} \subseteq Touched(A2, B2, f, k, R)
<1> SUFFICES ASSUME NEW b \in Touched(A, B, f, k, R), b # 0 PROVE b \in Touched(A2, B2, f, k, R)
  OBVIOUS
<1>1. CASE b \in Heads(A, B, f, k)
  <2>1. IsPlace("dir", NDIRECT, 0) /\ IsPlace("dir", NDIRECT + 1, 0) BY BmapNumbers DEF IsPlace
  <2> QED BY <1>1, <2>1 DEF Heads, Touched
<1>2. ASSUME NEW bn \in DataOf(k), b = DataBlock(A, B, f, bn) PROVE b \in Touched(A2, B2, f, k, R)
  <2>1. IsPlace(KindOf(bn), RowOf(bn), ColOf(bn)) BY PlaceIs DEF IsData, DataOf
  <2>2. b = DataBlock(A2, B2, f, bn) BY <1>2, <2>1 DEF DataBlock
  <2> QED BY <2>2 DEF Touched
<1>3. ASSUME NEW r \in RowsOf(k, R), b = Ptr(A, B, f, "dbl", r, 0) PROVE b \in Touched(A2, B2, f, k, R)
  <2>1. IsPlace("dbl", r, 0) BY DEF IsPlace, RowsOf
  <2>2. b = Ptr(A2, B2, f, "dbl", r, 0) BY <1>3, <2>1
  <2> QED BY <2>2 DEF Touched
<1> QED BY <1>1, <1>2, <1>3 DEF Touched

\* At most n blocks.
AtMost(S, n) == IsFiniteSet(S) /\ Cardinality(S) <= n

\* Two sets together.
LEMMA AtMostUnion ==
    ASSUME NEW S, NEW T, NEW a \in Nat, NEW b \in Nat, AtMost(S, a), AtMost(T, b)
    PROVE  AtMost(S \cup T, a + b)
<1>1. IsFiniteSet(S) /\ IsFiniteSet(T) /\ Cardinality(S) <= a /\ Cardinality(T) <= b BY DEF AtMost
<1>2. IsFiniteSet(S \cap T) BY <1>1, FS_Subset
<1>3. /\ Cardinality(S) \in Nat /\ Cardinality(T) \in Nat /\ Cardinality(S \cap T) \in Nat
  BY <1>1, <1>2, FS_CardinalityType
<1>4. IsFiniteSet(S \cup T) /\ Cardinality(S \cup T) = Cardinality(S) + Cardinality(T) - Cardinality(S \cap T)
  BY <1>1, FS_Union
<1> QED BY <1>1, <1>3, <1>4 DEF AtMost

\* A part of a set.
LEMMA AtMostPart ==
    ASSUME NEW S, NEW T, NEW a \in Nat, NEW b \in Nat, AtMost(S, a), a <= b, T \subseteq S
    PROVE  AtMost(T, b)
<1>1. IsFiniteSet(S) /\ Cardinality(S) <= a BY DEF AtMost
<1>2. IsFiniteSet(T) /\ Cardinality(T) <= Cardinality(S) BY <1>1, FS_Subset
<1>3. Cardinality(S) \in Nat /\ Cardinality(T) \in Nat BY <1>1, <1>2, FS_CardinalityType
<1> QED BY <1>1, <1>2, <1>3 DEF AtMost

\* What a function makes of a set.
LEMMA AtMostImage ==
    ASSUME NEW S, NEW n \in Nat, AtMost(S, n), NEW g, DOMAIN g = S
    PROVE  AtMost({g[x] : x \in S}, n)
<1> DEFINE T == {g[x] : x \in S}
           h == [x \in S |-> g[x]]
<1>1. IsFiniteSet(S) /\ Cardinality(S) <= n BY DEF AtMost
<1>2. h \in [S -> T] OBVIOUS
<1>3. \A t \in T : \E x \in S : h[x] = t OBVIOUS
<1> HIDE DEF h, T
<1>4. h \in Surjection(S, T) BY <1>2, <1>3 DEF Surjection
<1>5. IsFiniteSet(T) /\ Cardinality(T) <= Cardinality(S) BY <1>1, <1>4, FS_Surjection
<1>6. Cardinality(S) \in Nat /\ Cardinality(T) \in Nat BY <1>1, <1>5, FS_CardinalityType
<1>7. AtMost(T, n) BY <1>1, <1>5, <1>6 DEF AtMost
<1> QED BY <1>7 DEF T

\* Numbers of an interval.
LEMMA AtMostRange ==
    ASSUME NEW k \in Nat, NEW n \in Nat, NEW m \in Int, m < k + n, NEW S, S \subseteq k..m
    PROVE  AtMost(S, n)
<1> DEFINE I == k..m
<1>1. IsFiniteSet(I) /\ Cardinality(I) = IF k > m THEN 0 ELSE m - k + 1
  <2>1. k \in Int OBVIOUS
  <2> QED BY <2>1, FS_Interval
<1>2. Cardinality(I) <= n BY <1>1
<1> HIDE DEF I
<1>3. AtMost(I, n) /\ S \subseteq I BY <1>1, <1>2 DEF AtMost, I
<1>4. n <= n OBVIOUS
<1> QED BY <1>3, <1>4, AtMostPart

\* One block.
LEMMA AtMostOne == ASSUME NEW x PROVE AtMost({x}, 1)
BY FS_Singleton DEF AtMost

\* A chunk touches no more than its blocks of data, one more when it does not begin at a
\* block's start, the inode's two pointer blocks and the pointers to them.
LEMMA TouchedCount ==
    ASSUME NEW R \in Nat, NEW A, NEW B, NEW f \in File, NEW k \in Nat
    PROVE  AtMost(Touched(A, B, f, k, R), ChunkBlocks + R + 3)
<1>0. NDIRECT \in Nat /\ NINDIRECT \in Nat \ {0} /\ MaxOpBlocks \in Nat /\ MaxOpBlocks >= 6 BY BmapAssumption
<1>1. ChunkBlocks \in Nat BY <1>0 DEF ChunkBlocks
<1> DEFINE D == DataOf(k)
           P == RowsOf(k, R)
           gd == [bn \in D |-> DataBlock(A, B, f, bn)]
           gp == [r \in P |-> Ptr(A, B, f, "dbl", r, 0)]
           H == Heads(A, B, f, k)
           x == Ptr(A, B, f, "dir", NDIRECT + 1, 0)
           y == Ptr(A, B, f, "dir", NDIRECT, 0)
           Data == {gd[bn] : bn \in D}
           Ptrs == {gp[r] : r \in P}
<1>2. Touched(A, B, f, k, R) = (H \cup Data) \cup Ptrs BY DEF Touched
<1>3. AtMost(D, ChunkBlocks + 1)
  <2>1. D \subseteq k..k + ChunkBlocks BY DEF DataOf
  <2>2. k + ChunkBlocks \in Int /\ k + ChunkBlocks < k + (ChunkBlocks + 1) /\ ChunkBlocks + 1 \in Nat BY <1>1
  <2> HIDE DEF D
  <2> QED BY <2>1, <2>2, AtMostRange
<1>4. AtMost(Data, ChunkBlocks + 1)
  <2>1. DOMAIN gd = D OBVIOUS
  <2> HIDE DEF D, gd
  <2> QED BY <1>1, <1>3, <2>1, AtMostImage
<1>5. CASE k < NDIRECT + NINDIRECT
  <2>1. AtMost(H, 2)
    <3>1. H = {x} \cup {y} BY <1>5 DEF Heads
    <3>2. AtMost({x}, 1) /\ AtMost({y}, 1) BY AtMostOne
    <3> HIDE DEF H, x, y
    <3>3. AtMost({x} \cup {y}, 1 + 1) BY <3>2, AtMostUnion
    <3> QED BY <3>1, <3>3
  <2>2. AtMost(P, R)
    <3>1. P \subseteq 0..R - 1 BY <1>5 DEF RowsOf
    <3>2. 0 \in Nat /\ R - 1 \in Int /\ R - 1 < 0 + R OBVIOUS
    <3> HIDE DEF P
    <3> QED BY <3>1, <3>2, AtMostRange
  <2>3. AtMost(Ptrs, R)
    <3>1. DOMAIN gp = P OBVIOUS
    <3> HIDE DEF P, gp
    <3> QED BY <2>2, <3>1, AtMostImage
  <2>t. 1 \in Nat /\ 2 \in Nat /\ ChunkBlocks + 1 \in Nat /\ 2 + (ChunkBlocks + 1) \in Nat /\ 1 + (ChunkBlocks + 1) \in Nat /\ R + 1 \in Nat BY <1>1
  <2> HIDE DEF H, Data, Ptrs
  <2>4. AtMost(H \cup Data, 2 + (ChunkBlocks + 1)) BY <1>4, <2>1, <2>t, AtMostUnion
  <2>5. AtMost((H \cup Data) \cup Ptrs, (2 + (ChunkBlocks + 1)) + R)
    BY <2>3, <2>4, <2>t, AtMostUnion
  <2>6. (2 + (ChunkBlocks + 1)) + R = ChunkBlocks + R + 3 BY <1>1
  <2> QED BY <1>2, <2>5, <2>6
<1>6. CASE ~ (k < NDIRECT + NINDIRECT)
  <2>1. AtMost(H, 1)
    <3>1. H = {x} BY <1>6 DEF Heads
    <3> QED BY <3>1, AtMostOne
  <2>2. AtMost(P, R + 1)
    <3>1. RowOf(k) \in Nat
      <4>1. RowOf(k) = (k - NDIRECT - NINDIRECT) \div NINDIRECT BY <1>0, <1>6 DEF RowOf
      <4> DEFINE z == k - NDIRECT - NINDIRECT
      <4>2. z \in Nat BY <1>0, <1>6
      <4>3. RowOf(k) = z \div NINDIRECT BY <4>1
      <4> HIDE DEF z
      <4>4. 0 \in Nat OBVIOUS
      <4>5. z \div NINDIRECT \in Nat BY <1>0, <4>2, <4>4, DivIs, Zenon
      <4> QED BY <4>3, <4>5
    <3>2. P \subseteq RowOf(k)..RowOf(k) + R BY <1>6 DEF RowsOf
    <3>3. RowOf(k) + R \in Int /\ RowOf(k) + R < RowOf(k) + (R + 1) /\ R + 1 \in Nat BY <3>1
    <3> HIDE DEF P
    <3> QED BY <3>1, <3>2, <3>3, AtMostRange
  <2>3. AtMost(Ptrs, R + 1)
    <3>1. DOMAIN gp = P OBVIOUS
    <3> HIDE DEF P, gp
    <3> QED BY <2>2, <3>1, AtMostImage
  <2>t. 1 \in Nat /\ 2 \in Nat /\ ChunkBlocks + 1 \in Nat /\ 2 + (ChunkBlocks + 1) \in Nat /\ 1 + (ChunkBlocks + 1) \in Nat /\ R + 1 \in Nat BY <1>1
  <2> HIDE DEF H, Data, Ptrs
  <2>4. AtMost(H \cup Data, 1 + (ChunkBlocks + 1)) BY <1>4, <2>1, <2>t, AtMostUnion
  <2>5. AtMost((H \cup Data) \cup Ptrs, (1 + (ChunkBlocks + 1)) + (R + 1))
    BY <2>3, <2>4, <2>t, AtMostUnion
  <2>6. (1 + (ChunkBlocks + 1)) + (R + 1) = ChunkBlocks + R + 3 BY <1>1
  <2> QED BY <1>2, <2>5, <2>6
<1> QED BY <1>5, <1>6

\* What such a transaction logs with the bitmap and the inode fits.
LEMMA TouchedFits ==
    ASSUME NEW R \in Nat, ChunkBlocks + R + 5 <= MaxOpBlocks, NEW A, NEW B, NEW f \in File, NEW k \in Nat,
           NEW S, S \subseteq {BitmapBlock} \cup Touched(A, B, f, k, R)
    PROVE  Cardinality(S \cup {InodeBlock}) <= MaxOpBlocks
<1>0. MaxOpBlocks \in Nat /\ MaxOpBlocks >= 6 BY BmapAssumption
<1>1. ChunkBlocks \in Nat BY <1>0 DEF ChunkBlocks
<1> DEFINE T == Touched(A, B, f, k, R)
<1>2. AtMost(T, ChunkBlocks + R + 3) BY TouchedCount
<1>3. AtMost({BitmapBlock}, 1) /\ AtMost({InodeBlock}, 1) BY AtMostOne
<1> HIDE DEF T
<1>4. AtMost({BitmapBlock} \cup T, 1 + (ChunkBlocks + R + 3)) BY <1>1, <1>2, <1>3, AtMostUnion
<1>5. AtMost(({BitmapBlock} \cup T) \cup {InodeBlock}, (1 + (ChunkBlocks + R + 3)) + 1)
  BY <1>1, <1>3, <1>4, AtMostUnion
<1>6. S \cup {InodeBlock} \subseteq ({BitmapBlock} \cup T) \cup {InodeBlock} BY DEF T
<1>7. AtMost(S \cup {InodeBlock}, MaxOpBlocks) BY <1>0, <1>1, <1>5, <1>6, AtMostPart
<1> QED BY <1>7 DEF AtMost

\* The chunk that is being written touches what its transaction has logged.
Fits(R) == ChunkBlocks <= R * NINDIRECT /\ ChunkBlocks + R + 5 <= MaxOpBlocks
Chunk(A, B, R) == Touched(A, B, wr.file, off[wr.file] \div BSIZE, R)
TxnInv(R) ==
    /\ TransactionFits
    /\ wr # NoWrite => txn \subseteq {BitmapBlock} \cup Chunk(addrs, blk, R)

\* What bmap() logs for the byte it has come to.
LEMMA LogTouched ==
    ASSUME BmapInv, wr # NoWrite, InRange, wr.tot < wr.n1, Cardinality(BlockNo \ bitmap) >= 3,
           NEW R \in Nat, ChunkBlocks <= R * NINDIRECT
    PROVE  LET st == bmap(FsState(wr.file), (off[wr.file] + wr.tot) \div BSIZE)
               A2 == [addrs EXCEPT ![wr.file] = st.a]
           IN /\ Good(st.used, A2, st.blk) /\ Kept(addrs, blk, A2, st.blk)
              /\ st.addr \in Chunk(A2, st.blk, R)
              /\ st.log \subseteq {BitmapBlock} \cup Chunk(A2, st.blk, R)
              /\ st.addr # 0 /\ \E k, i, j : IsData(k, i, j) /\ st.addr = Ptr(A2, st.blk, wr.file, k, i, j)
              /\ 0 \notin st.log
<1> DEFINE f == wr.file
           y == off[f]
           x == y + wr.tot
           bn == x \div BSIZE
           k == y \div BSIZE
           st == bmap(FsState(f), bn)
           A2 == [addrs EXCEPT ![f] = st.a]
<1>1. /\ wr.n1 \in Nat \ {0} /\ wr.tot \in Nat /\ f \in File /\ y \in Nat /\ wr.n1 <= MaxChunk
  BY CallIs
<1>2. y + wr.n1 <= MaxSize BY DEF InRange, MaxSize
<1>3. ChunkBlocks \in Nat /\ MaxChunk = ChunkBlocks * BSIZE /\ BSIZE \in Nat \ {0}
  BY BmapNumbers DEF ChunkBlocks, MaxChunk
<1>4. x \in Nat /\ x < MaxSize /\ y <= x /\ x <= y + ChunkBlocks * BSIZE
  <2>1. MaxSize \in Nat /\ MaxChunk \in Nat BY SizeNumbers
  <2> QED BY <1>1, <1>2, <1>3, <2>1
<1>5. bn \in 0..MAXFILE - 1 BY <1>4, SizeNumbers
<1> HIDE DEF x, y
<1>6. k \in Nat
  <2>1. 0 \in Nat OBVIOUS
  <2> QED BY <1>1, <1>3, <2>1, DivIs, Zenon
<1>7. bn \in DataOf(k)
  <2>1. bn \in k..k + ChunkBlocks BY <1>1, <1>3, <1>4, DivNear
  <2> QED BY <1>5, <2>1 DEF DataOf
<1> HIDE DEF bn, k, f
<1>8. /\ Good(st.used, A2, st.blk) /\ Kept(addrs, blk, A2, st.blk)
      /\ st.addr # 0 /\ st.addr = DataBlock(A2, st.blk, f, bn)
      /\ st.log \subseteq BlockNo \cup {BitmapBlock}
      /\ st.log \subseteq {BitmapBlock} \cup OnPath(A2, st.blk, f, bn)
  BY <1>1, <1>5, AfterBmap
<1>d. IsData(KindOf(bn), RowOf(bn), ColOf(bn)) BY <1>5, PlaceIs
<1> HIDE DEF st, A2
<1>9. OnPath(A2, st.blk, f, bn) \subseteq Touched(A2, st.blk, f, k, R)
  BY <1>1, <1>6, <1>7, OnPathTouched
<1>10. st.addr \in Touched(A2, st.blk, f, k, R) BY <1>8, <1>9 DEF OnPath, DataBlock
<1>11. 0 \notin st.log
  <2>1. 0 \notin BlockNo /\ BitmapBlock # 0 BY BmapNumbers DEF BitmapBlock
  <2> QED BY <1>8, <2>1
<1>12. st.addr # 0 /\ \E l, i, j : IsData(l, i, j) /\ st.addr = Ptr(A2, st.blk, f, l, i, j)
  BY <1>8, <1>d DEF DataBlock
<1> QED BY <1>8, <1>9, <1>10, <1>11, <1>12 DEF st, A2, f, k, bn, x, y, Chunk

\* Pointers that are set stay.
PtrsStay(A, B, A2, B2) ==
    \A g \in File : \A l, i, j : IsPlace(l, i, j) /\ Ptr(A, B, g, l, i, j) # 0 =>
        Ptr(A2, B2, g, l, i, j) = Ptr(A, B, g, l, i, j)

\* Blocks of the chunk belong to it still when bmap() has set pointers.
LEMMA ChunkKept ==
    ASSUME BmapInv, wr # NoWrite, NEW R \in Nat, NEW A, NEW B, NEW A2, NEW B2,
           PtrsStay(A, B, A2, B2),
           NEW S, 0 \notin S, S \subseteq {BitmapBlock} \cup Chunk(A, B, R)
    PROVE  S \subseteq {BitmapBlock} \cup Chunk(A2, B2, R)
<1>1. wr.file \in File /\ off[wr.file] \in Nat BY CallIs
<1>2. off[wr.file] \div BSIZE \in Nat
  <2>1. 0 \in Nat /\ BSIZE \in Nat \ {0} BY BmapNumbers
  <2> QED BY <1>1, <2>1, DivIs, Zenon
<1>3. Chunk(A, B, R) \ {0} \subseteq Chunk(A2, B2, R) BY <1>1, <1>2, TouchedKept DEF Chunk, PtrsStay
<1> QED BY <1>3

\* A transaction that has logged what its chunk touches fits.
LEMMA ChunkFits ==
    ASSUME BmapInv, wr # NoWrite, NEW R \in Nat, Fits(R), NEW A2, NEW B2,
           NEW S, S \subseteq {BitmapBlock} \cup Chunk(A2, B2, R)
    PROVE  Cardinality(S \cup {InodeBlock}) <= MaxOpBlocks
<1>1. wr.file \in File /\ off[wr.file] \in Nat BY CallIs
<1>2. off[wr.file] \div BSIZE \in Nat
  <2>1. 0 \in Nat /\ BSIZE \in Nat \ {0} BY BmapNumbers
  <2> QED BY <1>1, <2>1, DivIs, Zenon
<1> QED BY <1>1, <1>2, TouchedFits DEF Chunk, Fits

\* The transactions of the other calls.
LEMMA FewFit ==
    /\ Cardinality({} \cup {InodeBlock}) <= MaxOpBlocks
    /\ Cardinality({BitmapBlock, InodeBlock} \cup {InodeBlock}) <= MaxOpBlocks
<1>1. AtMost({BitmapBlock}, 1) /\ AtMost({InodeBlock}, 1) BY AtMostOne
<1>2. AtMost({BitmapBlock} \cup {InodeBlock}, 1 + 1) BY <1>1, AtMostUnion
<1>3. MaxOpBlocks \in Nat /\ 1 + 1 <= MaxOpBlocks BY BmapNumbers
<1>4. AtMost({} \cup {InodeBlock}, MaxOpBlocks) /\ AtMost({BitmapBlock, InodeBlock} \cup {InodeBlock}, MaxOpBlocks)
  <2>1. {} \cup {InodeBlock} \subseteq {BitmapBlock} \cup {InodeBlock} OBVIOUS
  <2>2. {BitmapBlock, InodeBlock} \cup {InodeBlock} \subseteq {BitmapBlock} \cup {InodeBlock} OBVIOUS
  <2> QED BY <1>2, <1>3, <2>1, <2>2, AtMostPart
<1> QED BY <1>4 DEF AtMost

-----------------------------------------------------------------------------
(* No transaction of filewrite() is too big.                                *)
\* A turn of the loop adds blocks of the chunk.
LEMMA WriteTurnFits ==
    ASSUME BmapInv, NEW R \in Nat, Fits(R), TxnInv(R), WriteTurn PROVE TxnInv(R)'
<1> DEFINE f == wr.file
           o == off[f] + wr.tot
           m == Turn(o, wr.n1 - wr.tot)
           st == bmap(FsState(f), o \div BSIZE)
           b == st.addr
           lo == o % BSIZE
           x == [c \in Cells |-> IF c \in lo..lo + m - 1 THEN nops ELSE st.blk[b][c]]
<1>1. /\ wr # NoWrite /\ InRange /\ wr.tot < wr.n1 /\ Cardinality(BlockNo \ bitmap) >= 3
      /\ blk' = [st.blk EXCEPT ![b] = x] /\ addrs' = [addrs EXCEPT ![f] = st.a]
      /\ txn' = txn \cup st.log \cup {b}
      /\ wr' = [wr EXCEPT !.tot = wr.tot + m] /\ off' = off
  BY DEF WriteTurn
<1>2. /\ Good(st.used, addrs', st.blk) /\ Kept(addrs, blk, addrs', st.blk)
      /\ b \in Chunk(addrs', st.blk, R) /\ st.log \subseteq {BitmapBlock} \cup Chunk(addrs', st.blk, R)
      /\ b # 0 /\ \E l, i, j : IsData(l, i, j) /\ b = Ptr(addrs', st.blk, f, l, i, j)
      /\ 0 \notin st.log
  BY <1>1, LogTouched DEF Fits
<1>c. wr \in WriteCall /\ f \in File BY <1>1, CallIs
<1> HIDE DEF f, o, m, st, lo
<1>3. x \in [Cells -> Nat]
  <2>1. b \in BlockNo BY <1>2, <1>c DEF Good, Sound, IsData
  <2>2. st.blk[b] \in [Cells -> Nat] BY <1>2, <2>1 DEF Good, Blocks
  <2>3. nops \in Nat BY DEF BmapInv, BmapValues
  <2> HIDE DEF b
  <2> QED BY <2>2, <2>3
<1> HIDE DEF x, b
<1>4. SamePtrs(addrs', st.blk, blk')
  <2>1. PICK l, i, j : IsData(l, i, j) /\ b = Ptr(addrs', st.blk, f, l, i, j) BY <1>2
  <2> DEFINE p == Ptr(addrs', st.blk, f, l, i, j)
  <2>2. p # 0 BY <1>2, <2>1
  <2>3. SamePtrs(addrs', st.blk, Written(st.blk, p, x)) BY <1>2, <1>3, <1>c, <2>1, <2>2, WrittenGood
  <2> QED BY <1>1, <2>1, <2>3 DEF Written
<1>5. txn \subseteq {BitmapBlock} \cup Chunk(addrs', st.blk, R) /\ 0 \notin txn
  <2>1. txn \subseteq {BitmapBlock} \cup Chunk(addrs, blk, R) BY <1>1 DEF TxnInv
  <2>2. 0 \notin BlockNo /\ InodeBlock # 0 /\ BitmapBlock # 0 BY BmapNumbers DEF InodeBlock, BitmapBlock
  <2>3. 0 \notin txn BY <2>2 DEF BmapInv, BmapValues
  <2>4. PtrsStay(addrs, blk, addrs', st.blk) BY <1>2 DEF Kept, PtrsStay
  <2> QED BY <1>1, <2>1, <2>3, <2>4, ChunkKept
<1>6. txn' \subseteq {BitmapBlock} \cup Chunk(addrs', st.blk, R) /\ 0 \notin txn' BY <1>1, <1>2, <1>5
<1>7. txn' \subseteq {BitmapBlock} \cup Chunk(addrs', blk', R)
  <2>1. PtrsStay(addrs', st.blk, addrs', blk') BY <1>4 DEF SamePtrs, PtrsStay
  <2>2. PICK S, A, B, B2 : S = txn' /\ A = addrs' /\ B = st.blk /\ B2 = blk' OBVIOUS
  <2>3. PtrsStay(A, B, A, B2) /\ 0 \notin S /\ S \subseteq {BitmapBlock} \cup Chunk(A, B, R) BY <1>6, <2>1, <2>2
  <2>4. S \subseteq {BitmapBlock} \cup Chunk(A, B2, R) BY <1>1, <2>3, ChunkKept
  <2> QED BY <2>2, <2>4
<1>8. wr'.file = wr.file BY <1>1, <1>c DEF WriteCall
<1>9. txn' \subseteq {BitmapBlock} \cup Touched(addrs', blk', wr'.file, off'[wr'.file] \div BSIZE, R)
  BY <1>1, <1>7, <1>8 DEF Chunk
<1>10. Cardinality(txn' \cup {InodeBlock}) <= MaxOpBlocks BY <1>1, <1>7, ChunkFits
<1> QED BY <1>9, <1>10 DEF TxnInv, Chunk, TransactionFits

\* The end of a chunk.
LEMMA NextChunkFits ==
    ASSUME BmapInv, NEW R \in Nat, Fits(R), wr # NoWrite, NEW A2, NEW B2, NEW L,
           txn \cup L \subseteq {BitmapBlock} \cup Chunk(A2, B2, R), NextChunk(L)
    PROVE  TxnInv(R)'
<1> DEFINE left == wr.left - wr.n1
<1>1. /\ txn' = IF left = 0 THEN txn \cup L \cup {InodeBlock} ELSE {}
      /\ left = 0 => wr' = NoWrite
  BY DEF NextChunk
<1> HIDE DEF left
<1>2. CASE left = 0
  <2>1. Cardinality((txn \cup L) \cup {InodeBlock}) <= MaxOpBlocks BY ChunkFits
  <2>2. txn' \cup {InodeBlock} = (txn \cup L) \cup {InodeBlock} BY <1>1, <1>2
  <2> QED BY <1>1, <1>2, <2>1, <2>2 DEF TxnInv, TransactionFits
<1>3. CASE left # 0
  <2>1. txn' = {} BY <1>1, <1>3
  <2> QED BY <2>1, FewFit DEF TxnInv, TransactionFits
<1> QED BY <1>2, <1>3

\* writei() ends early.
LEMMA WriteFaultFits ==
    ASSUME BmapInv, NEW R \in Nat, Fits(R), TxnInv(R), WriteFault PROVE TxnInv(R)'
<1> DEFINE f == wr.file
           o == off[f] + wr.tot
           st == bmap(FsState(f), o \div BSIZE)
           A2 == [addrs EXCEPT ![f] = st.a]
<1>1. /\ wr # NoWrite /\ InRange /\ wr.tot < wr.n1 /\ Cardinality(BlockNo \ bitmap) >= 3
      /\ NextChunk(st.log)
  BY DEF WriteFault
<1>2. Kept(addrs, blk, A2, st.blk) /\ st.log \subseteq {BitmapBlock} \cup Chunk(A2, st.blk, R)
  BY <1>1, LogTouched DEF Fits
<1> HIDE DEF f, o, st, A2
<1>3. txn \subseteq {BitmapBlock} \cup Chunk(A2, st.blk, R)
  <2>1. txn \subseteq {BitmapBlock} \cup Chunk(addrs, blk, R) BY <1>1 DEF TxnInv
  <2>2. 0 \notin BlockNo /\ InodeBlock # 0 /\ BitmapBlock # 0 BY BmapNumbers DEF InodeBlock, BitmapBlock
  <2>3. 0 \notin txn BY <2>2 DEF BmapInv, BmapValues
  <2>4. PtrsStay(addrs, blk, A2, st.blk) BY <1>2 DEF Kept, PtrsStay
  <2> QED BY <1>1, <2>1, <2>3, <2>4, ChunkKept
<1>4. txn \cup st.log \subseteq {BitmapBlock} \cup Chunk(A2, st.blk, R) BY <1>2, <1>3
<1> QED BY <1>1, <1>4, NextChunkFits

\* No transaction of filewrite() is too big for the log: when R blocks hold the pointers to
\* a chunk, MaxOpBlocks is enough for the chunk, one block more when it begins in the middle
\* of one, what bmap() logs on the way, the bitmap and the inode.  With the sizes of fs.h
\* and param.h, R = 1.
THEOREM BmapTransactionFits ==
    ASSUME NEW R \in Nat, ChunkBlocks <= R * NINDIRECT, ChunkBlocks + R + 5 <= MaxOpBlocks
    PROVE  BmapSpec => []TransactionFits
<1>0. Fits(R) BY DEF Fits
<1>1. BmapInit => TxnInv(R)
  <2> SUFFICES ASSUME BmapInit PROVE TxnInv(R)
    OBVIOUS
  <2>1. txn = {} /\ wr = NoWrite BY DEF BmapInit
  <2> QED BY <2>1, FewFit DEF TxnInv, TransactionFits
<1>2. BmapInv /\ TxnInv(R) /\ [BmapNext]_bmapVars => TxnInv(R)'
  <2> SUFFICES ASSUME BmapInv, TxnInv(R), [BmapNext]_bmapVars PROVE TxnInv(R)'
    OBVIOUS
  <2>1. ASSUME NEW f \in File, NEW n \in WriteSizes, SysWrite(f, n) PROVE TxnInv(R)'
    <3>1. txn' = {} BY <2>1 DEF SysWrite
    <3> QED BY <3>1, FewFit DEF TxnInv, TransactionFits
  <2>2. ASSUME txn' = txn, wr' = NoWrite PROVE TxnInv(R)' BY <2>2 DEF TxnInv, TransactionFits
  <2>3. ASSUME NEW f \in File, NEW n \in WriteSizes, SysRead(f, n) PROVE TxnInv(R)'
    BY <2>2, <2>3 DEF SysRead
  <2>4. CASE WriteRefused BY <2>2, <2>4 DEF WriteRefused
  <2>5. CASE WriteTurn BY <1>0, <2>5, WriteTurnFits
  <2>6. CASE WriteFault BY <1>0, <2>6, WriteFaultFits
  <2>7. CASE WriteChunkDone
    <3>1. wr # NoWrite /\ NextChunk({}) BY <2>7 DEF WriteChunkDone
    <3>2. txn \cup {} \subseteq {BitmapBlock} \cup Chunk(addrs, blk, R) BY <3>1 DEF TxnInv
    <3> QED BY <1>0, <3>1, <3>2, NextChunkFits
  <2>8. ASSUME NEW f \in File, SysReopen(f) PROVE TxnInv(R)' BY <2>2, <2>8 DEF SysReopen
  <2>9. ASSUME NEW f \in File, Itrunc(f) PROVE TxnInv(R)'
    <3>1. txn' = {BitmapBlock, InodeBlock} /\ wr' = NoWrite BY <2>9 DEF Itrunc
    <3> QED BY <3>1, FewFit DEF TxnInv, TransactionFits
  <2>10. CASE UNCHANGED bmapVars
    BY <2>10 DEF bmapVars, TxnInv, TransactionFits, Chunk
  <2> QED BY <2>1, <2>3, <2>4, <2>5, <2>6, <2>7, <2>8, <2>9, <2>10 DEF BmapNext
<1>3. TxnInv(R) => TransactionFits BY DEF TxnInv
<1> QED BY <1>1, <1>2, <1>3, BmapInvariant, PTL DEF BmapSpec
=============================================================================
