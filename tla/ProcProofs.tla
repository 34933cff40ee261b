----------------------------- MODULE ProcProofs -----------------------------
(***************************************************************************)
(* Proofs about Proc, for every size of the process table and every set of *)
(* CPUs.  The inductive invariant Inv adds to the properties of Proc what  *)
(* the code relies on at each program counter.                             *)
(***************************************************************************)
EXTENDS Proc, TLAPS

USE DEF At

\* Slots whose thread can still run.
Live(p) == state[p] \notin {"UNUSED", "ZOMBIE"}

\* init exists for ever and never is in exit().
InitLives ==
    /\ initproc \in Slot
    /\ Live(initproc)
    /\ pc[initproc] \notin {"exitinit", "exitself", "exitparent", "exitlock",
                            "reparent", "zombie"}

\* How a thread's state and locals go with its program counter.
ThreadOK ==
    \A p \in Slot : Live(p) =>
        /\ pc[p] \in {"alloc", "kill", "reparent"} => idx[p] \in Slot
        /\ pc[p] \in {"exitparent", "exitlock", "reparent", "zombie"} =>
              /\ original_parent(p) \in Slot
              /\ parent[p] \in {original_parent(p), initproc}
        /\ pc[p] \notin Preemptible => state[p] # "RUNNABLE" \/ pc[p] \in {"waitsleep", "iosleep"}
        /\ pc[p] \in {"waitsleep", "iosleep"} => state[p] # "RUNNING"
        /\ state[p] = "SLEEPING" => pc[p] \in {"waitsleep", "iosleep"}

\* An unused slot belongs to nobody.
UnusedFree == \A p \in Slot : state[p] = "UNUSED" => parent[p] = NULL

\* reparent() leaves no child behind in the slots it has passed.
ReparentDone ==
    \A p \in Slot :
        /\ Live(p) /\ pc[p] = "reparent" => \A q \in 1..idx[p] - 1 : parent[q] # p
        /\ Live(p) /\ pc[p] = "zombie" => \A q \in Slot : parent[q] # p

\* A wait() in progress has passed no child that is a zombie.
WaitScanned ==
    \A p \in Slot \ {initproc} : Live(p) /\ pc[p] = "waitscan" =>
        \A q \in Slot : q < idx[p] /\ parent[q] = p => state[q] # "ZOMBIE"

Inv == /\ TypeOK /\ InitLives /\ ThreadOK /\ SchedDiscipline /\ UnusedFree
       /\ NoOrphan /\ ReparentDone /\ WaitScanned /\ NoLostExit

ExitPcs == {"exitinit", "exitself", "exitparent", "exitlock", "reparent", "zombie"}

\* The conditions under which thread p may go to (label, i, a) with its CPU: what
\* the parts of Inv about program counters say of the new one.
GoodTarget(p, label, i, a) ==
    /\ label \in PCs \ {"waitsleep", "iosleep"}
    /\ i \in 0..NProc + 1
    /\ a \in Nat
    /\ p = initproc => label \notin ExitPcs
    /\ label \in {"alloc", "kill", "reparent"} => i \in Slot
    /\ label \in {"exitparent", "exitlock", "reparent", "zombie"} =>
          a \in Slot /\ parent[p] \in {a, initproc}
    /\ label = "reparent" => \A q \in 1..i - 1 : parent[q] # p
    /\ label = "zombie" => \A q \in Slot : parent[q] # p
    /\ p # initproc /\ label = "waitscan" =>
          \A q \in Slot : q < i /\ parent[q] = p => state[q] # "ZOMBIE"

-----------------------------------------------------------------------------

\* Slots and channels, as many steps use them.
LEMMA SlotFacts ==
    /\ Slot \subseteq Nat
    /\ NULL \notin Slot /\ NULL \in Nat
    /\ initproc \in Slot
    /\ IoChan \notin Slot /\ IoChan # NULL
BY ProcAssumption DEF Slot, NULL, initproc, IoChan

\* The slots a loop has passed are slots.
LEMMA PassedSlots ==
    ASSUME TypeOK
    PROVE  \A q \in Slot : 1..idx[q] - 1 \subseteq Slot
BY ProcAssumption DEF TypeOK, Slot

\* Goto() keeps the types of the thread variables.
LEMMA GotoType ==
    ASSUME TypeOK, NEW p \in Slot, NEW label \in PCs, NEW i \in 0..NProc + 1, NEW a \in Nat,
           Goto(p, label, i, a)
    PROVE  /\ pc' \in [Slot -> PCs]
           /\ idx' \in [Slot -> 0..NProc + 1]
           /\ arg' \in [Slot -> Nat]
           /\ pc'[p] = label /\ idx'[p] = i /\ arg'[p] = a
           /\ \A q \in Slot \ {p} : pc'[q] = pc[q] /\ idx'[q] = idx[q] /\ arg'[q] = arg[q]
BY DEF TypeOK, Goto

\* A step may make sleeping processes RUNNABLE, and change no other state and no
\* channel a process sleeps on.
OnlyWakes ==
    /\ state' \in [Slot -> ProcState]
    /\ \A q \in Slot : state'[q] = state[q] \/ (state[q] = "SLEEPING" /\ state'[q] = "RUNNABLE")
    /\ chan' \in [Slot -> Slot \cup {NULL, IoChan}]
    /\ \A q \in Slot : state[q] = "SLEEPING" => chan'[q] = chan[q]

\* What waking processes does not disturb.
LEMMA WakeKeeps ==
    ASSUME Inv, OnlyWakes, UNCHANGED <<parent, running>>
    PROVE  /\ UnusedFree' /\ NoOrphan' /\ NoLostExit' /\ RunningUnique' /\ RunningOnCpu'
           /\ \A q \in Slot : Live(q)' = Live(q)
<1> USE SlotFacts DEF OnlyWakes
<1>1. \A q \in Slot : Live(q)' = Live(q) BY DEF Live
<1>2. UnusedFree' BY DEF Inv, UnusedFree
<1>3. NoOrphan' BY DEF Inv, NoOrphan
<1>4. NoLostExit' BY DEF Inv, NoLostExit
<1>5. RunningUnique' BY DEF Inv, SchedDiscipline, RunningUnique
<1>6. RunningOnCpu' BY DEF Inv, SchedDiscipline, RunningOnCpu
<1> QED BY <1>1, <1>2, <1>3, <1>4, <1>5, <1>6

\* The step of a running thread that keeps its CPU, ends with the locks its new
\* program counter asks for and at most wakes or kills other processes.
LEMMA ThreadStep ==
    ASSUME Inv, NEW c \in CPU, NEW p \in Slot, running[c] = p,
           NEW label, NEW i, NEW a, GoodTarget(p, label, i, a), Goto(p, label, i, a),
           OnlyWakes, UNCHANGED <<parent, running>>, pid' \in [Slot -> Nat],
           lock' \in [Slot -> CPU \cup {NoCpu}], LockHeld',
           killed' \in [Slot -> BOOLEAN], nextpid' \in Nat, killReq' \subseteq Nat
    PROVE  Inv'
<1> USE SlotFacts
<1> DEFINE Moved == /\ pc'[p] = label /\ idx'[p] = i /\ arg'[p] = a
                    /\ \A q \in Slot \ {p} : pc'[q] = pc[q] /\ idx'[q] = idx[q] /\ arg'[q] = arg[q]
<1>0. Moved /\ pc' \in [Slot -> PCs] /\ idx' \in [Slot -> 0..NProc + 1] /\ arg' \in [Slot -> Nat]
  BY GotoType DEF Inv, GoodTarget
<1> HIDE DEF Moved
<1>r. state[p] = "RUNNING" /\ state'[p] = "RUNNING"
  BY DEF Inv, SchedDiscipline, RunningOnCpu, OnlyWakes
<1>l. \A q \in Slot : Live(q)' = Live(q)
  BY WakeKeeps
<1>1. TypeOK'
  BY <1>0 DEF Inv, TypeOK, OnlyWakes
<1>2. InitLives'
  BY <1>0, <1>l DEF Inv, InitLives, GoodTarget, ExitPcs, Moved
<1>3. ThreadOK'
  BY <1>0, <1>r, <1>l DEF Inv, ThreadOK, GoodTarget, Moved, original_parent, OnlyWakes
<1>4. SchedDiscipline' /\ UnusedFree' /\ NoOrphan' /\ NoLostExit'
  BY WakeKeeps DEF SchedDiscipline
<1>6. ReparentDone'
  BY <1>0, <1>l, <1>r DEF Inv, ReparentDone, Live, GoodTarget, Moved
<1>7. WaitScanned'
  BY <1>0, <1>l, <1>r DEF Inv, WaitScanned, Live, GoodTarget, Moved, OnlyWakes
<1> QED
  BY <1>1, <1>2, <1>3, <1>4, <1>6, <1>7 DEF Inv

\* A step that changes no state only wakes.
LEMMA NoWake ==
    ASSUME TypeOK, UNCHANGED procVars
    PROVE  OnlyWakes /\ UNCHANGED parent /\ pid' \in [Slot -> Nat] /\ killed' \in [Slot -> BOOLEAN]
BY DEF TypeOK, OnlyWakes, procVars

\* The locks stay as they are when the thread moves to a point where it holds the
\* same ones.
LEMMA SameLocks ==
    ASSUME Inv, NEW c \in CPU, NEW p \in Slot, running[c] = p,
           NEW label, NEW i, NEW a, GoodTarget(p, label, i, a), Goto(p, label, i, a),
           UNCHANGED schedVars, HeldAt(p, label, a) = Held(p)
    PROVE  LockHeld'
<1>1. \A q \in Slot : Held(q)' = Held(q)
  BY GotoType DEF Inv, GoodTarget, Held
<1> QED BY <1>1 DEF Inv, SchedDiscipline, LockHeld, schedVars

\* A step of one thread that changes no process and no lock keeps Inv.
LEMMA LocalStep ==
    ASSUME Inv, NEW c \in CPU, NEW p \in Slot, running[c] = p,
           NEW label, NEW i, NEW a, GoodTarget(p, label, i, a), Goto(p, label, i, a),
           UNCHANGED <<procVars, schedVars>>, HeldAt(p, label, a) = Held(p),
           nextpid' \in Nat, killReq' \subseteq Nat
    PROVE  Inv'
<1>1. LockHeld' BY SameLocks
<1>2. lock' \in [Slot -> CPU \cup {NoCpu}] BY DEF Inv, TypeOK, schedVars
<1>3. OnlyWakes /\ UNCHANGED parent /\ pid' \in [Slot -> Nat] /\ killed' \in [Slot -> BOOLEAN]
  BY NoWake DEF Inv
<1> QED BY <1>1, <1>2, <1>3, ThreadStep DEF schedVars

-----------------------------------------------------------------------------
\* System call entries: the thread holds no lock before and after.
LEMMA CallInv ==
    ASSUME Inv, NEW c \in CPU, NEW p \in Slot, running[c] = p, User(c, p)
    PROVE  Inv'
<1> USE SlotFacts
<1>t. 1 \in Slot /\ 0 \in 0..NProc + 1 /\ 1 \in 0..NProc + 1 /\ KillPids \subseteq Nat
  BY ProcAssumption DEF Slot
<1>h. nextpid \in Nat /\ killReq \subseteq Nat
  BY DEF Inv, TypeOK
<1>0. pc[p] = "user" => Held(p) = {}
  BY DEF Held, HeldAt
<1>1. CASE ForkCall(c, p)
  <2>1. GoodTarget(p, "alloc", 1, 0) BY <1>t DEF GoodTarget, PCs, ExitPcs
  <2>2. HeldAt(p, "alloc", 0) = Held(p) BY <1>1, <1>0 DEF ForkCall, Syscall, HeldAt
  <2> QED BY <1>1, <1>h, <2>1, <2>2, LocalStep DEF ForkCall
<1>2. CASE ExitCall(c, p)
  <2>1. GoodTarget(p, "exitinit", 0, 0) BY <1>2, <1>t DEF GoodTarget, PCs, ExitCall
  <2>2. HeldAt(p, "exitinit", 0) = Held(p) BY <1>2, <1>0 DEF ExitCall, HeldAt
  <2> QED BY <1>2, <1>h, <2>1, <2>2, LocalStep DEF ExitCall
<1>3. CASE WaitCall(c, p)
  <2>1. GoodTarget(p, "wait", 0, 0) BY <1>t DEF GoodTarget, PCs, ExitPcs
  <2>2. HeldAt(p, "wait", 0) = Held(p) BY <1>3, <1>0 DEF WaitCall, Syscall, HeldAt
  <2> QED BY <1>3, <1>h, <2>1, <2>2, LocalStep DEF WaitCall
<1>4. CASE IoCheck(c, p)
  <2>1. GoodTarget(p, "io", 0, 0) BY <1>t DEF GoodTarget, PCs, ExitPcs
  <2>2. HeldAt(p, "io", 0) = Held(p) BY <1>4, <1>0 DEF IoCheck, Syscall, HeldAt
  <2> QED BY <1>4, <1>h, <2>1, <2>2, LocalStep DEF IoCheck
<1>5. CASE KillCall(c, p)
  <2>0. PICK n \in KillPids : Goto(p, "kill", 1, n) /\ killReq' = killReq \cup {n}
    BY <1>5 DEF KillCall
  <2>1. GoodTarget(p, "kill", 1, n) BY <1>t DEF GoodTarget, PCs, ExitPcs
  <2>2. HeldAt(p, "kill", n) = Held(p) BY <1>5, <1>0 DEF KillCall, Syscall, HeldAt
  <2>3. nextpid' \in Nat /\ killReq' \subseteq Nat
    BY <1>5, <1>h, <1>t, <2>0 DEF KillCall
  <2> QED BY <1>5, <2>0, <2>1, <2>2, <2>3, LocalStep DEF KillCall
<1> QED
  BY <1>1, <1>2, <1>3, <1>4, <1>5 DEF User

-----------------------------------------------------------------------------
\* Steps inside a system call that only move the thread on.

\* A scan of allocproc() or kill() passes a slot.
LEMMA ScanInv ==
    ASSUME Inv, NEW c \in CPU, NEW p \in Slot, running[c] = p,
           AllocSkip(c, p) \/ KillSkip(c, p)
    PROVE  Inv'
<1> USE SlotFacts
<1>h. nextpid' \in Nat /\ killReq' \subseteq Nat
  BY DEF Inv, TypeOK, AllocSkip, KillSkip
<1>u. UNCHANGED <<procVars, schedVars>>
  BY DEF AllocSkip, KillSkip
<1>p. pc[p] \in {"alloc", "kill"} /\ NextSlot(p, "user")
  BY DEF AllocSkip, KillSkip
<1>a. arg[p] \in Nat BY DEF Inv, TypeOK
<1>1. CASE idx[p] < NProc
  <2>r. idx[p] \in 0..NProc + 1 BY DEF Inv, TypeOK
  <2>s. idx[p] + 1 \in Slot /\ idx[p] + 1 \in 0..NProc + 1
    BY <1>1, <2>r, ProcAssumption DEF Slot
  <2>1. Goto(p, pc[p], idx[p] + 1, arg[p]) BY <1>p, <1>1 DEF NextSlot
  <2>2. GoodTarget(p, pc[p], idx[p] + 1, arg[p])
    BY <1>p, <1>a, <2>s DEF GoodTarget, PCs, ExitPcs
  <2>3. HeldAt(p, pc[p], arg[p]) = Held(p) BY DEF Held
  <2> QED BY <1>h, <1>u, <2>1, <2>2, <2>3, LocalStep
<1>2. CASE ~(idx[p] < NProc)
  <2>1. Goto(p, "user", 0, 0) BY <1>p, <1>2 DEF NextSlot
  <2>2. GoodTarget(p, "user", 0, 0) BY ProcAssumption DEF GoodTarget, PCs, ExitPcs
  <2>3. HeldAt(p, "user", 0) = Held(p) BY <1>p DEF Held, HeldAt
  <2> QED BY <1>h, <1>u, <2>1, <2>2, <2>3, LocalStep
<1> QED BY <1>1, <1>2

\* exit() reads its parent.
LEMMA ExitReadParentInv ==
    ASSUME Inv, NEW c \in CPU, NEW p \in Slot, running[c] = p, ExitReadParent(c, p)
    PROVE  Inv'
<1> USE SlotFacts
<1>1. parent[p] \in Slot /\ p # initproc /\ 0 \in 0..NProc + 1
  BY ProcAssumption
     DEF ExitReadParent, Inv, InitLives, NoOrphan, SchedDiscipline, RunningOnCpu
<1>2. GoodTarget(p, "exitparent", 0, parent[p])
  <2> DEFINE a == parent[p]
  <2>1. a \in Slot /\ a \in Nat BY <1>1
  <2> HIDE DEF a
  <2>2. parent[p] = a BY DEF a
  <2>3. GoodTarget(p, "exitparent", 0, a) BY <1>1, <2>1, <2>2 DEF GoodTarget, PCs, ExitPcs
  <2> QED BY <2>2, <2>3
<1>3. HeldAt(p, "exitparent", parent[p]) = Held(p)
  BY DEF ExitReadParent, Held, HeldAt
<1> QED BY <1>2, <1>3, LocalStep DEF ExitReadParent, Inv, TypeOK

\* reparent() goes on to the next slot once the current one is not p's child.
LEMMA ReparentNextTarget ==
    ASSUME Inv, NEW c \in CPU, NEW p \in Slot, running[c] = p, pc[p] = "reparent"
    PROVE  /\ idx[p] \in Slot /\ original_parent(p) \in Slot /\ p # initproc
           /\ parent[p] \in {original_parent(p), initproc}
           /\ \A q \in 1..idx[p] - 1 : parent[q] # p
           /\ Held(p) = {original_parent(p), p}
BY SlotFacts DEF Inv, SchedDiscipline, RunningOnCpu, ThreadOK, InitLives, ReparentDone, Live,
   Held, HeldAt, original_parent

\* reparent() passes a slot that is not a child.
LEMMA ReparentSkipInv ==
    ASSUME Inv, NEW c \in CPU, NEW p \in Slot, running[c] = p, ReparentSkip(c, p)
    PROVE  Inv'
<1> USE SlotFacts
<1> DEFINE op == original_parent(p)
<1>0. /\ pc[p] = "reparent" /\ parent[idx[p]] # p /\ ReparentNext(p)
      /\ UNCHANGED <<procVars, schedVars>>
      /\ nextpid' \in Nat /\ killReq' \subseteq Nat
  BY DEF ReparentSkip, Inv, TypeOK
<1>1. /\ idx[p] \in Slot /\ op \in Slot /\ p # initproc
      /\ parent[p] \in {op, initproc}
      /\ \A q \in 1..idx[p] - 1 : parent[q] # p
      /\ Held(p) = {op, p}
  BY <1>0, ReparentNextTarget
<1> HIDE DEF op
<1>2. CASE idx[p] < NProc
  <2>1. Goto(p, "reparent", idx[p] + 1, op) BY <1>0, <1>2 DEF ReparentNext, op
  <2>2. idx[p] + 1 \in Slot /\ idx[p] + 1 \in 0..NProc + 1 /\ idx[p] \in Nat
    BY <1>1, <1>2, ProcAssumption DEF Slot
  <2>3. \A q \in 1..(idx[p] + 1) - 1 : parent[q] # p
    BY <1>0, <1>1, <2>2
  <2>4. GoodTarget(p, "reparent", idx[p] + 1, op)
    BY <1>1, <2>2, <2>3 DEF GoodTarget, PCs, ExitPcs
  <2>5. HeldAt(p, "reparent", op) = Held(p) BY <1>1 DEF HeldAt
  <2> QED BY <1>0, <2>1, <2>4, <2>5, LocalStep
<1>3. CASE ~(idx[p] < NProc)
  <2>1. Goto(p, "zombie", 0, op) BY <1>0, <1>3 DEF ReparentNext, op
  <2>2. \A q \in Slot : parent[q] # p
    BY <1>0, <1>1, <1>3, ProcAssumption DEF Slot
  <2>3. GoodTarget(p, "zombie", 0, op)
    BY <1>1, <2>2, ProcAssumption DEF GoodTarget, PCs, ExitPcs
  <2>4. HeldAt(p, "zombie", op) = Held(p) BY <1>1 DEF HeldAt
  <2> QED BY <1>0, <2>1, <2>3, <2>4, LocalStep
<1> QED BY <1>2, <1>3

\* wait() passes a slot that is not a zombie child.
LEMMA WaitScanInv ==
    ASSUME Inv, NEW c \in CPU, NEW p \in Slot, running[c] = p,
           WaitSkip(c, p) \/ WaitChild(c, p)
    PROVE  Inv'
<1> USE SlotFacts
<1>0. /\ pc[p] = "waitscan" /\ idx[p] \in Slot
      /\ parent[idx[p]] # p \/ state[idx[p]] # "ZOMBIE"
      /\ UNCHANGED <<procVars, schedVars>>
      /\ nextpid' \in Nat /\ killReq' \subseteq Nat
      /\ state[p] = "RUNNING"
  BY DEF WaitSkip, WaitChild, Inv, TypeOK, SchedDiscipline, RunningOnCpu
<1>1. PICK a \in Nat : Goto(p, "waitscan", idx[p] + 1, a)
  BY DEF WaitSkip, WaitChild, havekids, Inv, TypeOK
<1>2. idx[p] + 1 \in 0..NProc + 1 /\ idx[p] \in Nat
  BY <1>0, ProcAssumption DEF Slot
<1>3. p # initproc => \A q \in Slot : q < idx[p] + 1 /\ parent[q] = p => state[q] # "ZOMBIE"
  BY <1>0, <1>2 DEF Inv, WaitScanned, Live
<1>4. GoodTarget(p, "waitscan", idx[p] + 1, a)
  BY <1>0, <1>2, <1>3 DEF GoodTarget, PCs, ExitPcs
<1>5. HeldAt(p, "waitscan", a) = Held(p) BY <1>0 DEF Held, HeldAt
<1> QED BY <1>0, <1>1, <1>4, <1>5, LocalStep

-----------------------------------------------------------------------------
\* Steps that take or release a lock and change no field of struct proc.

\* The thread in slot p, running on c, takes the free lock of slot q.
LEMMA TakeLock ==
    ASSUME Inv, NEW c \in CPU, NEW p \in Slot, running[c] = p, NEW q \in Slot, Free(q),
           NEW label, NEW i, NEW a, GoodTarget(p, label, i, a), Goto(p, label, i, a),
           UNCHANGED <<procVars, running>>, lock' = [lock EXCEPT ![q] = c],
           HeldAt(p, label, a) = Held(p) \cup {q},
           nextpid' \in Nat, killReq' \subseteq Nat
    PROVE  Inv'
<1> USE SlotFacts
<1>1. lock' \in [Slot -> CPU \cup {NoCpu}] BY DEF Inv, TypeOK
<1>2. /\ \A r \in Slot \ {p} : Held(r)' = Held(r)
      /\ Held(p)' = Held(p) \cup {q}
  BY GotoType DEF Inv, GoodTarget, Held
<1>3. ASSUME NEW r \in Slot, NEW d \in CPU
      PROVE  lock'[r] = d <=> \E s \in Slot : running'[d] = s /\ r \in Held(s)'
  <2>1. lock[q] \notin CPU BY ProcAssumption DEF Free
  <2>2. lock[r] = d <=> \E s \in Slot : running[d] = s /\ r \in Held(s)
    BY DEF Inv, SchedDiscipline, LockHeld
  <2>3. running[d] = p => d = c
    BY DEF Inv, SchedDiscipline, RunningUnique
  <2>4. CASE r = q
    <3>1. lock'[r] = c BY <2>4 DEF Inv, TypeOK
    <3>2. \A s \in Slot : running[d] = s => r \notin Held(s)
      BY <2>1, <2>2, <2>4
    <3> QED BY <1>2, <2>3, <2>4, <3>1, <3>2
  <2>5. CASE r # q
    <3>1. lock'[r] = lock[r] BY <2>5 DEF Inv, TypeOK
    <3>2. \A s \in Slot : r \in Held(s)' <=> r \in Held(s)
      BY <1>2, <2>5
    <3> QED BY <2>2, <3>1, <3>2
  <2> QED BY <2>4, <2>5
<1>4. LockHeld' BY <1>3 DEF LockHeld
<1>5. OnlyWakes /\ UNCHANGED parent /\ pid' \in [Slot -> Nat] /\ killed' \in [Slot -> BOOLEAN]
  BY NoWake DEF Inv
<1> QED BY <1>1, <1>4, <1>5, ThreadStep

\* exit() takes its parent's lock.
LEMMA ExitLockParentInv ==
    ASSUME Inv, NEW c \in CPU, NEW p \in Slot, running[c] = p, ExitLockParent(c, p)
    PROVE  Inv'
<1> USE SlotFacts
<1> DEFINE op == original_parent(p)
<1>0. /\ op \in Slot /\ p # initproc /\ parent[p] \in {op, initproc} /\ Held(p) = {}
  BY DEF ExitLockParent, Inv, ThreadOK, InitLives, Live, SchedDiscipline, RunningOnCpu, Held, HeldAt
<1>1. /\ Free(op) /\ Goto(p, "exitlock", 0, op) /\ lock' = [lock EXCEPT ![op] = c]
      /\ UNCHANGED <<procVars, running>> /\ nextpid' \in Nat /\ killReq' \subseteq Nat
  BY DEF ExitLockParent, Inv, TypeOK
<1> HIDE DEF op
<1>2. GoodTarget(p, "exitlock", 0, op)
  BY <1>0, ProcAssumption DEF GoodTarget, PCs, ExitPcs
<1>3. HeldAt(p, "exitlock", op) = Held(p) \cup {op} BY <1>0 DEF HeldAt
<1> QED BY <1>0, <1>1, <1>2, <1>3, TakeLock

\* exit() takes its own lock, while it holds its parent's.
LEMMA ExitLockSelfInv ==
    ASSUME Inv, NEW c \in CPU, NEW p \in Slot, running[c] = p, ExitLockSelf(c, p)
    PROVE  Inv'
<1> USE SlotFacts
<1> DEFINE op == original_parent(p)
<1>0. /\ op \in Slot /\ p # initproc /\ parent[p] \in {op, initproc} /\ Held(p) = {op}
  BY DEF ExitLockSelf, Inv, ThreadOK, InitLives, Live, SchedDiscipline, RunningOnCpu, Held, HeldAt,
         original_parent
<1>1. /\ Free(p) /\ Goto(p, "reparent", 1, op) /\ lock' = [lock EXCEPT ![p] = c]
      /\ UNCHANGED <<procVars, running>> /\ nextpid' \in Nat /\ killReq' \subseteq Nat
  BY DEF ExitLockSelf, Inv, TypeOK
<1> HIDE DEF op
<1>2. 1 \in Slot /\ 1 \in 0..NProc + 1 /\ 1..1 - 1 = {}
  BY ProcAssumption DEF Slot
<1>3. GoodTarget(p, "reparent", 1, op)
  BY <1>0, <1>2 DEF GoodTarget, PCs, ExitPcs
<1>4. HeldAt(p, "reparent", op) = Held(p) \cup {p} BY <1>0 DEF HeldAt
<1> QED BY <1>1, <1>3, <1>4, TakeLock

\* wait() takes its own lock.
LEMMA WaitLockInv ==
    ASSUME Inv, NEW c \in CPU, NEW p \in Slot, running[c] = p, WaitLock(c, p)
    PROVE  Inv'
<1> USE SlotFacts
<1>1. /\ Free(p) /\ Goto(p, "waitscan", 1, 0) /\ lock' = [lock EXCEPT ![p] = c]
      /\ UNCHANGED <<procVars, running>> /\ nextpid' \in Nat /\ killReq' \subseteq Nat
      /\ Held(p) = {}
  BY DEF WaitLock, Inv, TypeOK, Held, HeldAt
<1>2. 1 \in 0..NProc + 1 /\ \A q \in Slot : ~(q < 1)
  BY ProcAssumption DEF Slot
<1>3. GoodTarget(p, "waitscan", 1, 0)
  BY <1>2 DEF GoodTarget, PCs, ExitPcs
<1>4. HeldAt(p, "waitscan", 0) = Held(p) \cup {p} BY <1>1 DEF HeldAt
<1> QED BY <1>1, <1>3, <1>4, TakeLock

\* In wait() the thread holds its own lock and no other.
LEMMA WaitHolds ==
    ASSUME Inv, NEW c \in CPU, NEW p \in Slot, running[c] = p, pc[p] = "waitscan"
    PROVE  /\ Held(p) = {p} /\ lock[p] = c /\ state[p] = "RUNNING"
           /\ \A d \in CPU : running[d] = p => d = c
           /\ \A r \in Slot : lock[r] = c => r = p
<1>1. Held(p) = {p} BY DEF Held, HeldAt
<1> QED
  BY <1>1, SlotFacts
     DEF Inv, SchedDiscipline, RunningUnique, RunningOnCpu, LockHeld

\* wait() lets its lock go and returns.
LEMMA WaitReturnLocks ==
    ASSUME Inv, NEW c \in CPU, NEW p \in Slot, running[c] = p, pc[p] = "waitscan",
           Return(p), UNCHANGED running, lock' = [lock EXCEPT ![p] = NoCpu]
    PROVE  lock' \in [Slot -> CPU \cup {NoCpu}] /\ LockHeld'
<1> USE SlotFacts
<1>1. lock' \in [Slot -> CPU \cup {NoCpu}] BY DEF Inv, TypeOK
<1>2. /\ \A r \in Slot \ {p} : Held(r)' = Held(r)
      /\ Held(p)' = {}
  <2>1. "user" \in PCs /\ 0 \in 0..NProc + 1 BY ProcAssumption DEF PCs
  <2>2. /\ pc'[p] = "user"
        /\ \A r \in Slot \ {p} : pc'[r] = pc[r] /\ arg'[r] = arg[r]
    BY <2>1, GotoType DEF Inv, Return
  <2>3. \A r \in Slot \ {p} : Held(r)' = Held(r) BY <2>2 DEF Held
  <2>4. Held(p)' = {} BY <2>2 DEF Held, HeldAt
  <2> QED BY <2>3, <2>4
<1>3. ASSUME NEW r \in Slot, NEW d \in CPU
      PROVE  lock'[r] = d <=> \E s \in Slot : running'[d] = s /\ r \in Held(s)'
  <2>1. lock[r] = d <=> \E s \in Slot : running[d] = s /\ r \in Held(s)
    BY DEF Inv, SchedDiscipline, LockHeld
  <2>2. CASE r = p
    <3>1. lock'[r] # d BY <2>2, ProcAssumption DEF Inv, TypeOK
    <3>2. \A s \in Slot : running[d] = s /\ r \in Held(s) => s = p
      BY <2>1, <2>2, WaitHolds
    <3> QED BY <1>2, <3>1, <3>2
  <2>3. CASE r # p
    <3>1. lock'[r] = lock[r] BY <2>3 DEF Inv, TypeOK
    <3>2. \A s \in Slot : r \in Held(s)' <=> r \in Held(s)
      BY <1>2, <2>3, WaitHolds
    <3> QED BY <2>1, <3>1, <3>2
  <2> QED BY <2>2, <2>3
<1> QED BY <1>1, <1>3 DEF LockHeld

\* wait() returns without a child.
LEMMA WaitReturnInv ==
    ASSUME Inv, NEW c \in CPU, NEW p \in Slot, running[c] = p,
           WaitCopyoutFails(c, p) \/ WaitNone(c, p)
    PROVE  Inv'
<1>1. /\ pc[p] = "waitscan" /\ Return(p) /\ lock' = [lock EXCEPT ![p] = NoCpu]
      /\ UNCHANGED <<procVars, running>> /\ nextpid' \in Nat /\ killReq' \subseteq Nat
  BY DEF WaitCopyoutFails, WaitNone, Inv, TypeOK
<1>2. GoodTarget(p, "user", 0, 0) BY ProcAssumption DEF GoodTarget, PCs, ExitPcs
<1>3. OnlyWakes /\ UNCHANGED parent /\ pid' \in [Slot -> Nat] /\ killed' \in [Slot -> BOOLEAN]
  BY <1>1, NoWake DEF Inv
<1> QED BY <1>1, <1>2, <1>3, WaitReturnLocks, ThreadStep DEF Return

-----------------------------------------------------------------------------
\* Steps that change fields of a process.

\* freeproc() of a zombie child by wait().
LEMMA WaitReapInv ==
    ASSUME Inv, NEW c \in CPU, NEW p \in Slot, running[c] = p, WaitReap(c, p)
    PROVE  Inv'
<1> USE SlotFacts
<1> DEFINE z == idx[p]
<1>0. /\ pc[p] = "waitscan" /\ Return(p) /\ lock' = [lock EXCEPT ![p] = NoCpu]
      /\ z \in Slot /\ parent[z] = p /\ state[z] = "ZOMBIE" /\ FreeProc(z)
      /\ running' = running /\ nextpid' \in Nat /\ killReq' \subseteq Nat
      /\ state[p] = "RUNNING"
  BY WaitHolds DEF WaitReap, Inv, TypeOK
<1> HIDE DEF z
<1>1. /\ pc' \in [Slot -> PCs] /\ idx' \in [Slot -> 0..NProc + 1] /\ arg' \in [Slot -> Nat]
      /\ pc'[p] = "user"
      /\ \A q \in Slot \ {p} : pc'[q] = pc[q] /\ idx'[q] = idx[q] /\ arg'[q] = arg[q]
  <2>1. "user" \in PCs /\ 0 \in 0..NProc + 1 BY ProcAssumption DEF PCs
  <2> QED BY <1>0, <2>1, GotoType DEF Inv, Return
<1>2. lock' \in [Slot -> CPU \cup {NoCpu}] /\ LockHeld'
  BY <1>0, WaitReturnLocks
<1>3. /\ state'[z] = "UNUSED" /\ parent'[z] = NULL /\ chan'[z] = NULL
      /\ \A q \in Slot \ {z} : state'[q] = state[q] /\ parent'[q] = parent[q] /\ chan'[q] = chan[q]
  BY <1>0 DEF FreeProc, Inv, TypeOK
<1>4. TypeOK'
  BY <1>0, <1>1, <1>2 DEF Inv, TypeOK, FreeProc, ProcState
<1>5. z # p /\ z # initproc
  BY <1>0 DEF Inv, InitLives, Live
<1>6. InitLives'
  BY <1>1, <1>3, <1>5 DEF Inv, InitLives, Live
<1>7. ThreadOK'
  BY <1>0, <1>1, <1>3 DEF Inv, ThreadOK, Live, Preemptible, original_parent
<1>8. SchedDiscipline'
  BY <1>0, <1>2, <1>3 DEF Inv, SchedDiscipline, RunningUnique, RunningOnCpu
<1>9. UnusedFree'
  BY <1>3 DEF Inv, UnusedFree
<1>10. NoOrphan'
  BY ZenonT(40), <1>0, <1>3, <1>5 DEF Inv, NoOrphan, UnusedFree
<1>11. ReparentDone'
  <2>1. \A q \in Slot : 1..idx[q] - 1 \subseteq Slot BY PassedSlots DEF Inv
  <2> QED BY <1>0, <1>1, <1>3, <2>1 DEF Inv, ReparentDone, Live
<1>12. WaitScanned'
  BY <1>0, <1>1, <1>3 DEF Inv, WaitScanned, Live
<1>13. NoLostExit'
  BY <1>0, <1>3 DEF Inv, NoLostExit
<1> QED
  BY <1>4, <1>6, <1>7, <1>8, <1>9, <1>10, <1>11, <1>12, <1>13 DEF Inv

\* reparent() gives a child to init.
LEMMA ReparentChildInv ==
    ASSUME Inv, NEW c \in CPU, NEW p \in Slot, running[c] = p, ReparentChild(c, p)
    PROVE  Inv'
<1> USE SlotFacts
<1> DEFINE op == original_parent(p)
<1> DEFINE z == idx[p]
<1>0. /\ pc[p] = "reparent" /\ parent[z] = p /\ ReparentNext(p)
      /\ parent' = [parent EXCEPT ![z] = initproc]
      /\ UNCHANGED <<state, pid, killed, chan, schedVars, nextpid, killReq>>
      /\ state[p] = "RUNNING"
  BY DEF ReparentChild, Inv, SchedDiscipline, RunningOnCpu
<1>1. /\ z \in Slot /\ op \in Slot /\ p # initproc
      /\ parent[p] \in {op, initproc}
      /\ \A q \in 1..z - 1 : parent[q] # p
      /\ Held(p) = {op, p}
  BY <1>0, ReparentNextTarget
<1>2. PICK label \in {"reparent", "zombie"}, i \in 0..NProc + 1 :
      /\ Goto(p, label, i, op)
      /\ label = "reparent" => i \in Slot /\ i = z + 1
      /\ label = "zombie" => z = NProc
  <2>1. z \in Nat /\ NProc \in Nat /\ 0 \in 0..NProc + 1
    BY <1>1, ProcAssumption DEF Slot
  <2>2. CASE z < NProc
    <3>1. z + 1 \in Slot /\ z + 1 \in 0..NProc + 1 BY <2>1, <2>2, <1>1 DEF Slot
    <3> QED BY <1>0, <2>2, <3>1 DEF ReparentNext
  <2>3. CASE ~(z < NProc)
    <3>1. z = NProc BY <2>1, <2>3, <1>1 DEF Slot
    <3> QED BY <1>0, <2>1, <2>3, <3>1 DEF ReparentNext
  <2> QED BY <2>2, <2>3
<1> HIDE DEF op, z
<1>3. /\ pc' \in [Slot -> PCs] /\ idx' \in [Slot -> 0..NProc + 1] /\ arg' \in [Slot -> Nat]
      /\ pc'[p] = label /\ idx'[p] = i /\ arg'[p] = op
      /\ \A q \in Slot \ {p} : pc'[q] = pc[q] /\ idx'[q] = idx[q] /\ arg'[q] = arg[q]
  <2>1. label \in PCs BY <1>2 DEF PCs
  <2> QED BY <1>1, <1>2, <2>1, GotoType DEF Inv
<1>4. parent'[z] = initproc /\ \A q \in Slot \ {z} : parent'[q] = parent[q]
  BY <1>0, <1>1 DEF Inv, TypeOK
<1>5. TypeOK'
  BY <1>0, <1>3 DEF Inv, TypeOK, schedVars
<1>6. InitLives'
  BY <1>0, <1>1, <1>3 DEF Inv, InitLives, Live
<1>7. ThreadOK'
  BY <1>0, <1>1, <1>2, <1>3, <1>4 DEF Inv, ThreadOK, Live, original_parent, op
<1>8. SchedDiscipline'
  <2>1. \A q \in Slot : Held(q)' = Held(q)
    BY <1>1, <1>2, <1>3 DEF Held, HeldAt
  <2> QED BY <1>0, <2>1 DEF Inv, SchedDiscipline, RunningUnique, RunningOnCpu, LockHeld, schedVars
<1>9. UnusedFree'
  BY <1>0, <1>1, <1>4 DEF Inv, UnusedFree
<1>10. NoOrphan'
  BY <1>0, <1>4 DEF Inv, NoOrphan, InitLives, Live
<1>11. ReparentDone'
  <2>1. \A q \in Slot : 1..idx[q] - 1 \subseteq Slot BY PassedSlots DEF Inv
  <2>2. label = "reparent" => \A q \in 1..i - 1 : parent'[q] # p
    BY <1>1, <1>2, <1>4, ProcAssumption DEF Slot
  <2>3. label = "zombie" => \A q \in Slot : parent'[q] # p
    BY <1>1, <1>2, <1>4, ProcAssumption DEF Slot
  <2>4. pc[initproc] \notin {"reparent", "zombie"} BY DEF Inv, InitLives
  <2> QED BY <1>0, <1>3, <1>4, <2>1, <2>2, <2>3, <2>4 DEF Inv, ReparentDone, Live
<1>12. WaitScanned'
  BY <1>0, <1>2, <1>3, <1>4 DEF Inv, WaitScanned, Live
<1>13. NoLostExit'
  BY <1>0, <1>4 DEF Inv, NoLostExit
<1> QED
  BY <1>5, <1>6, <1>7, <1>8, <1>9, <1>10, <1>11, <1>12, <1>13 DEF Inv

\* wakeup() on a device channel.
LEMMA WakeupInv ==
    ASSUME Inv, NEW p \in Slot, Wakeup(p)
    PROVE  Inv'
<1> USE SlotFacts DEF Wakeup, schedVars, threadVars
<1>1. OnlyWakes BY DEF Inv, TypeOK, OnlyWakes, ProcState
<1>2. \A q \in Slot : Live(q)' = Live(q) BY <1>1, WakeKeeps
<1>3. TypeOK' BY <1>1 DEF Inv, TypeOK, OnlyWakes
<1>4. InitLives' BY <1>2 DEF Inv, InitLives
<1>5. ThreadOK' BY <1>1, <1>2 DEF Inv, ThreadOK, original_parent, OnlyWakes
<1>6. LockHeld'
  <2>1. \A q \in Slot : Held(q)' = Held(q) BY DEF Held
  <2> QED BY <2>1 DEF Inv, SchedDiscipline, LockHeld
<1>7. ReparentDone' BY <1>2 DEF Inv, ReparentDone
<1>8. WaitScanned' BY <1>1, <1>2 DEF Inv, WaitScanned, OnlyWakes
<1> QED BY <1>1, <1>3, <1>4, <1>5, <1>6, <1>7, <1>8, WakeKeeps DEF Inv, SchedDiscipline

\* exit() wakes init.
LEMMA ExitWakeInitInv ==
    ASSUME Inv, NEW c \in CPU, NEW p \in Slot, running[c] = p, ExitWakeInit(c, p)
    PROVE  Inv'
<1> USE SlotFacts
<1>0. p # initproc BY DEF ExitWakeInit, Inv, InitLives
<1>1. OnlyWakes BY DEF Inv, TypeOK, OnlyWakes, ExitWakeInit, Woken1, ProcState
<1>2. GoodTarget(p, "exitself", 0, 0)
  BY <1>0, ProcAssumption DEF GoodTarget, PCs
<1>3. HeldAt(p, "exitself", 0) = Held(p) BY DEF ExitWakeInit, Held, HeldAt
<1>4. LockHeld' BY <1>2, <1>3, SameLocks DEF ExitWakeInit
<1> QED BY <1>1, <1>2, <1>4, ThreadStep DEF ExitWakeInit, Inv, TypeOK, schedVars

\* kill() finds its target.
LEMMA KillMatchInv ==
    ASSUME Inv, NEW c \in CPU, NEW p \in Slot, running[c] = p, KillMatch(c, p)
    PROVE  Inv'
<1> USE SlotFacts
<1>0. idx[p] \in Slot
  BY DEF KillMatch, Inv, ThreadOK, Live, SchedDiscipline, RunningOnCpu
<1>1. OnlyWakes /\ killed' \in [Slot -> BOOLEAN]
  BY <1>0 DEF Inv, TypeOK, OnlyWakes, KillMatch, ProcState
<1>2. GoodTarget(p, "user", 0, 0)
  BY ProcAssumption DEF GoodTarget, PCs, ExitPcs
<1>3. HeldAt(p, "user", 0) = Held(p) BY DEF KillMatch, Held, HeldAt
<1>4. LockHeld' BY <1>2, <1>3, SameLocks DEF KillMatch, Return
<1> QED BY <1>1, <1>2, <1>4, ThreadStep DEF KillMatch, Return, Inv, TypeOK, schedVars

\* yield(): a process gives up its CPU at a point where it holds no lock.
LEMMA YieldInv ==
    ASSUME Inv, NEW c \in CPU, NEW p \in Slot, running[c] = p, Yield(c, p)
    PROVE  Inv'
<1> USE SlotFacts DEF threadVars
<1>0. /\ pc[p] \in Preemptible /\ state[p] = "RUNNING" /\ Held(p) = {}
      /\ state' = [state EXCEPT ![p] = "RUNNABLE"] /\ running' = [running EXCEPT ![c] = NULL]
      /\ UNCHANGED <<pid, parent, killed, chan, lock, threadVars, nextpid, killReq>>
  BY DEF Yield, Sched, Inv, SchedDiscipline, RunningOnCpu, Preemptible, Held, HeldAt
<1>1. /\ state'[p] = "RUNNABLE" /\ \A r \in Slot \ {p} : state'[r] = state[r]
      /\ running'[c] = NULL /\ \A d \in CPU \ {c} : running'[d] = running[d]
  BY <1>0 DEF Inv, TypeOK
<1>2. TypeOK' BY <1>0 DEF Inv, TypeOK, ProcState
<1>3. InitLives' BY <1>0, <1>1 DEF Inv, InitLives, Live
<1>4. ThreadOK' BY <1>0, <1>1 DEF Inv, ThreadOK, Live, original_parent
<1>5. RunningUnique' BY <1>1 DEF Inv, SchedDiscipline, RunningUnique
<1>6. RunningOnCpu' BY <1>1 DEF Inv, SchedDiscipline, RunningOnCpu, RunningUnique
<1>7. LockHeld'
  <2>1. \A r \in Slot : Held(r)' = Held(r) BY <1>0 DEF Held
  <2> QED BY <1>0, <1>1, <2>1 DEF Inv, SchedDiscipline, LockHeld
<1>8. UnusedFree' /\ NoOrphan' BY <1>0, <1>1 DEF Inv, UnusedFree, NoOrphan
<1>9. ReparentDone' BY <1>0, <1>1 DEF Inv, ReparentDone, Live, Preemptible
<1>10. WaitScanned' BY <1>0, <1>1 DEF Inv, WaitScanned, Live, Preemptible
<1>11. NoLostExit' BY <1>0, <1>1 DEF Inv, NoLostExit
<1> QED
  BY <1>2, <1>3, <1>4, <1>5, <1>6, <1>7, <1>8, <1>9, <1>10, <1>11 DEF Inv, SchedDiscipline

\* A fork() that fails gives back an unused slot.
LEMMA ForkFailsInv ==
    ASSUME Inv, NEW c \in CPU, NEW p \in Slot, running[c] = p,
           AllocNoTrapframe(c, p) \/ ForkNoMemory(c, p)
    PROVE  Inv'
<1> USE SlotFacts
<1> DEFINE np == idx[p]
<1>0. /\ pc[p] = "alloc" /\ state[np] = "UNUSED" /\ Return(p)
      /\ nextpid' = nextpid + 1 /\ killReq' = killReq /\ UNCHANGED schedVars
  BY DEF AllocNoTrapframe, ForkNoMemory
<1>1. np \in Slot
  BY <1>0 DEF Inv, ThreadOK, Live, SchedDiscipline, RunningOnCpu
<1>2. parent[np] = NULL BY <1>0, <1>1 DEF Inv, UnusedFree
<1>3. /\ OnlyWakes /\ UNCHANGED parent
      /\ pid' \in [Slot -> Nat] /\ killed' \in [Slot -> BOOLEAN]
  <2>1. CASE AllocNoTrapframe(c, p)
    BY <2>1, <1>1 DEF AllocNoTrapframe, OnlyWakes, Inv, TypeOK
  <2>2. CASE ForkNoMemory(c, p)
    BY <2>2, <1>0, <1>1, <1>2 DEF ForkNoMemory, FreeProc, OnlyWakes, Inv, TypeOK, ProcState
  <2> QED BY <2>1, <2>2
<1>4. GoodTarget(p, "user", 0, 0)
  BY ProcAssumption DEF GoodTarget, PCs, ExitPcs
<1>5. HeldAt(p, "user", 0) = Held(p) BY <1>0 DEF Held, HeldAt
<1>6. LockHeld' BY <1>0, <1>4, <1>5, SameLocks DEF Return
<1> QED BY <1>0, <1>3, <1>4, <1>6, ThreadStep DEF Return, Inv, TypeOK, schedVars

\* A successful fork() brings a new thread to life in an unused slot.
LEMMA ForkOkInv ==
    ASSUME Inv, NEW c \in CPU, NEW p \in Slot, running[c] = p, ForkOk(c, p)
    PROVE  Inv'
<1> USE SlotFacts
<1> DEFINE np == idx[p]
<1>0. /\ pc[p] = "alloc" /\ state[np] = "UNUSED" /\ state[p] = "RUNNING"
      /\ UNCHANGED <<killed, chan, lock, running, killReq>>
  BY DEF ForkOk, schedVars, Inv, SchedDiscipline, RunningOnCpu
<1>1. np \in Slot /\ np # p
  BY <1>0 DEF Inv, ThreadOK, Live
<1>2. /\ pid' = [pid EXCEPT ![np] = nextpid] /\ nextpid' = nextpid + 1
      /\ parent' = [parent EXCEPT ![np] = p]
      /\ state' = [state EXCEPT ![np] = "RUNNABLE"]
      /\ pc' = [pc EXCEPT ![p] = "user", ![np] = "user"]
      /\ idx' = [idx EXCEPT ![p] = 0] /\ arg' = [arg EXCEPT ![p] = 0]
  BY DEF ForkOk
<1> HIDE DEF np
<1>3. /\ state'[np] = "RUNNABLE" /\ parent'[np] = p /\ pc'[np] = "user" /\ pc'[p] = "user"
      /\ \A q \in Slot \ {np} : state'[q] = state[q] /\ parent'[q] = parent[q]
      /\ \A q \in Slot \ {np, p} : pc'[q] = pc[q]
      /\ \A q \in Slot \ {p} : idx'[q] = idx[q] /\ arg'[q] = arg[q]
  BY <1>1, <1>2 DEF Inv, TypeOK
<1>4. TypeOK'
  <2>1. "user" \in PCs /\ "RUNNABLE" \in ProcState /\ 0 \in 0..NProc + 1
    BY ProcAssumption DEF PCs, ProcState
  <2> QED BY <1>0, <1>1, <1>2, <2>1 DEF Inv, TypeOK
<1>5. InitLives' BY <1>0, <1>1, <1>3 DEF Inv, InitLives, Live
<1>6. ThreadOK' BY <1>0, <1>1, <1>3 DEF Inv, ThreadOK, Live, original_parent, Preemptible
<1>7. SchedDiscipline'
  <2>1. \A q \in Slot \ {np} : Held(q)' = Held(q) BY <1>0, <1>3 DEF Held, HeldAt
  <2>2. \A d \in CPU : running[d] # np
    BY <1>0, <1>1 DEF Inv, SchedDiscipline, RunningOnCpu
  <2>3. LockHeld'
    <3> SUFFICES ASSUME NEW r \in Slot, NEW d \in CPU
                 PROVE  lock'[r] = d <=> \E s \in Slot : running'[d] = s /\ r \in Held(s)'
      BY DEF LockHeld
    <3>1. lock[r] = d <=> \E s \in Slot : running[d] = s /\ r \in Held(s)
      BY DEF Inv, SchedDiscipline, LockHeld
    <3> QED BY <1>0, <2>1, <2>2, <3>1
  <2>4. RunningUnique' BY <1>0 DEF Inv, SchedDiscipline, RunningUnique
  <2>5. RunningOnCpu' BY <1>0, <1>1, <1>3, <2>2 DEF Inv, SchedDiscipline, RunningOnCpu
  <2> QED BY <2>3, <2>4, <2>5 DEF SchedDiscipline
<1>8. UnusedFree' BY <1>1, <1>3 DEF Inv, UnusedFree
<1>9. NoOrphan'
  <2> SUFFICES ASSUME NEW q \in Slot, state'[q] # "UNUSED", q # initproc
               PROVE  parent'[q] \in Slot /\ state'[parent'[q]] \notin {"UNUSED", "ZOMBIE"}
    BY DEF NoOrphan
  <2>1. CASE q = np BY <2>1, <1>0, <1>1, <1>3
  <2>2. CASE q # np
    <3>1. parent[q] \in Slot /\ state[parent[q]] \notin {"UNUSED", "ZOMBIE"}
      BY <2>2, <1>3 DEF Inv, NoOrphan
    <3> QED BY ZenonT(40), <1>0, <1>3, <2>2, <3>1
  <2> QED BY <2>1, <2>2
<1>10. ReparentDone'
  <2>1. \A q \in Slot : 1..idx[q] - 1 \subseteq Slot BY PassedSlots DEF Inv
  <2> QED BY <1>0, <1>1, <1>3, <2>1 DEF Inv, ReparentDone, Live
<1>11. WaitScanned' BY <1>0, <1>1, <1>3 DEF Inv, WaitScanned, Live
<1>12. NoLostExit' BY <1>0, <1>1, <1>3 DEF Inv, NoLostExit
<1> QED
  BY <1>4, <1>5, <1>6, <1>7, <1>8, <1>9, <1>10, <1>11, <1>12 DEF Inv

-----------------------------------------------------------------------------
\* Steps that give up or obtain a CPU.

\* A process that has scanned all its children goes to sleep in wait().
LEMMA WaitSleepInv ==
    ASSUME Inv, NEW c \in CPU, NEW p \in Slot, running[c] = p, WaitSleep(c, p)
    PROVE  Inv'
<1> USE SlotFacts
<1>0. /\ pc[p] = "waitscan" /\ idx[p] = NProc + 1
      /\ Goto(p, "waitsleep", 0, 0)
      /\ lock' = [lock EXCEPT ![p] = NoCpu] /\ chan' = [chan EXCEPT ![p] = p]
      /\ state' = [state EXCEPT ![p] = "SLEEPING"] /\ running' = [running EXCEPT ![c] = NULL]
      /\ UNCHANGED <<pid, parent, killed, nextpid, killReq>>
  BY DEF WaitSleep, Sched
<1>1. /\ Held(p) = {p} /\ lock[p] = c /\ state[p] = "RUNNING"
      /\ \A d \in CPU : running[d] = p => d = c
      /\ \A r \in Slot : lock[r] = c => r = p
  BY <1>0, WaitHolds
<1>2. /\ pc' \in [Slot -> PCs] /\ idx' \in [Slot -> 0..NProc + 1] /\ arg' \in [Slot -> Nat]
      /\ pc'[p] = "waitsleep"
      /\ \A q \in Slot \ {p} : pc'[q] = pc[q] /\ idx'[q] = idx[q] /\ arg'[q] = arg[q]
  <2>1. "waitsleep" \in PCs /\ 0 \in 0..NProc + 1 BY ProcAssumption DEF PCs
  <2> QED BY <1>0, <2>1, GotoType DEF Inv
<1>3. /\ state'[p] = "SLEEPING" /\ chan'[p] = p /\ lock'[p] = NoCpu /\ running'[c] = NULL
      /\ \A q \in Slot \ {p} : state'[q] = state[q] /\ chan'[q] = chan[q] /\ lock'[q] = lock[q]
      /\ \A d \in CPU \ {c} : running'[d] = running[d]
  BY <1>0 DEF Inv, TypeOK
<1>4. TypeOK' BY <1>0, <1>2 DEF Inv, TypeOK, ProcState
<1>5. InitLives' BY <1>1, <1>2, <1>3 DEF Inv, InitLives, Live
<1>6. ThreadOK' BY <1>0, <1>1, <1>2, <1>3 DEF Inv, ThreadOK, Live, original_parent
<1>7. RunningUnique' BY <1>3 DEF Inv, SchedDiscipline, RunningUnique
<1>8. RunningOnCpu' BY <1>1, <1>3 DEF Inv, SchedDiscipline, RunningOnCpu
<1>9. LockHeld'
  <2>1. \A q \in Slot \ {p} : Held(q)' = Held(q) BY <1>2 DEF Held
  <2>2. ASSUME NEW r \in Slot, NEW d \in CPU
        PROVE  lock'[r] = d <=> \E s \in Slot : running'[d] = s /\ r \in Held(s)'
    <3>1. CASE d = c
      BY <1>1, <1>3, <3>1, ProcAssumption
    <3>2. CASE d # c
      <4>1. lock'[r] = d <=> lock[r] = d BY <1>1, <1>3, <3>2, ProcAssumption
      <4>2. running'[d] = running[d] /\ running[d] # p BY <1>1, <1>3, <3>2
      <4> QED BY <2>1, <4>1, <4>2 DEF Inv, SchedDiscipline, LockHeld
    <3> QED BY <3>1, <3>2
  <2> QED BY <2>2 DEF LockHeld
<1>10. UnusedFree' /\ NoOrphan' BY <1>0, <1>1, <1>3 DEF Inv, UnusedFree, NoOrphan
<1>11. ReparentDone' BY <1>0, <1>1, <1>2, <1>3 DEF Inv, ReparentDone, Live
<1>12. WaitScanned'
  <2> SUFFICES ASSUME NEW r \in Slot \ {initproc}, Live(r)', pc'[r] = "waitscan",
                      NEW q \in Slot, q < idx'[r], parent'[q] = r
               PROVE  state'[q] # "ZOMBIE"
    BY DEF WaitScanned
  <2>1. r # p BY <1>2
  <2>2. Live(r) /\ pc[r] = "waitscan" /\ q < idx[r] /\ parent[q] = r
    BY <1>0, <1>2, <1>3, <2>1 DEF Live
  <2>3. state[q] # "ZOMBIE" BY <2>2 DEF Inv, WaitScanned
  <2> QED BY <1>3, <2>3
<1>13. NoLostExit'
  <2>1. \A q \in Slot : q < NProc + 1 BY ProcAssumption DEF Slot
  <2>2. p # initproc => \A q \in Slot : parent[q] = p => state[q] # "ZOMBIE"
    BY <1>0, <1>1, <2>1 DEF Inv, WaitScanned, Live
  <2> QED BY <1>0, <1>1, <1>3, <2>2 DEF Inv, NoLostExit
<1> QED
  BY <1>4, <1>5, <1>6, <1>7, <1>8, <1>9, <1>10, <1>11, <1>12, <1>13 DEF Inv, SchedDiscipline

\* A process goes to sleep on a device.
LEMMA IoSleepInv ==
    ASSUME Inv, NEW c \in CPU, NEW p \in Slot, running[c] = p, IoSleep(c, p)
    PROVE  Inv'
<1> USE SlotFacts
<1>0. /\ pc[p] = "io" /\ Goto(p, "iosleep", 0, 0) /\ chan' = [chan EXCEPT ![p] = IoChan]
      /\ state' = [state EXCEPT ![p] = "SLEEPING"] /\ running' = [running EXCEPT ![c] = NULL]
      /\ UNCHANGED <<pid, parent, killed, lock, nextpid, killReq>>
      /\ Held(p) = {} /\ state[p] = "RUNNING"
  BY DEF IoSleep, Sched, Held, HeldAt, Inv, SchedDiscipline, RunningOnCpu
<1>1. /\ pc' \in [Slot -> PCs] /\ idx' \in [Slot -> 0..NProc + 1] /\ arg' \in [Slot -> Nat]
      /\ pc'[p] = "iosleep"
      /\ \A q \in Slot \ {p} : pc'[q] = pc[q] /\ idx'[q] = idx[q] /\ arg'[q] = arg[q]
  <2>1. "iosleep" \in PCs /\ 0 \in 0..NProc + 1 BY ProcAssumption DEF PCs
  <2> QED BY <1>0, <2>1, GotoType DEF Inv
<1>2. /\ state'[p] = "SLEEPING" /\ chan'[p] = IoChan /\ running'[c] = NULL
      /\ \A q \in Slot \ {p} : state'[q] = state[q] /\ chan'[q] = chan[q]
      /\ \A d \in CPU \ {c} : running'[d] = running[d]
  BY <1>0 DEF Inv, TypeOK
<1>3. TypeOK' BY <1>0, <1>1 DEF Inv, TypeOK, ProcState
<1>4. InitLives' BY <1>0, <1>1, <1>2 DEF Inv, InitLives, Live
<1>5. ThreadOK' BY <1>0, <1>1, <1>2 DEF Inv, ThreadOK, Live, original_parent
<1>6. RunningUnique' BY <1>2 DEF Inv, SchedDiscipline, RunningUnique
<1>7. RunningOnCpu' BY <1>0, <1>2 DEF Inv, SchedDiscipline, RunningOnCpu, RunningUnique
<1>8. LockHeld'
  <2>1. \A q \in Slot \ {p} : Held(q)' = Held(q) BY <1>1 DEF Held
  <2> SUFFICES ASSUME NEW r \in Slot, NEW d \in CPU
               PROVE  lock'[r] = d <=> \E s \in Slot : running'[d] = s /\ r \in Held(s)'
    BY DEF LockHeld
  <2>2. lock[r] = d <=> \E s \in Slot : running[d] = s /\ r \in Held(s)
    BY DEF Inv, SchedDiscipline, LockHeld
  <2>3. running[d] = p <=> d = c BY DEF Inv, SchedDiscipline, RunningUnique
  <2> QED BY <1>0, <1>2, <2>1, <2>2, <2>3
<1>9. UnusedFree' /\ NoOrphan' BY <1>0, <1>2 DEF Inv, UnusedFree, NoOrphan
<1>10. ReparentDone' BY <1>0, <1>1, <1>2 DEF Inv, ReparentDone, Live
<1>11. WaitScanned'
  <2> SUFFICES ASSUME NEW r \in Slot \ {initproc}, Live(r)', pc'[r] = "waitscan",
                      NEW q \in Slot, q < idx'[r], parent'[q] = r
               PROVE  state'[q] # "ZOMBIE"
    BY DEF WaitScanned
  <2>1. r # p BY <1>1
  <2>2. Live(r) /\ pc[r] = "waitscan" /\ q < idx[r] /\ parent[q] = r
    BY <1>0, <1>1, <1>2, <2>1 DEF Live
  <2>3. state[q] # "ZOMBIE" BY <2>2 DEF Inv, WaitScanned
  <2> QED BY <1>2, <2>3
<1>12. NoLostExit' BY <1>0, <1>2 DEF Inv, NoLostExit
<1> QED
  BY <1>3, <1>4, <1>5, <1>6, <1>7, <1>8, <1>9, <1>10, <1>11, <1>12 DEF Inv, SchedDiscipline

\* exit() becomes a ZOMBIE: it holds its own and its parent's lock, so that the
\* parent is not in the middle of wait().
LEMMA ExitZombieInv ==
    ASSUME Inv, NEW c \in CPU, NEW p \in Slot, running[c] = p, ExitZombie(c, p)
    PROVE  Inv'
<1> USE SlotFacts
<1> DEFINE op == original_parent(p)
<1>0. /\ pc[p] = "zombie" /\ Goto(p, "zombie", 0, 0)
      /\ state' = IF Woken1(op) THEN [state EXCEPT ![op] = "RUNNABLE", ![p] = "ZOMBIE"]
                                ELSE [state EXCEPT ![p] = "ZOMBIE"]
      /\ lock' = [lock EXCEPT ![op] = NoCpu, ![p] = NoCpu]
      /\ running' = [running EXCEPT ![c] = NULL]
      /\ UNCHANGED <<pid, parent, killed, chan, nextpid, killReq>>
  BY DEF ExitZombie
<1>1. /\ state[p] = "RUNNING" /\ op \in Slot /\ p # initproc
      /\ parent[p] \in {op, initproc}
      /\ Held(p) = {op, p}
      /\ \A q \in Slot : parent[q] # p
  BY <1>0 DEF Inv, SchedDiscipline, RunningOnCpu, ThreadOK, InitLives, ReparentDone, Live,
              Held, HeldAt, original_parent
<1>2. /\ \A d \in CPU : running[d] = p => d = c
      /\ \A r \in Slot : lock[r] = c <=> r \in {op, p}
  <2>1. \A d \in CPU : running[d] = p => d = c
    BY DEF Inv, SchedDiscipline, RunningUnique
  <2>2. \A r \in Slot : lock[r] = c <=> \E s \in Slot : running[c] = s /\ r \in Held(s)
    BY DEF Inv, SchedDiscipline, LockHeld
  <2> QED BY <1>1, <2>1, <2>2
<1> HIDE DEF op
<1>3. /\ pc' \in [Slot -> PCs] /\ idx' \in [Slot -> 0..NProc + 1] /\ arg' \in [Slot -> Nat]
      /\ pc'[p] = "zombie"
      /\ \A q \in Slot \ {p} : pc'[q] = pc[q] /\ idx'[q] = idx[q] /\ arg'[q] = arg[q]
  <2>1. "zombie" \in PCs /\ 0 \in 0..NProc + 1 BY ProcAssumption DEF PCs
  <2> QED BY <1>0, <2>1, GotoType DEF Inv
<1>4. /\ state' \in [Slot -> ProcState]
      /\ state'[p] = "ZOMBIE"
      /\ \A q \in Slot \ {p} :
            \/ state'[q] = state[q] /\ ~(q = op /\ Woken1(op))
            \/ q = op /\ Woken1(op) /\ state'[q] = "RUNNABLE"
      /\ lock'[op] = NoCpu /\ lock'[p] = NoCpu /\ running'[c] = NULL
      /\ \A q \in Slot \ {op, p} : lock'[q] = lock[q]
      /\ \A d \in CPU \ {c} : running'[d] = running[d]
  BY <1>0, <1>1 DEF Inv, TypeOK, ProcState, Woken1
<1>5. TypeOK' BY <1>0, <1>3, <1>4 DEF Inv, TypeOK
<1>6. \A q \in Slot \ {p} : Live(q)' = Live(q)
  BY <1>4 DEF Live, Woken1
<1>7. InitLives' BY <1>1, <1>3, <1>6 DEF Inv, InitLives
<1>8. ThreadOK'
  BY <1>0, <1>3, <1>4, <1>6 DEF Inv, ThreadOK, Live, original_parent, Woken1
<1>9. RunningUnique' BY <1>4 DEF Inv, SchedDiscipline, RunningUnique
<1>10. RunningOnCpu'
  BY <1>2, <1>4 DEF Inv, SchedDiscipline, RunningOnCpu, Woken1
<1>11. LockHeld'
  <2>1. \A q \in Slot \ {p} : Held(q)' = Held(q) BY <1>3 DEF Held
  <2> SUFFICES ASSUME NEW r \in Slot, NEW d \in CPU
               PROVE  lock'[r] = d <=> \E s \in Slot : running'[d] = s /\ r \in Held(s)'
    BY DEF LockHeld
  <2>2. lock[r] = d <=> \E s \in Slot : running[d] = s /\ r \in Held(s)
    BY DEF Inv, SchedDiscipline, LockHeld
  <2>3. CASE d = c
    BY <1>2, <1>4, <2>3, ProcAssumption
  <2>4. CASE d # c
    <3>1. lock'[r] = d <=> lock[r] = d BY <1>2, <1>4, <2>4, ProcAssumption
    <3>2. running'[d] = running[d] /\ running[d] # p BY <1>2, <1>4, <2>4
    <3> QED BY <2>1, <2>2, <3>1, <3>2
  <2> QED BY <2>3, <2>4
<1>12. UnusedFree' BY <1>0, <1>4 DEF Inv, UnusedFree, Woken1
<1>13. NoOrphan'
  <2> SUFFICES ASSUME NEW q \in Slot, state'[q] # "UNUSED", q # initproc
               PROVE  parent'[q] \in Slot /\ Live(parent[q])'
    BY <1>0 DEF NoOrphan, Live
  <2>1. parent[q] \in Slot /\ Live(parent[q])
    BY <1>1, <1>4 DEF Inv, NoOrphan, Live, Woken1
  <2> QED BY <1>0, <1>1, <1>6, <2>1 DEF Live
<1>14. ReparentDone'
  BY <1>0, <1>3, <1>4, <1>6 DEF Inv, ReparentDone, Live
<1>15. WaitScanned'
  <2> SUFFICES ASSUME NEW r \in Slot \ {initproc}, Live(r)', pc'[r] = "waitscan",
                      NEW q \in Slot, q < idx'[r], parent'[q] = r
               PROVE  state'[q] # "ZOMBIE"
    BY DEF WaitScanned
  <2>1. r # p BY <1>3
  <2>2. Live(r) /\ pc[r] = "waitscan" /\ q < idx[r] /\ parent[q] = r
    BY <1>0, <1>3, <1>6, <2>1
  <2>3. state[q] # "ZOMBIE" BY <2>2 DEF Inv, WaitScanned
  <2>4. q # p
    <3> SUFFICES ASSUME q = p PROVE FALSE OBVIOUS
    <3>1. r = op BY <1>1, <2>2
    <3>2. state[r] = "RUNNING"
      BY <2>2 DEF Inv, ThreadOK, Live, TypeOK, ProcState, Preemptible
    <3>3. PICK d \in CPU : running[d] = r
      BY <3>2 DEF Inv, SchedDiscipline, RunningOnCpu
    <3>4. lock[r] = d
      BY <2>2, <3>3, WaitHolds
    <3> QED BY <1>2, <2>1, <3>1, <3>3, <3>4
  <2> QED BY <1>4, <2>3, <2>4
<1>16. NoLostExit'
  <2> SUFFICES ASSUME NEW r \in Slot \ {initproc}, NEW q \in Slot,
                      state'[r] = "SLEEPING", chan'[r] = r, parent'[q] = r
               PROVE  state'[q] # "ZOMBIE"
    BY DEF NoLostExit
  <2>1. state[r] = "SLEEPING" /\ chan[r] = r /\ parent[q] = r /\ r # p
    BY <1>0, <1>4
  <2>2. CASE q = p
    <3>1. r = op BY <1>1, <2>1, <2>2
    <3> QED BY <1>4, <2>1, <3>1 DEF Woken1
  <2>3. CASE q # p
    BY <1>4, <2>1, <2>3 DEF Inv, NoLostExit
  <2> QED BY <2>2, <2>3
<1> QED
  BY <1>5, <1>7, <1>8, <1>9, <1>10, <1>11, <1>12, <1>13, <1>14, <1>15, <1>16
     DEF Inv, SchedDiscipline

\* The scheduler dispatches a RUNNABLE process; a sleeper in wait() comes back with
\* its own lock held.
LEMMA SchedulerInv ==
    ASSUME Inv, NEW c \in CPU, NEW p \in Slot, Scheduler(c, p)
    PROVE  Inv'
<1> USE SlotFacts
<1>0. /\ running[c] = NULL /\ lock[p] = NoCpu /\ state[p] = "RUNNABLE"
      /\ state' = [state EXCEPT ![p] = "RUNNING"] /\ running' = [running EXCEPT ![c] = p]
      /\ UNCHANGED <<pid, parent, killed, nextpid, killReq>>
  BY DEF Scheduler, Free
<1>1. /\ pc[p] \in Preemptible \cup {"waitsleep", "iosleep"}
      /\ Held(p) = {}
      /\ \A d \in CPU : running[d] # p
      /\ \A r \in Slot : lock[r] # c
  <2>1. pc[p] \in Preemptible \cup {"waitsleep", "iosleep"}
    BY <1>0 DEF Inv, ThreadOK, Live
  <2>2. Held(p) = {} BY <2>1 DEF Preemptible, Held, HeldAt
  <2>3. \A d \in CPU : running[d] # p
    BY <1>0 DEF Inv, SchedDiscipline, RunningOnCpu
  <2>4. \A r \in Slot : lock[r] # c
    BY <1>0 DEF Inv, SchedDiscipline, LockHeld
  <2> QED BY <2>1, <2>2, <2>3, <2>4
<1>2. /\ pc' \in [Slot -> PCs] /\ idx' \in [Slot -> 0..NProc + 1] /\ arg' \in [Slot -> Nat]
      /\ chan' \in [Slot -> Slot \cup {NULL, IoChan}] /\ lock' \in [Slot -> CPU \cup {NoCpu}]
      /\ \A q \in Slot \ {p} : pc'[q] = pc[q] /\ idx'[q] = idx[q] /\ arg'[q] = arg[q]
      /\ \A q \in Slot \ {p} : chan'[q] = chan[q] /\ lock'[q] = lock[q]
      /\ \/ pc'[p] = "waitscan" /\ idx'[p] = 1 /\ lock'[p] = c
         \/ pc'[p] = "user" /\ lock'[p] = NoCpu
         \/ /\ pc'[p] = pc[p] /\ pc[p] \in Preemptible
            /\ idx'[p] = idx[p] /\ arg'[p] = arg[p] /\ lock'[p] = NoCpu
  <2>0. /\ {"waitscan", "user"} \subseteq PCs
        /\ 0 \in 0..NProc + 1 /\ 1 \in 0..NProc + 1 /\ 0 \in Nat
    BY ProcAssumption DEF PCs
  <2>1. CASE pc[p] = "waitsleep"
    <3>1. /\ chan' = [chan EXCEPT ![p] = NULL] /\ lock' = [lock EXCEPT ![p] = c]
          /\ Goto(p, "waitscan", 1, 0)
      BY <2>1 DEF Scheduler
    <3>2. chan' \in [Slot -> Slot \cup {NULL, IoChan}] /\ lock' \in [Slot -> CPU \cup {NoCpu}]
      BY <3>1 DEF Inv, TypeOK
    <3>3. lock'[p] = c /\ \A q \in Slot \ {p} : chan'[q] = chan[q] /\ lock'[q] = lock[q]
      BY <3>1 DEF Inv, TypeOK
    <3> QED BY <2>0, <3>1, <3>2, <3>3, GotoType DEF Inv
  <2>2. CASE pc[p] = "iosleep"
    <3>1. chan' = [chan EXCEPT ![p] = NULL] /\ lock' = lock /\ Goto(p, "user", 0, 0)
      BY <2>2 DEF Scheduler, Return
    <3>2. chan' \in [Slot -> Slot \cup {NULL, IoChan}] /\ lock' \in [Slot -> CPU \cup {NoCpu}]
      BY <3>1 DEF Inv, TypeOK
    <3>3. lock'[p] = NoCpu /\ \A q \in Slot \ {p} : chan'[q] = chan[q] /\ lock'[q] = lock[q]
      BY <1>0, <3>1 DEF Inv, TypeOK
    <3> QED BY <2>0, <3>1, <3>2, <3>3, GotoType DEF Inv
  <2>3. CASE pc[p] \notin {"waitsleep", "iosleep"}
    <3>1. UNCHANGED <<chan, lock, threadVars>> BY <2>3 DEF Scheduler
    <3> QED BY <1>0, <1>1, <2>3, <3>1 DEF Inv, TypeOK, threadVars
  <2> QED BY <2>1, <2>2, <2>3
<1>3. /\ state'[p] = "RUNNING" /\ running'[c] = p
      /\ \A q \in Slot \ {p} : state'[q] = state[q]
      /\ \A d \in CPU \ {c} : running'[d] = running[d]
  BY <1>0 DEF Inv, TypeOK
<1>4. TypeOK' BY <1>0, <1>2 DEF Inv, TypeOK, ProcState
<1>5. InitLives' BY <1>0, <1>1, <1>2, <1>3 DEF Inv, InitLives, Live
<1>6. ThreadOK'
  BY <1>0, <1>2, <1>3 DEF Inv, ThreadOK, Live, original_parent, Preemptible
<1>7. RunningUnique' BY <1>1, <1>3 DEF Inv, SchedDiscipline, RunningUnique
<1>8. RunningOnCpu' BY <1>0, <1>3 DEF Inv, SchedDiscipline, RunningOnCpu
<1>9. LockHeld'
  <2>1. \A q \in Slot \ {p} : Held(q)' = Held(q) BY <1>2 DEF Held
  <2>2. \/ Held(p)' = {p} /\ lock'[p] = c
        \/ Held(p)' = {} /\ lock'[p] = NoCpu
    BY <1>2 DEF Held, HeldAt, Preemptible
  <2> SUFFICES ASSUME NEW r \in Slot, NEW d \in CPU
               PROVE  lock'[r] = d <=> \E s \in Slot : running'[d] = s /\ r \in Held(s)'
    BY DEF LockHeld
  <2>3. lock[r] = d <=> \E s \in Slot : running[d] = s /\ r \in Held(s)
    BY DEF Inv, SchedDiscipline, LockHeld
  <2>4. CASE d = c
    <3>1. (\E s \in Slot : running'[d] = s /\ r \in Held(s)') <=> r \in Held(p)'
      BY <1>3, <2>4
    <3> QED BY <1>1, <1>2, <2>2, <2>4, <3>1, ProcAssumption, <1>3
  <2>5. CASE d # c
    <3>1. running'[d] = running[d] /\ running[d] # p BY <1>1, <1>3, <2>5
    <3>2. lock'[r] = d <=> lock[r] = d BY <1>0, <1>2, <2>2, <2>5, ProcAssumption
    <3> QED BY <2>1, <2>3, <3>1, <3>2
  <2> QED BY <2>4, <2>5
<1>10. UnusedFree' /\ NoOrphan' BY <1>0, <1>3 DEF Inv, UnusedFree, NoOrphan
<1>11. ReparentDone'
  BY <1>0, <1>2, <1>3 DEF Inv, ReparentDone, Live, Preemptible
<1>12. WaitScanned'
  <2>1. \A q \in Slot : ~(q < 1) BY DEF Slot
  <2> QED BY <1>0, <1>2, <1>3, <2>1 DEF Inv, WaitScanned, Live, Preemptible
<1>13. NoLostExit' BY <1>0, <1>2, <1>3 DEF Inv, NoLostExit
<1> QED
  BY <1>4, <1>5, <1>6, <1>7, <1>8, <1>9, <1>10, <1>11, <1>12, <1>13 DEF Inv, SchedDiscipline

-----------------------------------------------------------------------------

\* The initial state satisfies Inv.
LEMMA InitInv == Init => Inv
<1> USE SlotFacts
<1> SUFFICES ASSUME Init PROVE Inv OBVIOUS
<1>1. TypeOK
  BY ProcAssumption DEF Init, TypeOK, ProcState, PCs
<1>2. InitLives /\ ThreadOK
  BY DEF Init, InitLives, ThreadOK, Live, Preemptible
<1>3. SchedDiscipline
  BY ProcAssumption DEF Init, SchedDiscipline, RunningUnique, RunningOnCpu, LockHeld
<1>4. UnusedFree /\ NoOrphan /\ ReparentDone /\ WaitScanned /\ NoLostExit
  BY DEF Init, UnusedFree, NoOrphan, ReparentDone, WaitScanned, NoLostExit
<1> QED BY <1>1, <1>2, <1>3, <1>4 DEF Inv

\* The process acts on the CPU that runs it.
LEMMA RunsHere ==
    ASSUME NEW c, NEW p, Kernel(c, p) \/ User(c, p) \/ Yield(c, p)
    PROVE  running[c] = p
<1>1. CASE User(c, p)
  BY <1>1 DEF User, ForkCall, ExitCall, WaitCall, IoCheck, KillCall, Syscall
<1>2. CASE Yield(c, p)
  BY <1>2 DEF Yield
<1>3. CASE Kernel(c, p)
  BY <1>3 DEF Kernel, AllocSkip, ForkOk, AllocNoTrapframe, ForkNoMemory, ExitWakeInit,
     ExitReadParent, ExitLockParent, ExitLockSelf, ReparentSkip, ReparentChild, ExitZombie,
     WaitLock, WaitSkip, WaitChild, WaitReap, WaitCopyoutFails, WaitNone, WaitSleep, IoSleep,
     KillSkip, KillMatch
<1> QED BY <1>1, <1>2, <1>3

\* Every step keeps Inv.
LEMMA NextInv == Inv /\ [Next]_vars => Inv'
<1> SUFFICES ASSUME Inv, [Next]_vars PROVE Inv' OBVIOUS
<1>1. ASSUME NEW c \in CPU, NEW p \in Slot, Scheduler(c, p) PROVE Inv'
  BY <1>1, SchedulerInv
<1>2. ASSUME NEW c \in CPU, NEW p \in Slot, User(c, p) PROVE Inv'
  BY <1>2, RunsHere, CallInv
<1>3. ASSUME NEW c \in CPU, NEW p \in Slot, Yield(c, p) PROVE Inv'
  BY <1>3, RunsHere, YieldInv
<1>4. ASSUME NEW p \in Slot, Wakeup(p) PROVE Inv'
  BY <1>4, WakeupInv
<1>5. ASSUME NEW c \in CPU, NEW p \in Slot, Kernel(c, p) PROVE Inv'
  BY <1>5, RunsHere, ScanInv, ForkOkInv, ForkFailsInv, ExitWakeInitInv, ExitReadParentInv,
     ExitLockParentInv, ExitLockSelfInv, ReparentSkipInv, ReparentChildInv, ExitZombieInv,
     WaitLockInv, WaitScanInv, WaitReapInv, WaitReturnInv, WaitSleepInv, IoSleepInv, KillMatchInv
     DEF Kernel
<1>6. CASE UNCHANGED vars
  <2>1. \A q \in Slot : Held(q)' = Held(q) /\ Live(q)' = Live(q)
    BY <1>6 DEF vars, procVars, threadVars, Held, Live
  <2>2. TypeOK' /\ InitLives' /\ ThreadOK'
    BY <1>6, <2>1 DEF vars, procVars, threadVars, schedVars, Inv, TypeOK, InitLives, ThreadOK,
                original_parent, Live
  <2>3. SchedDiscipline'
    BY <1>6, <2>1 DEF vars, procVars, threadVars, schedVars, Inv, SchedDiscipline, RunningUnique,
                RunningOnCpu, LockHeld
  <2>4. UnusedFree' /\ NoOrphan' /\ NoLostExit'
    BY <1>6 DEF vars, procVars, Inv, UnusedFree, NoOrphan, NoLostExit
  <2>5. ReparentDone' /\ WaitScanned'
    BY <1>6, <2>1 DEF vars, procVars, threadVars, Inv, ReparentDone, WaitScanned
  <2> QED BY <2>2, <2>3, <2>4, <2>5 DEF Inv
<1> QED
  BY <1>1, <1>2, <1>3, <1>4, <1>5, <1>6 DEF Next

\* The inductive invariant holds in every reachable state, for every number of
\* slots and CPUs.
THEOREM Invariance == Spec => []Inv
BY InitInv, NextInv, PTL DEF Spec

\* struct proc and struct cpu keep their types.
THEOREM TypeCorrect == Spec => []TypeOK
<1>1. Inv => TypeOK BY DEF Inv
<1> QED BY <1>1, Invariance, PTL

\* Every RUNNING process has one CPU, and sched() never leaves a lock behind.
THEOREM SchedulerCorrect == Spec => []SchedDiscipline
<1>1. Inv => SchedDiscipline BY DEF Inv
<1> QED BY <1>1, Invariance, PTL

\* exit() leaves no child with a dead parent.
THEOREM NoOrphans == Spec => []NoOrphan
<1>1. Inv => NoOrphan BY DEF Inv
<1> QED BY <1>1, Invariance, PTL

\* No process but init sleeps in wait() over a dead child.
THEOREM WaitCorrect == Spec => []NoLostExit
<1>1. Inv => NoLostExit BY DEF Inv
<1> QED BY <1>1, Invariance, PTL

\* Every step changes a parent only in the ways ParentChange lists.
LEMMA ParentStep ==
    ASSUME Inv, Next, NEW q \in Slot
    PROVE  ParentChange(q)
<1> USE SlotFacts
<1>1. CASE UNCHANGED parent BY <1>1 DEF ParentChange
<1>2. ASSUME NEW c \in CPU, NEW p \in Slot, running[c] = p,
             ForkOk(c, p) \/ ForkNoMemory(c, p) \/ ReparentChild(c, p) \/ WaitReap(c, p)
      PROVE  ParentChange(q)
  <2>1. state[p] = "RUNNING" BY <1>2 DEF Inv, SchedDiscipline, RunningOnCpu
  <2>2. idx[p] \in Slot
    BY <1>2, <2>1 DEF Inv, ThreadOK, Live, ForkOk, ForkNoMemory, ReparentChild, WaitReap
  <2>3. CASE ForkOk(c, p)
    <3>1. state[idx[p]] = "UNUSED" /\ pc[p] = "alloc" /\ parent' = [parent EXCEPT ![idx[p]] = p]
      BY <2>3 DEF ForkOk
    <3>2. parent[idx[p]] \notin Slot BY <2>2, <3>1 DEF Inv, UnusedFree
    <3> QED BY <2>1, <2>2, <3>1, <3>2 DEF Inv, TypeOK, ParentChange
  <2>4. CASE ForkNoMemory(c, p)
    <3>1. state[idx[p]] = "UNUSED" /\ parent' = [parent EXCEPT ![idx[p]] = NULL]
      BY <2>4 DEF ForkNoMemory, FreeProc
    <3>2. parent[idx[p]] = NULL BY <2>2, <3>1 DEF Inv, UnusedFree
    <3> QED BY <2>2, <3>1, <3>2 DEF Inv, TypeOK, ParentChange
  <2>5. CASE ReparentChild(c, p) \/ WaitReap(c, p)
    <3>1. /\ pc[p] \in {"reparent", "waitscan"} /\ parent[idx[p]] = p
          /\ \A r \in Slot \ {idx[p]} : parent'[r] = parent[r]
      BY <2>2, <2>5 DEF ReparentChild, WaitReap, FreeProc, Inv, TypeOK
    <3> QED BY <2>1, <2>2, <3>1 DEF ParentChange
  <2> QED BY <1>2, <2>3, <2>4, <2>5
<1>3. ASSUME NEW c \in CPU, NEW p \in Slot, User(c, p) \/ Yield(c, p) \/ Scheduler(c, p)
      PROVE  UNCHANGED parent
  BY <1>3 DEF User, Yield, Scheduler, ForkCall, ExitCall, WaitCall, IoCheck, KillCall, procVars
<1>4. ASSUME NEW c \in CPU, NEW p \in Slot, Kernel(c, p)
      PROVE  ParentChange(q)
  <2>1. \/ UNCHANGED parent
        \/ ForkOk(c, p) \/ ForkNoMemory(c, p) \/ ReparentChild(c, p) \/ WaitReap(c, p)
    BY <1>4 DEF Kernel, AllocSkip, AllocNoTrapframe, ExitWakeInit, ExitReadParent, ExitLockParent,
       ExitLockSelf, ReparentSkip, ExitZombie, WaitLock, WaitSkip, WaitChild, WaitCopyoutFails,
       WaitNone, WaitSleep, IoSleep, KillSkip, KillMatch, procVars
  <2> QED BY <1>1, <1>2, <1>4, <2>1, RunsHere
<1>5. ASSUME NEW p \in Slot, Wakeup(p) PROVE UNCHANGED parent
  BY <1>5 DEF Wakeup
<1> QED
  BY <1>1, <1>3, <1>4, <1>5 DEF Next

\* Only the parent changes np->parent, which is what lets wait() and reparent()
\* read it without np->lock.
THEOREM ParentsStable == Spec => ParentStable
<1>1. Inv /\ [Next]_vars => [\A q \in Slot : ParentChange(q)]_vars
  BY ParentStep
<1> QED BY <1>1, Invariance, PTL DEF Spec, ParentStable
=============================================================================
