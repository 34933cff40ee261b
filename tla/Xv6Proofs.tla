----------------------------- MODULE Xv6Proofs ------------------------------
(***************************************************************************)
(* Proofs about the process table of xv6 (Xv6Proc): what its fields hold,   *)
(* and that fork(), exit() and wait() keep every parent able to collect its *)
(* children, for tables of every size and any number of CPUs.               *)
(*                                                                         *)
(* XInv is the inductive invariant.  wait_lock has an owner, fork() owns    *)
(* the slot it fills, exit() has given its children away before it becomes  *)
(* a ZOMBIE, and wait() has seen no ZOMBIE child when it is about to sleep. *)
(***************************************************************************)
EXTENDS Xv6Proc, ModArith, TLAPS

Alive(p) == pstate[p] \notin {"UNUSED", "USED", "ZOMBIE"}

\* The places between acquire(&wait_lock) and its release, and those of fork()
\* after it let np->lock go.
WaitLockPpc == {"exitwake", "exitzombie", "waitscan", "waitsleep"}
ForkPpc == {"forkparent", "forkrun"}

WaitLockOwner ==
    \A p \in PSlot : Alive(p) /\ ppc[p] \in WaitLockPpc <=> wait_lock = p

\* How the state of a process goes with the place it is at.
Place ==
    \A p \in PSlot :
        /\ pstate[p] = "SLEEPING" => \/ ppc[p] = "waitwoken" /\ pchan[p] = p
                                     \/ ppc[p] = "iowoken" /\ pchan[p] = DevChan
        /\ Alive(p) /\ ppc[p] \in WaitLockPpc => pstate[p] = "RUNNING"
        /\ Alive(p) /\ ppc[p] \in {"waitwoken", "iowoken"} => pstate[p] # "RUNNING"
        /\ pstate[p] = "USED" => ppc[p] = "user"
        /\ pstate[p] = "UNUSED" => pparent[p] = NoProc

Init6Lives == Alive(init6) /\ ppc[init6] \notin {"exit", "exitwake", "exitzombie"}

\* fork() owns the slot np it fills in, which has no parent until fork() sets it.
NpUsed ==
    \A p \in PSlot : Alive(p) /\ ppc[p] \in ForkPpc =>
        /\ child[p] \in PSlot /\ pstate[child[p]] = "USED"
        /\ pparent[child[p]] = IF ppc[p] = "forkrun" THEN p ELSE NoProc

NpDistinct ==
    \A p, q \in PSlot :
        (/\ Alive(p) /\ ppc[p] \in ForkPpc
         /\ Alive(q) /\ ppc[q] \in ForkPpc /\ child[p] = child[q]) => p = q

NpParent ==
    \A q \in PSlot : pstate[q] = "USED" /\ pparent[q] # NoProc =>
        /\ Alive(pparent[q]) /\ ppc[pparent[q]] = "forkrun"
        /\ child[pparent[q]] = q

\* No child is left to a process that has called reparent().
NoKids ==
    \A p \in PSlot : Alive(p) /\ ppc[p] \in {"exitwake", "exitzombie"} =>
        \A q \in PSlot : pparent[q] # p

\* Between wakeup(p->parent) and p->state = ZOMBIE the parent is not in wait().
ParentAwake ==
    \A p \in PSlot : Alive(p) /\ ppc[p] = "exitzombie" =>
        \A r \in PSlot : r = pparent[p] => ~ (pstate[r] = "SLEEPING" /\ pchan[r] = r)

ScanTested == \A p \in PSlot : Alive(p) /\ ppc[p] = "waitsleep" => Zombies(p) = {}

XInv ==
    /\ Xv6TypeOK /\ WaitLockOwner /\ Place /\ Init6Lives
    /\ NpUsed /\ NpDistinct /\ NpParent
    /\ NoKids /\ ParentAwake /\ ScanTested
    /\ ParentCanWait /\ NoLostExit6

-----------------------------------------------------------------------------
\* Scheduler6 keeps XInv.
LEMMA Scheduler6Inv ==
    ASSUME XInv, NEW p \in PSlot, Scheduler6(p)
    PROVE  XInv'
<1> USE Xv6ProcAssumption DEF Scheduler6, PSlot, NoProc, DevChan, init6
<1>1. Xv6TypeOK'
  BY DEF XInv, Xv6TypeOK, PPC, Alive, WaitLockOwner, WaitLockPpc, Place
<1>2. WaitLockOwner'
  BY DEF XInv, Xv6TypeOK, PPC, Alive, WaitLockOwner, WaitLockPpc, Place
<1>3. Place'
  BY DEF XInv, Xv6TypeOK, Alive, Place
<1>4. Init6Lives'
  BY DEF XInv, Alive, Init6Lives
<1>5. NpUsed'
  BY DEF XInv, Xv6TypeOK, PPC, Alive, NpUsed, ForkPpc
<1>6. NpDistinct'
  BY DEF XInv, Alive, NpDistinct, ForkPpc
<1>7. NpParent'
  BY DEF XInv, Alive, NpParent
<1>8. NoKids'
  BY DEF XInv, Alive, NoKids
<1>9. ParentAwake'
  BY DEF XInv, Alive, ParentAwake
<1>10. ScanTested'
  BY DEF XInv, Alive, ScanTested, Zombies
<1>11. ParentCanWait'
  BY DEF XInv, ParentCanWait
<1>12. NoLostExit6'
  BY DEF XInv, NoLostExit6, Zombies
<1> QED BY <1>1, <1>2, <1>3, <1>4, <1>5, <1>6, <1>7, <1>8, <1>9, <1>10, <1>11, <1>12 DEF XInv

\* Yield6 keeps XInv.
LEMMA Yield6Inv ==
    ASSUME XInv, NEW p \in PSlot, Yield6(p)
    PROVE  XInv'
<1> USE Xv6ProcAssumption DEF Yield6, PSlot, NoProc, DevChan, init6
<1>1. Xv6TypeOK'
  BY DEF XInv, Xv6TypeOK, PPC, Alive, WaitLockOwner, WaitLockPpc, Place
<1>2. WaitLockOwner'
  BY DEF XInv, Alive, WaitLockOwner
<1>3. Place'
  BY DEF XInv, Alive, WaitLockPpc, Place
<1>4. Init6Lives'
  BY DEF XInv, Alive, Init6Lives
<1>5. NpUsed'
  BY DEF XInv, Alive, NpUsed
<1>6. NpDistinct'
  BY DEF XInv, Alive, NpDistinct
<1>7. NpParent'
  BY DEF XInv, Alive, NpParent
<1>8. NoKids'
  BY DEF XInv, Alive, NoKids
<1>9. ParentAwake'
  BY DEF XInv, Alive, ParentAwake
<1>10. ScanTested'
  BY DEF XInv, Alive, ScanTested, Zombies
<1>11. ParentCanWait'
  BY DEF XInv, Xv6TypeOK, PPC, Alive, ParentCanWait, NoKids, Init6Lives
<1>12. NoLostExit6'
  BY DEF XInv, NoLostExit6, Zombies
<1> QED BY <1>1, <1>2, <1>3, <1>4, <1>5, <1>6, <1>7, <1>8, <1>9, <1>10, <1>11, <1>12 DEF XInv

\* Fork6 keeps XInv.
LEMMA Fork6Inv ==
    ASSUME XInv, NEW p \in PSlot, Fork6(p)
    PROVE  XInv'
<1> USE Xv6ProcAssumption DEF PSlot, NoProc, PSlot, NoProc, DevChan, init6
<1> DEFINE S == {q \in PSlot : pstate[q] = "UNUSED"}
           n == CHOOSE q \in S : \A r \in S : q <= r
<1>a. n \in S
  <2>1. S \in SUBSET Nat /\ S # {} BY DEF Fork6
  <2> HIDE DEF S
  <2> QED BY <2>1, Least
<1>b. /\ Running(p, "user") /\ UNCHANGED <<pparent, pkilled, pchan, wait_lock>>
      /\ pstate' = [pstate EXCEPT ![n] = "USED"]
      /\ ppid' = [ppid EXCEPT ![n] = next_pid]
      /\ child' = [child EXCEPT ![p] = n]
      /\ ppc' = [ppc EXCEPT ![p] = "forkparent", ![n] = "user"]
      /\ next_pid' = next_pid + 1 /\ next_pid <= MaxForks
  BY DEF Fork6
<1>c. n \in PSlot /\ pstate[n] = "UNUSED" BY <1>a
<1> HIDE DEF n, S
<1>1. Xv6TypeOK'
  BY SMTT(30), <1>b, <1>c DEF Running, GoTo, FreeProc6, XInv, Xv6TypeOK, PPC, Alive, WaitLockOwner, WaitLockPpc, Place
<1>2. WaitLockOwner'
  BY <1>b, <1>c DEF Running, XInv, Xv6TypeOK, Alive, WaitLockOwner, WaitLockPpc, Place
<1>3. Place'
  BY <1>b DEF Running, XInv, Xv6TypeOK, Alive, Place
<1>4. Init6Lives'
  BY <1>b, <1>c DEF XInv, Xv6TypeOK, Alive, Init6Lives
<1>5. NpUsed'
  BY <1>b, <1>c DEF XInv, Xv6TypeOK, Alive, NpUsed, Place
<1>6. NpDistinct'
  BY SMTT(30), <1>b, <1>c DEF Running, GoTo, FreeProc6, XInv, Xv6TypeOK, PPC, Alive, NpDistinct, NpUsed, ForkPpc
<1>7. NpParent'
  BY <1>b, <1>c DEF Running, XInv, Xv6TypeOK, Alive, NpParent, Place
<1>8. NoKids'
  BY <1>b DEF XInv, Xv6TypeOK, Alive, NoKids
<1>9. ParentAwake'
  BY <1>b DEF XInv, Xv6TypeOK, Alive, ParentAwake, Place
<1>10. ScanTested'
  BY <1>b DEF XInv, Xv6TypeOK, Alive, ScanTested, Zombies
<1>11. ParentCanWait'
  BY <1>b, <1>c DEF XInv, ParentCanWait
<1>12. NoLostExit6'
  BY <1>b DEF XInv, NoLostExit6, Zombies
<1> QED BY <1>1, <1>2, <1>3, <1>4, <1>5, <1>6, <1>7, <1>8, <1>9, <1>10, <1>11, <1>12 DEF XInv

\* ForkFails6 keeps XInv.
LEMMA ForkFails6Inv ==
    ASSUME XInv, NEW p \in PSlot, ForkFails6(p)
    PROVE  XInv'
<1> USE Xv6ProcAssumption DEF PSlot, PSlot, NoProc, DevChan, init6
<1> DEFINE S == {q \in PSlot : pstate[q] = "UNUSED"}
           n == CHOOSE q \in S : \A r \in S : q <= r
<1>a. n \in S
  <2>1. S \in SUBSET Nat /\ S # {} BY DEF ForkFails6
  <2> HIDE DEF S
  <2> QED BY <2>1, Least
<1>b. /\ FreeProc6(n) /\ next_pid <= MaxForks /\ next_pid' = next_pid + 1
      /\ UNCHANGED <<wait_lock, ppc, child>>
  BY DEF ForkFails6
<1>c. n \in PSlot /\ pstate[n] = "UNUSED" BY <1>a
<1> HIDE DEF n, S
<1>1. Xv6TypeOK'
  BY <1>b, <1>c DEF FreeProc6, XInv, Xv6TypeOK, Alive, WaitLockPpc
<1>2. WaitLockOwner'
  BY <1>b, <1>c DEF FreeProc6, XInv, Alive, WaitLockOwner
<1>3. Place'
  BY <1>b, <1>c DEF FreeProc6, XInv, Alive, Place
<1>4. Init6Lives'
  BY <1>b, <1>c DEF FreeProc6, XInv, Alive, Init6Lives
<1>5. NpUsed'
  BY <1>b, <1>c DEF FreeProc6, XInv, Alive, NpUsed
<1>6. NpDistinct'
  BY <1>b DEF FreeProc6, XInv, Alive, NpDistinct
<1>7. NpParent'
  BY <1>b, <1>c DEF FreeProc6, XInv, Alive, NpParent
<1>8. NoKids'
  BY <1>b DEF FreeProc6, XInv, Alive, NoKids
<1>9. ParentAwake'
  BY <1>b DEF FreeProc6, XInv, Alive, ParentAwake
<1>10. ScanTested'
  BY <1>b DEF FreeProc6, XInv, Alive, ScanTested, Zombies
<1>11. ParentCanWait'
  BY <1>b, <1>c DEF FreeProc6, XInv, ParentCanWait
<1>12. NoLostExit6'
  BY <1>b DEF FreeProc6, XInv, NoLostExit6, Zombies
<1> QED BY <1>1, <1>2, <1>3, <1>4, <1>5, <1>6, <1>7, <1>8, <1>9, <1>10, <1>11, <1>12 DEF XInv

\* ForkParent6 keeps XInv.
LEMMA ForkParent6Inv ==
    ASSUME XInv, NEW p \in PSlot, ForkParent6(p)
    PROVE  XInv'
<1> USE Xv6ProcAssumption DEF ForkParent6, Running, GoTo, PSlot, NoProc, DevChan, init6
<1>0. /\ child[p] \in PSlot /\ pstate[child[p]] = "USED" /\ ppc[child[p]] = "user" /\ child[p] # p
      /\ pparent[child[p]] = IF ppc[p] = "forkrun" THEN p ELSE NoProc
  BY DEF XInv, Place, NpUsed, Alive, ForkPpc
<1>1. Xv6TypeOK'
  BY <1>0 DEF XInv, Xv6TypeOK, PPC, NpUsed
<1>2. WaitLockOwner'
  BY DEF XInv, Alive, WaitLockOwner, WaitLockPpc
<1>3. Place'
  BY <1>0 DEF XInv, Place, Alive
<1>4. Init6Lives'
  BY DEF XInv, Alive, Init6Lives
<1>5. NpUsed'
  <2> SUFFICES ASSUME NEW r \in PSlot, Alive(r)', ppc'[r] \in ForkPpc
               PROVE  /\ child'[r] \in PSlot /\ pstate'[child'[r]] = "USED"
                      /\ pparent'[child'[r]] = IF ppc'[r] = "forkrun" THEN r ELSE NoProc
    BY DEF NpUsed
  <2>1. CASE r = p BY <1>0, <2>1 DEF XInv, Xv6TypeOK
  <2>2. CASE r # p
    <3>1. ppc'[r] = ppc[r] /\ Alive(r) BY <2>2 DEF Alive
    <3>2. child[r] \in PSlot /\ child[r] # child[p]
      BY <2>2 DEF XInv, NpUsed, NpDistinct, ForkPpc, Alive
    <3> QED BY <3>1, <3>2 DEF XInv, NpUsed
  <2> QED BY <2>1, <2>2
<1>6. NpDistinct'
  BY DEF XInv, Alive, NpDistinct, ForkPpc
<1>7. NpParent'
  BY DEF XInv, Xv6TypeOK, Alive, NpParent
<1>8. NoKids'
  BY DEF XInv, Alive, NoKids
<1>9. ParentAwake'
  BY DEF XInv, Alive, ParentAwake
<1>10. ScanTested'
  BY DEF XInv, Alive, ScanTested, WaitLockOwner, WaitLockPpc
<1>11. ParentCanWait'
  BY DEF XInv, ParentCanWait
<1>12. NoLostExit6'
  BY DEF XInv, NoLostExit6, Zombies
<1> QED BY <1>1, <1>2, <1>3, <1>4, <1>5, <1>6, <1>7, <1>8, <1>9, <1>10, <1>11, <1>12 DEF XInv

\* ForkRun6 keeps XInv.
LEMMA ForkRun6Inv ==
    ASSUME XInv, NEW p \in PSlot, ForkRun6(p)
    PROVE  XInv'
<1> USE Xv6ProcAssumption DEF ForkRun6, Running, GoTo, PSlot, NoProc, DevChan, init6
<1>0. /\ child[p] \in PSlot /\ pstate[child[p]] = "USED" /\ ppc[child[p]] = "user" /\ child[p] # p
      /\ pparent[child[p]] = IF ppc[p] = "forkrun" THEN p ELSE NoProc
  BY DEF XInv, Place, NpUsed, Alive, ForkPpc
<1>1. Xv6TypeOK'
  BY <1>0 DEF XInv, Xv6TypeOK, WaitLockOwner, Place, ForkPpc
<1>2. WaitLockOwner'
  BY <1>0 DEF XInv, Xv6TypeOK, PPC, Alive, WaitLockOwner, WaitLockPpc
<1>3. Place'
  BY <1>0 DEF XInv, Alive, WaitLockPpc, Place
<1>4. Init6Lives'
  BY DEF XInv, Alive, Init6Lives
<1>5. NpUsed'
  <2> SUFFICES ASSUME NEW r \in PSlot, Alive(r)', ppc'[r] \in ForkPpc
               PROVE  /\ child'[r] \in PSlot /\ pstate'[child'[r]] = "USED"
                      /\ pparent'[child'[r]] = IF ppc'[r] = "forkrun" THEN r ELSE NoProc
    BY DEF NpUsed
  <2>1. r # p /\ ppc'[r] = ppc[r] /\ child'[r] = child[r] /\ Alive(r)
    BY <1>0 DEF XInv, Xv6TypeOK, Alive, ForkPpc
  <2>2. child[r] \in PSlot /\ child[r] # child[p]
    BY <2>1, <1>0 DEF XInv, NpUsed
  <2> QED BY <2>1, <2>2 DEF XInv, NpUsed
<1>6. NpDistinct'
  <2>1. \A r \in PSlot : Alive(r)' /\ ppc'[r] \in ForkPpc =>
           r # p /\ ppc'[r] = ppc[r] /\ child'[r] = child[r] /\ Alive(r)
    BY <1>0 DEF XInv, Xv6TypeOK, Alive, ForkPpc
  <2> QED BY <2>1, Zenon DEF XInv, NpDistinct
<1>7. NpParent'
  BY DEF XInv, Xv6TypeOK, Alive, NpParent
<1>8. NoKids'
  BY <1>0 DEF XInv, Alive, NoKids
<1>9. ParentAwake'
  BY <1>0 DEF XInv, Alive, ParentAwake
<1>10. ScanTested'
  BY <1>0 DEF XInv, Alive, ScanTested, Zombies
<1>11. ParentCanWait'
  BY <1>0 DEF XInv, ParentCanWait
<1>12. NoLostExit6'
  BY DEF XInv, NoLostExit6, Zombies
<1> QED BY <1>1, <1>2, <1>3, <1>4, <1>5, <1>6, <1>7, <1>8, <1>9, <1>10, <1>11, <1>12 DEF XInv

\* ExitCall6 keeps XInv.
LEMMA ExitCall6Inv ==
    ASSUME XInv, NEW p \in PSlot, ExitCall6(p)
    PROVE  XInv'
<1> USE Xv6ProcAssumption DEF ExitCall6, Running, GoTo, PSlot, NoProc, DevChan, init6
<1>1. Xv6TypeOK'
  BY DEF XInv, Xv6TypeOK, PPC
<1>2. WaitLockOwner'
  BY DEF XInv, Xv6TypeOK, PPC, Alive, WaitLockOwner, WaitLockPpc, Place
<1>3. Place'
  BY DEF XInv, Alive, Place
<1>4. Init6Lives'
  BY DEF XInv, Alive, Init6Lives
<1>5. NpUsed'
  BY DEF XInv, Alive, NpUsed, ForkPpc
<1>6. NpDistinct'
  BY DEF XInv, Alive, NpDistinct, ForkPpc
<1>7. NpParent'
  BY DEF XInv, Alive, NpParent
<1>8. NoKids'
  BY DEF XInv, Alive, NoKids
<1>9. ParentAwake'
  BY DEF XInv, Alive, ParentAwake
<1>10. ScanTested'
  BY DEF XInv, Alive, ScanTested, Zombies
<1>11. ParentCanWait'
  BY DEF XInv, ParentCanWait
<1>12. NoLostExit6'
  BY DEF XInv, NoLostExit6, Zombies
<1> QED BY <1>1, <1>2, <1>3, <1>4, <1>5, <1>6, <1>7, <1>8, <1>9, <1>10, <1>11, <1>12 DEF XInv

\* ExitReparent6 keeps XInv.
LEMMA ExitReparent6Inv ==
    ASSUME XInv, NEW p \in PSlot, ExitReparent6(p)
    PROVE  XInv'
<1> USE Xv6ProcAssumption DEF ExitReparent6, Running, GoTo, Awake6, PSlot, NoProc, DevChan, init6
<1>0. \A r \in PSlot : ~ (Alive(r) /\ ppc[r] \in WaitLockPpc)
  BY DEF XInv, WaitLockOwner
<1>1. Xv6TypeOK'
  BY SMTT(30) DEF XInv, Xv6TypeOK, PPC
<1>2. WaitLockOwner'
  BY SMTT(30) DEF XInv, Xv6TypeOK, Alive, WaitLockOwner, WaitLockPpc
<1>3. Place'
  BY DEF XInv, Alive, Place
<1>4. Init6Lives'
  BY DEF XInv, Alive, Init6Lives
<1>5. NpUsed'
  <2> SUFFICES ASSUME NEW r \in PSlot, Alive(r)', ppc'[r] \in ForkPpc
               PROVE  /\ child'[r] \in PSlot /\ pstate'[child'[r]] = "USED"
                      /\ pparent'[child'[r]] = IF ppc'[r] = "forkrun" THEN r ELSE NoProc
    BY DEF NpUsed
  <2>1. r # p /\ ppc'[r] = ppc[r] /\ child'[r] = child[r] /\ Alive(r)
    BY DEF Alive, ForkPpc
  <2>2. /\ child[r] \in PSlot /\ pstate[child[r]] = "USED"
        /\ pparent[child[r]] = IF ppc[r] = "forkrun" THEN r ELSE NoProc
    BY <2>1 DEF XInv, NpUsed
  <2>3. pparent[child[r]] # p BY <2>2
  <2> QED BY <2>2
<1>6. NpDistinct'
  BY DEF XInv, Alive, NpDistinct, ForkPpc
<1>7. NpParent'
  BY DEF XInv, Xv6TypeOK, Alive, NpParent
<1>8. NoKids'
  BY DEF XInv, Alive, NoKids, Init6Lives
<1>9. ParentAwake'
  BY DEF XInv, Alive, ParentAwake, WaitLockOwner, Init6Lives
<1>10. ScanTested'
  BY <1>0 DEF ScanTested, WaitLockPpc, Alive
<1>11. ParentCanWait'
  BY DEF XInv, Alive, ParentCanWait, Init6Lives
<1>12. NoLostExit6'
  BY SMTT(30) DEF XInv, Xv6TypeOK, PPC, Alive, NoLostExit6, Zombies, ParentAwake, ScanTested, Place, WaitLockOwner, WaitLockPpc, NpUsed, ForkPpc, NpParent, Init6Lives
<1> QED BY <1>1, <1>2, <1>3, <1>4, <1>5, <1>6, <1>7, <1>8, <1>9, <1>10, <1>11, <1>12 DEF XInv

\* ExitWake6 keeps XInv.
LEMMA ExitWake6Inv ==
    ASSUME XInv, NEW p \in PSlot, ExitWake6(p)
    PROVE  XInv'
<1> USE Xv6ProcAssumption DEF ExitWake6, Running, GoTo, Awake6, PSlot, NoProc, DevChan, init6
<1>1. Xv6TypeOK'
  BY DEF XInv, Xv6TypeOK, PPC, Alive, WaitLockOwner, WaitLockPpc, Place
<1>2. WaitLockOwner'
  BY DEF XInv, Alive, WaitLockOwner, WaitLockPpc
<1>3. Place'
  BY DEF XInv, Alive, Place
<1>4. Init6Lives'
  BY DEF XInv, Alive, Init6Lives
<1>5. NpUsed'
  BY DEF XInv, Alive, NpUsed, ForkPpc
<1>6. NpDistinct'
  BY DEF XInv, Alive, NpDistinct, ForkPpc
<1>7. NpParent'
  BY DEF XInv, Xv6TypeOK, Alive, NpParent
<1>8. NoKids'
  BY DEF XInv, Alive, NoKids
<1>9. ParentAwake'
  BY DEF XInv, Alive, ParentAwake
<1>10. ScanTested'
  BY DEF XInv, Alive, ScanTested, WaitLockOwner, WaitLockPpc
<1>11. ParentCanWait'
  BY DEF XInv, ParentCanWait
<1>12. NoLostExit6'
  BY DEF XInv, NoLostExit6, Zombies
<1> QED BY <1>1, <1>2, <1>3, <1>4, <1>5, <1>6, <1>7, <1>8, <1>9, <1>10, <1>11, <1>12 DEF XInv

\* ExitZombie6 keeps XInv.
LEMMA ExitZombie6Inv ==
    ASSUME XInv, NEW p \in PSlot, ExitZombie6(p)
    PROVE  XInv'
<1> USE Xv6ProcAssumption DEF ExitZombie6, Running, GoTo, PSlot, NoProc, DevChan, init6
<1>1. Xv6TypeOK'
  BY DEF XInv, Xv6TypeOK
<1>2. WaitLockOwner'
  BY DEF XInv, Xv6TypeOK, Alive, WaitLockOwner, WaitLockPpc
<1>3. Place'
  BY DEF XInv, Alive, Place
<1>4. Init6Lives'
  BY DEF XInv, Alive, Init6Lives
<1>5. NpUsed'
  BY DEF XInv, Alive, NpUsed
<1>6. NpDistinct'
  BY DEF XInv, Alive, NpDistinct
<1>7. NpParent'
  BY DEF XInv, Alive, NpParent
<1>8. NoKids'
  BY DEF XInv, Alive, NoKids
<1>9. ParentAwake'
  BY DEF XInv, Alive, ParentAwake
<1>10. ScanTested'
  BY DEF XInv, Alive, ScanTested, WaitLockOwner, WaitLockPpc
<1>11. ParentCanWait'
  BY DEF XInv, Alive, ParentCanWait, NoKids
<1>12. NoLostExit6'
  <2> SUFFICES ASSUME NEW r \in PSlot, pstate'[r] = "SLEEPING", pchan[r] = r
               PROVE  Zombies(r)' = {}
    BY DEF NoLostExit6
  <2>1. r # p /\ pstate[r] = "SLEEPING" OBVIOUS
  <2>2. Zombies(r) = {} BY DEF XInv, NoLostExit6
  <2>3. pparent[p] # r BY DEF XInv, ParentAwake, Alive
  <2> QED BY <2>2, <2>3 DEF Zombies
<1> QED BY <1>1, <1>2, <1>3, <1>4, <1>5, <1>6, <1>7, <1>8, <1>9, <1>10, <1>11, <1>12 DEF XInv

\* WaitCall6 keeps XInv.
LEMMA WaitCall6Inv ==
    ASSUME XInv, NEW p \in PSlot, WaitCall6(p)
    PROVE  XInv'
<1> USE Xv6ProcAssumption DEF WaitCall6, Running, GoTo, PSlot, NoProc, DevChan, init6
<1>1. Xv6TypeOK'
  BY DEF XInv, Xv6TypeOK, PPC
<1>2. WaitLockOwner'
  BY DEF XInv, Xv6TypeOK, PPC, Alive, WaitLockOwner, WaitLockPpc, Place
<1>3. Place'
  BY DEF XInv, Alive, Place
<1>4. Init6Lives'
  BY DEF XInv, Alive, Init6Lives
<1>5. NpUsed'
  BY DEF XInv, Alive, NpUsed, ForkPpc
<1>6. NpDistinct'
  BY DEF XInv, Alive, NpDistinct, ForkPpc
<1>7. NpParent'
  BY DEF XInv, Alive, NpParent
<1>8. NoKids'
  BY DEF XInv, Alive, NoKids
<1>9. ParentAwake'
  BY DEF XInv, Alive, ParentAwake
<1>10. ScanTested'
  BY DEF XInv, Alive, ScanTested, Zombies
<1>11. ParentCanWait'
  BY DEF XInv, ParentCanWait
<1>12. NoLostExit6'
  BY DEF XInv, NoLostExit6, Zombies
<1> QED BY <1>1, <1>2, <1>3, <1>4, <1>5, <1>6, <1>7, <1>8, <1>9, <1>10, <1>11, <1>12 DEF XInv

\* WaitLock6 keeps XInv.
LEMMA WaitLock6Inv ==
    ASSUME XInv, NEW p \in PSlot, WaitLock6(p)
    PROVE  XInv'
<1> USE Xv6ProcAssumption DEF WaitLock6, Running, GoTo, PSlot, NoProc, DevChan, init6
<1>1. Xv6TypeOK'
  BY DEF XInv, Xv6TypeOK, PPC
<1>2. WaitLockOwner'
  BY DEF XInv, Xv6TypeOK, Alive, WaitLockOwner, WaitLockPpc
<1>3. Place'
  BY DEF XInv, Alive, Place
<1>4. Init6Lives'
  BY DEF XInv, Alive, Init6Lives
<1>5. NpUsed'
  BY DEF XInv, Alive, NpUsed, ForkPpc
<1>6. NpDistinct'
  BY DEF XInv, Alive, NpDistinct, ForkPpc
<1>7. NpParent'
  BY DEF XInv, Alive, NpParent
<1>8. NoKids'
  BY DEF XInv, Alive, NoKids
<1>9. ParentAwake'
  BY DEF XInv, Alive, ParentAwake
<1>10. ScanTested'
  BY DEF XInv, Alive, ScanTested, WaitLockOwner, WaitLockPpc
<1>11. ParentCanWait'
  BY DEF XInv, ParentCanWait
<1>12. NoLostExit6'
  BY DEF XInv, NoLostExit6, Zombies
<1> QED BY <1>1, <1>2, <1>3, <1>4, <1>5, <1>6, <1>7, <1>8, <1>9, <1>10, <1>11, <1>12 DEF XInv

\* WaitReap6 keeps XInv.
LEMMA WaitReap6Inv ==
    ASSUME XInv, NEW p \in PSlot, WaitReap6(p)
    PROVE  XInv'
<1> USE Xv6ProcAssumption DEF PSlot, PSlot, NoProc, DevChan, init6
<1> DEFINE S == Zombies(p)
           n == CHOOSE q \in S : \A r \in S : q <= r
<1>a. n \in S
  <2>1. S \in SUBSET Nat /\ S # {} BY DEF WaitReap6, Zombies
  <2> HIDE DEF S
  <2> QED BY <2>1, Least
<1>b. /\ FreeProc6(n) /\ Running(p, "waitscan") /\ wait_lock' = NoProc /\ GoTo(p, "user")
      /\ UNCHANGED <<child, next_pid>>
  BY DEF WaitReap6
<1>c. n \in PSlot /\ pparent[n] = p /\ pstate[n] = "ZOMBIE" BY <1>a DEF Zombies
<1> HIDE DEF n, S
<1>1. Xv6TypeOK'
  BY <1>b, <1>c DEF GoTo, FreeProc6, XInv, Xv6TypeOK, PPC, NoKids
<1>2. WaitLockOwner'
  BY <1>b DEF Running, GoTo, FreeProc6, XInv, Xv6TypeOK, Alive, WaitLockOwner, WaitLockPpc
<1>3. Place'
  BY <1>b DEF Running, GoTo, FreeProc6, XInv, Xv6TypeOK, Alive, Place
<1>4. Init6Lives'
  BY <1>b, <1>c DEF GoTo, FreeProc6, XInv, Alive, Init6Lives
<1>5. NpUsed'
  BY <1>b, <1>c DEF GoTo, FreeProc6, XInv, Alive, NpUsed, ForkPpc
<1>6. NpDistinct'
  BY <1>b DEF GoTo, FreeProc6, XInv, Alive, NpDistinct, ForkPpc
<1>7. NpParent'
  BY <1>b, <1>c DEF Running, GoTo, FreeProc6, XInv, Alive, NpParent
<1>8. NoKids'
  BY <1>b DEF GoTo, FreeProc6, XInv, Alive, NoKids
<1>9. ParentAwake'
  BY <1>b DEF GoTo, FreeProc6, XInv, Alive, ParentAwake
<1>10. ScanTested'
  BY <1>b DEF GoTo, FreeProc6, XInv, Alive, ScanTested, Zombies
<1>11. ParentCanWait'
  BY <1>b, <1>c DEF FreeProc6, XInv, Xv6TypeOK, ParentCanWait
<1>12. NoLostExit6'
  BY <1>b DEF FreeProc6, XInv, NoLostExit6, Zombies
<1> QED BY <1>1, <1>2, <1>3, <1>4, <1>5, <1>6, <1>7, <1>8, <1>9, <1>10, <1>11, <1>12 DEF XInv

\* WaitCopyoutFails6 keeps XInv.
LEMMA WaitCopyoutFails6Inv ==
    ASSUME XInv, NEW p \in PSlot, WaitCopyoutFails6(p)
    PROVE  XInv'
<1> USE Xv6ProcAssumption DEF WaitCopyoutFails6, Running, GoTo, PSlot, NoProc, DevChan, init6
<1>1. Xv6TypeOK'
  BY DEF XInv, Xv6TypeOK, PPC
<1>2. WaitLockOwner'
  BY DEF XInv, Xv6TypeOK, Alive, WaitLockOwner, WaitLockPpc
<1>3. Place'
  BY DEF XInv, Alive, Place
<1>4. Init6Lives'
  BY DEF XInv, Alive, Init6Lives
<1>5. NpUsed'
  BY DEF XInv, Alive, NpUsed, ForkPpc
<1>6. NpDistinct'
  BY DEF XInv, Alive, NpDistinct, ForkPpc
<1>7. NpParent'
  BY DEF XInv, Alive, NpParent
<1>8. NoKids'
  BY DEF XInv, Alive, NoKids
<1>9. ParentAwake'
  BY DEF XInv, Alive, ParentAwake
<1>10. ScanTested'
  BY DEF XInv, Alive, ScanTested, WaitLockOwner, WaitLockPpc
<1>11. ParentCanWait'
  BY DEF XInv, ParentCanWait
<1>12. NoLostExit6'
  BY DEF XInv, NoLostExit6, Zombies
<1> QED BY <1>1, <1>2, <1>3, <1>4, <1>5, <1>6, <1>7, <1>8, <1>9, <1>10, <1>11, <1>12 DEF XInv

\* WaitNone6 keeps XInv.
LEMMA WaitNone6Inv ==
    ASSUME XInv, NEW p \in PSlot, WaitNone6(p)
    PROVE  XInv'
<1> USE Xv6ProcAssumption DEF WaitNone6, Running, GoTo, PSlot, NoProc, DevChan, init6
<1>1. Xv6TypeOK'
  BY DEF XInv, Xv6TypeOK, PPC
<1>2. WaitLockOwner'
  BY DEF XInv, Xv6TypeOK, Alive, WaitLockOwner, WaitLockPpc
<1>3. Place'
  BY DEF XInv, Alive, Place
<1>4. Init6Lives'
  BY DEF XInv, Alive, Init6Lives
<1>5. NpUsed'
  BY DEF XInv, Alive, NpUsed, ForkPpc
<1>6. NpDistinct'
  BY DEF XInv, Alive, NpDistinct, ForkPpc
<1>7. NpParent'
  BY DEF XInv, Alive, NpParent
<1>8. NoKids'
  BY DEF XInv, Alive, NoKids
<1>9. ParentAwake'
  BY DEF XInv, Alive, ParentAwake
<1>10. ScanTested'
  BY DEF XInv, Alive, ScanTested, WaitLockOwner, WaitLockPpc
<1>11. ParentCanWait'
  BY DEF XInv, ParentCanWait
<1>12. NoLostExit6'
  BY DEF XInv, NoLostExit6, Zombies
<1> QED BY <1>1, <1>2, <1>3, <1>4, <1>5, <1>6, <1>7, <1>8, <1>9, <1>10, <1>11, <1>12 DEF XInv

\* WaitNothingYet6 keeps XInv.
LEMMA WaitNothingYet6Inv ==
    ASSUME XInv, NEW p \in PSlot, WaitNothingYet6(p)
    PROVE  XInv'
<1> USE Xv6ProcAssumption DEF WaitNothingYet6, Running, GoTo, PSlot, NoProc, DevChan, init6
<1>1. Xv6TypeOK'
  BY DEF XInv, Xv6TypeOK, PPC
<1>2. WaitLockOwner'
  BY DEF XInv, Alive, WaitLockOwner, WaitLockPpc
<1>3. Place'
  BY DEF XInv, Alive, Place
<1>4. Init6Lives'
  BY DEF XInv, Alive, Init6Lives
<1>5. NpUsed'
  BY DEF XInv, Alive, NpUsed, ForkPpc
<1>6. NpDistinct'
  BY DEF XInv, Alive, NpDistinct, ForkPpc
<1>7. NpParent'
  BY DEF XInv, Alive, NpParent
<1>8. NoKids'
  BY DEF XInv, Alive, NoKids
<1>9. ParentAwake'
  BY DEF XInv, Alive, ParentAwake
<1>10. ScanTested'
  BY DEF XInv, Alive, ScanTested, Zombies
<1>11. ParentCanWait'
  BY DEF XInv, ParentCanWait
<1>12. NoLostExit6'
  BY DEF XInv, NoLostExit6, Zombies
<1> QED BY <1>1, <1>2, <1>3, <1>4, <1>5, <1>6, <1>7, <1>8, <1>9, <1>10, <1>11, <1>12 DEF XInv

\* WaitSleep6 keeps XInv.
LEMMA WaitSleep6Inv ==
    ASSUME XInv, NEW p \in PSlot, WaitSleep6(p)
    PROVE  XInv'
<1> USE Xv6ProcAssumption DEF WaitSleep6, Running, GoTo, PSlot, NoProc, DevChan, init6
<1>1. Xv6TypeOK'
  BY DEF XInv, Xv6TypeOK, PPC
<1>2. WaitLockOwner'
  BY DEF XInv, Xv6TypeOK, Alive, WaitLockOwner, WaitLockPpc
<1>3. Place'
  BY DEF XInv, Xv6TypeOK, Alive, WaitLockPpc, Place
<1>4. Init6Lives'
  BY DEF XInv, Alive, Init6Lives
<1>5. NpUsed'
  BY DEF XInv, Alive, NpUsed, ForkPpc
<1>6. NpDistinct'
  BY DEF XInv, Alive, NpDistinct, ForkPpc
<1>7. NpParent'
  BY DEF XInv, Alive, NpParent
<1>8. NoKids'
  BY DEF XInv, Alive, NoKids
<1>9. ParentAwake'
  BY DEF XInv, Alive, ParentAwake, WaitLockOwner, WaitLockPpc
<1>10. ScanTested'
  BY DEF XInv, Alive, ScanTested, Zombies
<1>11. ParentCanWait'
  BY DEF XInv, Xv6TypeOK, PPC, Alive, ParentCanWait, NoKids, Init6Lives
<1>12. NoLostExit6'
  BY DEF XInv, Alive, NoLostExit6, Zombies, ScanTested
<1> QED BY <1>1, <1>2, <1>3, <1>4, <1>5, <1>6, <1>7, <1>8, <1>9, <1>10, <1>11, <1>12 DEF XInv

\* IoSleep6 keeps XInv.
LEMMA IoSleep6Inv ==
    ASSUME XInv, NEW p \in PSlot, IoSleep6(p)
    PROVE  XInv'
<1> USE Xv6ProcAssumption DEF IoSleep6, Running, GoTo, PSlot, NoProc, DevChan, init6
<1>1. Xv6TypeOK'
  BY DEF XInv, Xv6TypeOK, PPC, Alive, WaitLockOwner, WaitLockPpc, Place
<1>2. WaitLockOwner'
  BY DEF XInv, Alive, WaitLockOwner, WaitLockPpc
<1>3. Place'
  BY DEF XInv, Xv6TypeOK, Alive, WaitLockPpc, Place
<1>4. Init6Lives'
  BY DEF XInv, Alive, Init6Lives
<1>5. NpUsed'
  BY DEF XInv, Alive, NpUsed, ForkPpc
<1>6. NpDistinct'
  BY DEF XInv, Alive, NpDistinct, ForkPpc
<1>7. NpParent'
  BY DEF XInv, Alive, NpParent
<1>8. NoKids'
  BY DEF XInv, Alive, NoKids
<1>9. ParentAwake'
  BY DEF XInv, Xv6TypeOK, Alive, ParentAwake
<1>10. ScanTested'
  BY DEF XInv, Alive, ScanTested, Zombies
<1>11. ParentCanWait'
  BY DEF XInv, Xv6TypeOK, PPC, Alive, ParentCanWait, NoKids, Init6Lives
<1>12. NoLostExit6'
  BY DEF XInv, Xv6TypeOK, NoLostExit6, Zombies
<1> QED BY <1>1, <1>2, <1>3, <1>4, <1>5, <1>6, <1>7, <1>8, <1>9, <1>10, <1>11, <1>12 DEF XInv

\* Wakeup6 keeps XInv.
LEMMA Wakeup6Inv ==
    ASSUME XInv, Wakeup6
    PROVE  XInv'
<1> USE Xv6ProcAssumption DEF Wakeup6, Awake6, PSlot, NoProc, DevChan, init6
<1>1. Xv6TypeOK'
  BY DEF XInv, Xv6TypeOK
<1>2. WaitLockOwner'
  BY DEF XInv, Alive, WaitLockOwner
<1>3. Place'
  BY DEF XInv, Alive, Place
<1>4. Init6Lives'
  BY DEF XInv, Alive, Init6Lives
<1>5. NpUsed'
  BY DEF XInv, Alive, NpUsed
<1>6. NpDistinct'
  BY SMTT(30) DEF XInv, Xv6TypeOK, PPC, Alive, NpDistinct, NpUsed, ForkPpc
<1>7. NpParent'
  BY DEF XInv, Xv6TypeOK, Alive, NpParent
<1>8. NoKids'
  BY DEF XInv, Alive, NoKids
<1>9. ParentAwake'
  BY DEF XInv, Alive, ParentAwake
<1>10. ScanTested'
  BY DEF XInv, Alive, ScanTested, Zombies
<1>11. ParentCanWait'
  BY DEF XInv, ParentCanWait
<1>12. NoLostExit6'
  BY DEF XInv, NoLostExit6, Zombies
<1> QED BY <1>1, <1>2, <1>3, <1>4, <1>5, <1>6, <1>7, <1>8, <1>9, <1>10, <1>11, <1>12 DEF XInv

\* Kill6 keeps XInv.
LEMMA Kill6Inv ==
    ASSUME XInv, NEW p \in PSlot, NEW q \in PSlot, Kill6(p, q)
    PROVE  XInv'
<1> USE Xv6ProcAssumption DEF Kill6, Running, GoTo, PSlot, NoProc, DevChan, init6
<1>1. Xv6TypeOK'
  BY DEF XInv, Xv6TypeOK, PPC, Alive, WaitLockOwner, WaitLockPpc, Place
<1>2. WaitLockOwner'
  BY DEF XInv, Alive, WaitLockOwner
<1>3. Place'
  BY DEF XInv, Alive, Place
<1>4. Init6Lives'
  BY DEF XInv, Alive, Init6Lives
<1>5. NpUsed'
  BY DEF XInv, Alive, NpUsed
<1>6. NpDistinct'
  BY DEF XInv, Alive, NpDistinct
<1>7. NpParent'
  BY DEF XInv, Alive, NpParent
<1>8. NoKids'
  BY DEF XInv, Alive, NoKids
<1>9. ParentAwake'
  BY DEF XInv, Alive, ParentAwake
<1>10. ScanTested'
  BY DEF XInv, Alive, ScanTested, Zombies
<1>11. ParentCanWait'
  BY DEF XInv, ParentCanWait
<1>12. NoLostExit6'
  BY DEF XInv, NoLostExit6, Zombies
<1> QED BY <1>1, <1>2, <1>3, <1>4, <1>5, <1>6, <1>7, <1>8, <1>9, <1>10, <1>11, <1>12 DEF XInv

-----------------------------------------------------------------------------
\* procinit() and userinit() establish the invariant ...
LEMMA InitXInv == Xv6Init => XInv
<1> SUFFICES ASSUME Xv6Init PROVE XInv OBVIOUS
<1> USE Xv6ProcAssumption DEF Xv6Init, PSlot, NoProc, DevChan, init6
<1>1. Xv6TypeOK
  <2>1. pkilled \in [PSlot -> BOOLEAN] BY Zenon
  <2> QED BY DEF Xv6TypeOK, PPC
<1>2. WaitLockOwner /\ Place /\ Init6Lives /\ NpUsed /\ NpDistinct /\ NpParent
  BY DEF WaitLockOwner, WaitLockPpc, Place, Init6Lives, NpUsed, NpDistinct, NpParent, ForkPpc, Alive
<1>3. NoKids /\ ParentAwake /\ ScanTested /\ ParentCanWait /\ NoLostExit6
  BY DEF NoKids, ParentAwake, ScanTested, ParentCanWait, NoLostExit6
<1> QED BY <1>1, <1>2, <1>3 DEF XInv

\* ... and every step keeps it.
LEMMA StepXInv == XInv /\ [Xv6Next]_xv6Vars => XInv'
<1> SUFFICES ASSUME XInv, [Xv6Next]_xv6Vars PROVE XInv' OBVIOUS
<1>1. ASSUME NEW p \in PSlot, Kernel6(p) PROVE XInv'
  BY <1>1, ForkParent6Inv, ForkRun6Inv, ExitReparent6Inv, ExitWake6Inv, ExitZombie6Inv, WaitLock6Inv,
     WaitReap6Inv, WaitCopyoutFails6Inv, WaitNone6Inv, WaitNothingYet6Inv, WaitSleep6Inv DEF Kernel6
<1>2. ASSUME NEW p \in PSlot, \/ Scheduler6(p) \/ Yield6(p) \/ Fork6(p) \/ ForkFails6(p)
                              \/ ExitCall6(p) \/ WaitCall6(p) \/ IoSleep6(p)
                              \/ \E q \in PSlot : Kill6(p, q)
      PROVE  XInv'
  BY <1>2, Scheduler6Inv, Yield6Inv, Fork6Inv, ForkFails6Inv, ExitCall6Inv, WaitCall6Inv, IoSleep6Inv,
     Kill6Inv
<1>3. CASE Wakeup6 BY <1>3, Wakeup6Inv
<1>4. CASE UNCHANGED xv6Vars
  <2> USE <1>4 DEF xv6Vars, XInv
  <2>1. Xv6TypeOK' /\ WaitLockOwner' /\ Place' /\ Init6Lives'
    BY DEF Xv6TypeOK, WaitLockOwner, Place, Init6Lives, Alive
  <2>2. NpUsed' /\ NpDistinct' /\ NpParent' /\ NoKids' /\ ParentAwake'
    BY DEF NpUsed, NpDistinct, NpParent, NoKids, ParentAwake, Alive
  <2>3. ScanTested' /\ ParentCanWait' /\ NoLostExit6'
    BY DEF ScanTested, ParentCanWait, NoLostExit6, Zombies, Alive
  <2> QED BY <2>1, <2>2, <2>3
<1> QED BY <1>1, <1>2, <1>3, <1>4 DEF Xv6Next

\* XInv holds in every reachable state of the process table (proc.c as a whole).
THEOREM Xv6Invariant == Xv6Spec => []XInv
BY InitXInv, StepXInv, PTL DEF Xv6Spec

\* The fields of struct proc keep their types, and the process that holds wait_lock
\* is RUNNING: none gives up its CPU in sched() with that lock.
THEOREM Xv6TypeCorrect == Xv6Spec => []Xv6TypeOK
BY Xv6Invariant, PTL DEF XInv

\* fork(), exit() and wait() of xv6: every process that has run has a parent that can
\* still wait for it, and no parent sleeps in wait() while a child of it is a ZOMBIE.
THEOREM Xv6WaitLockSound == Xv6Spec => []WaitLockSound
BY Xv6Invariant, PTL DEF XInv, WaitLockSound
=============================================================================
