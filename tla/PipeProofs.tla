----------------------------- MODULE PipeProofs -----------------------------
(***************************************************************************)
(* Proofs about Pipe, for every ring size, counter width and set of        *)
(* processes.                                                              *)
(***************************************************************************)
EXTENDS Pipe, ModArith

WriteCode == {"wlock", "wloop", "wsleep"}
ReadCode  == {"rlock", "rwait", "rsleep", "rloop"}

\* pi->lock is held by the process that is inside a call, and by no other.
LockOwner ==
    \A p \in Process :
        pc[p] \in {"wloop", "wsleep", "rwait", "rsleep", "rloop"} <=> lock = p

\* A process that sleeps is in the sleep() of the channel it sleeps on.
SleepPlace ==
    \A p \in Process :
        /\ chan[p] = "nwrite" => pc[p] = "wlock"
        /\ chan[p] = "nread" => pc[p] = "rlock"

\* A call keeps its file open; the last fileclose() of an end is in pipeclose(),
\* alone, until the end is closed; the page goes with the second end.
Ends ==
    /\ \A p \in Process : pc[p] \in WriteCode => p \in wfd
    /\ \A p \in Process : pc[p] \in ReadCode => p \in rfd
    /\ wfd # {} => writeopen
    /\ rfd # {} => readopen
    /\ \A p \in Process : pc[p] = "closeW" => writeopen /\ wfd = {}
    /\ \A p \in Process : pc[p] = "closeR" => readopen /\ rfd = {}
    /\ \A p, q \in Process : pc[p] = "closeW" /\ pc[q] = "closeW" => p = q
    /\ \A p, q \in Process : pc[p] = "closeR" /\ pc[q] = "closeR" => p = q
    /\ freed => ~readopen /\ ~writeopen

\* Whoever sleeps has a reason to, or a process inside the pipe that will wake it.
SleepReason ==
    \A p \in Process :
        /\ chan[p] = "nwrite" => (Full /\ readopen) \/ \E r \in Process : pc[r] = "rloop"
        /\ chan[p] = "nread" =>
              \/ Empty /\ writeopen
              \/ \E w \in Process : pc[w] = "wloop" \/ killed[w]

\* What was tested before sleep() still holds when it is called.
SleepTested ==
    \A p \in Process :
        /\ pc[p] = "wsleep" => Full /\ readopen
        /\ pc[p] = "rsleep" => Empty /\ writeopen

\* The counters never are further apart than the ring is long.
RingBound == Used <= PIPESIZE

PInv == /\ PipeTypeOK /\ LockOwner /\ SleepPlace /\ Ends /\ SleepReason /\ SleepTested
        /\ RingBound

-----------------------------------------------------------------------------
\* The counters: pipewrite() moves nwrite on when the pipe is not full ...
LEMMA WriteAdvances ==
    ASSUME PipeTypeOK, RingBound, ~Full
    PROVE  /\ Inc(nwrite) \in 0..UMax - 1
           /\ Used \in 0..PIPESIZE - 1
           /\ (Inc(nwrite) - nread) % UMax = Used + 1
<1>1. /\ nread \in 0..UMax - 1 /\ nwrite \in 0..UMax - 1
      /\ UMax \in Nat \ {0} /\ PIPESIZE \in 0..UMax - 1
  BY PipeAssumption DEF PipeTypeOK
<1>2. Used \in 0..UMax - 1 /\ Used # PIPESIZE
  <2>1. nwrite = (nread + PIPESIZE) % UMax <=> (nwrite - nread) % UMax = PIPESIZE
    BY <1>1, ModAhead
  <2>2. (nwrite - nread) % UMax \in 0..UMax - 1 BY <1>1, ModRange
  <2> QED BY <2>1, <2>2 DEF Full, Used
<1>3. Used \in 0..PIPESIZE - 1
  BY <1>1, <1>2 DEF RingBound
<1>4. (Inc(nwrite) - nread) % UMax = Used + 1
  <2>1. (nwrite - nread) % UMax < UMax - 1 BY <1>1, <1>3 DEF Used
  <2> QED BY <1>1, <2>1, ModIncAhead DEF Inc, Used
<1> QED BY <1>1, <1>3, <1>4, ModInc DEF Inc

\* ... and piperead() moves nread on when it is not empty.
LEMMA ReadAdvances ==
    ASSUME PipeTypeOK, ~Empty
    PROVE  /\ Inc(nread) \in 0..UMax - 1
           /\ Used \in Nat \ {0}
           /\ (nwrite - Inc(nread)) % UMax = Used - 1
<1>1. nread \in 0..UMax - 1 /\ nwrite \in 0..UMax - 1 /\ UMax \in Nat \ {0}
  BY PipeAssumption DEF PipeTypeOK
<1>2. (nwrite - Inc(nread)) % UMax = Used - 1
  <2>1. (nwrite - ((nread + 1) % UMax)) % UMax = ((nwrite - nread) % UMax) - 1
    BY <1>1, ModIncBehind, Zenon DEF Empty
  <2> QED BY <2>1, Zenon DEF Inc, Used
<1>3. Used \in Nat \ {0}
  BY <1>1, ModMinus DEF Used, Empty
<1> QED BY <1>1, <1>2, <1>3, ModInc DEF Inc

\* The initial states satisfy PInv.
LEMMA InitPInv == PipeInit => PInv
<1> SUFFICES ASSUME PipeInit PROVE PInv OBVIOUS
<1> USE PipeAssumption DEF PipeInit
<1>1. PipeTypeOK
  <2>1. (CHOOSE c \in Byte : TRUE) \in Byte BY Zenon
  <2>2. data \in [0..PIPESIZE - 1 -> Byte] OBVIOUS
  <2>3. 0 \in 0..UMax - 1 /\ 0 \in 0..MaxN OBVIOUS
  <2>4. killed \in [Process -> BOOLEAN] BY Zenon
  <2> QED BY <2>2, <2>3, <2>4 DEF PipeTypeOK, PCs, Channel
<1>2. LockOwner /\ SleepPlace /\ Ends /\ SleepReason /\ SleepTested
  BY DEF LockOwner, SleepPlace, Ends, WriteCode, ReadCode, SleepReason, SleepTested
<1>3. RingBound BY DEF RingBound, Used
<1> QED BY <1>1, <1>2, <1>3 DEF PInv

-----------------------------------------------------------------------------
\* Entering the pipe's code: fork(), and the calls that programs make.
LEMMA ForkInv ==
    ASSUME PInv, NEW p \in Process, NEW q \in Process, Fork(p, q)
    PROVE  PInv'
<1> USE PipeAssumption DEF Fork, pipeVars, fdVars, procVars
<1>1. PipeTypeOK'
  BY DEF PInv, PipeTypeOK
<1>2. LockOwner'
  BY DEF PInv, LockOwner
<1>3. SleepPlace'
  BY DEF PInv, SleepPlace
<1>4. Ends'
  BY DEF PInv, Ends
<1>5. SleepReason'
  BY DEF PInv, SleepReason, Full, Empty
<1>6. SleepTested'
  BY DEF PInv, SleepTested, Full, Empty
<1>7. RingBound'
  BY DEF PInv, RingBound, Used
<1> QED BY <1>1, <1>2, <1>3, <1>4, <1>5, <1>6, <1>7 DEF PInv

\* WriteCall keeps PInv.
LEMMA WriteCallInv ==
    ASSUME PInv, NEW p \in Process, NEW m \in 0..MaxN, WriteCall(p, m)
    PROVE  PInv'
<1> USE PipeAssumption DEF WriteCall, Goto, pipeVars, fdVars, procVars
<1>1. PipeTypeOK'
  BY DEF PInv, PipeTypeOK, PCs
<1>2. LockOwner'
  BY DEF PInv, LockOwner
<1>3. SleepPlace'
  BY DEF PInv, SleepPlace
<1>4. Ends'
  BY DEF PInv, Ends, ReadCode
<1>5. SleepReason'
  BY DEF PInv, SleepReason, Full, Empty
<1>6. SleepTested'
  BY DEF PInv, SleepTested, Full, Empty
<1>7. RingBound'
  BY DEF PInv, RingBound, Used
<1> QED BY <1>1, <1>2, <1>3, <1>4, <1>5, <1>6, <1>7 DEF PInv

\* ReadCall keeps PInv.
LEMMA ReadCallInv ==
    ASSUME PInv, NEW p \in Process, NEW m \in 0..MaxN, ReadCall(p, m)
    PROVE  PInv'
<1> USE PipeAssumption DEF ReadCall, Goto, pipeVars, fdVars, procVars
<1>1. PipeTypeOK'
  BY DEF PInv, PipeTypeOK, PCs
<1>2. LockOwner'
  BY DEF PInv, LockOwner
<1>3. SleepPlace'
  BY DEF PInv, SleepPlace
<1>4. Ends'
  BY DEF PInv, Ends, WriteCode
<1>5. SleepReason'
  BY DEF PInv, SleepReason, Full, Empty
<1>6. SleepTested'
  BY DEF PInv, SleepTested, Full, Empty
<1>7. RingBound'
  BY DEF PInv, RingBound, Used
<1> QED BY <1>1, <1>2, <1>3, <1>4, <1>5, <1>6, <1>7 DEF PInv

\* Acquire keeps PInv.
LEMMA AcquireInv ==
    ASSUME PInv, NEW p \in Process, Acquire(p)
    PROVE  PInv'
<1> USE PipeAssumption DEF Acquire, Awake, Goto, pipeVars, fdVars, procVars
<1>1. PipeTypeOK'
  BY DEF PInv, PipeTypeOK, PCs
<1>2. LockOwner'
  BY DEF PInv, PipeTypeOK, LockOwner
<1>3. SleepPlace'
  BY DEF PInv, SleepPlace
<1>4. Ends'
  BY DEF PInv, Ends, WriteCode, ReadCode
<1>5. SleepReason'
  BY DEF PInv, SleepReason, Full, Empty
<1>6. SleepTested'
  BY DEF PInv, SleepTested, Full, Empty
<1>7. RingBound'
  BY DEF PInv, RingBound, Used
<1> QED BY <1>1, <1>2, <1>3, <1>4, <1>5, <1>6, <1>7 DEF PInv

-----------------------------------------------------------------------------
\* pipewrite().
LEMMA WriteFailsInv ==
    ASSUME PInv, NEW p \in Process, WriteFails(p)
    PROVE  PInv'
<1> USE PipeAssumption DEF WriteFails, Leave, Unlock, Goto, pipeVars, fdVars, procVars
<1>1. PipeTypeOK'
  BY DEF PInv, PipeTypeOK, PCs
<1>2. LockOwner'
  BY DEF PInv, PipeTypeOK, LockOwner
<1>3. SleepPlace'
  BY DEF PInv, SleepPlace
<1>4. Ends'
  BY DEF PInv, Ends, WriteCode, ReadCode
<1>5. SleepReason'
  BY DEF PInv, SleepPlace, Ends, ReadCode, SleepReason, Full
<1>6. SleepTested'
  BY DEF PInv, SleepTested, Full, Empty
<1>7. RingBound'
  BY DEF PInv, RingBound, Used
<1> QED BY <1>1, <1>2, <1>3, <1>4, <1>5, <1>6, <1>7 DEF PInv

\* WriteBlocks keeps PInv.
LEMMA WriteBlocksInv ==
    ASSUME PInv, NEW p \in Process, WriteBlocks(p)
    PROVE  PInv'
<1> USE PipeAssumption DEF WriteBlocks, Wakeup, Goto, pipeVars, fdVars, procVars
<1>1. PipeTypeOK'
  BY DEF PInv, PipeTypeOK, PCs, Channel
<1>2. LockOwner'
  BY DEF PInv, LockOwner
<1>3. SleepPlace'
  BY DEF PInv, SleepPlace
<1>4. Ends'
  BY DEF PInv, Ends, WriteCode, ReadCode
<1>5. SleepReason'
  BY DEF SleepReason, Full
<1>6. SleepTested'
  BY DEF PInv, SleepTested, Full, Empty
<1>7. RingBound'
  BY DEF PInv, RingBound, Used
<1> QED BY <1>1, <1>2, <1>3, <1>4, <1>5, <1>6, <1>7 DEF PInv

\* WriteSleep keeps PInv.
LEMMA WriteSleepInv ==
    ASSUME PInv, NEW p \in Process, WriteSleep(p)
    PROVE  PInv'
<1> USE PipeAssumption DEF WriteSleep, SleepOn, Unlock, Goto, pipeVars, fdVars, procVars
<1>1. PipeTypeOK'
  BY DEF PInv, PipeTypeOK, PCs, Channel
<1>2. LockOwner'
  BY DEF PInv, PipeTypeOK, LockOwner
<1>3. SleepPlace'
  BY DEF PInv, PipeTypeOK, SleepPlace
<1>4. Ends'
  BY DEF PInv, Ends, WriteCode, ReadCode
<1>5. SleepReason'
  BY DEF PInv, SleepReason, SleepTested, Full, Empty
<1>6. SleepTested'
  BY DEF PInv, SleepTested, Full, Empty
<1>7. RingBound'
  BY DEF PInv, RingBound, Used
<1> QED BY <1>1, <1>2, <1>3, <1>4, <1>5, <1>6, <1>7 DEF PInv

\* WriteByte keeps PInv.
LEMMA WriteByteInv ==
    ASSUME PInv, NEW p \in Process, NEW c \in Byte, WriteByte(p, c)
    PROVE  PInv'
<1> USE PipeAssumption DEF WriteByte, pipeVars, fdVars, procVars
<1>0. /\ Inc(nwrite) \in 0..UMax - 1 /\ Used \in 0..PIPESIZE - 1
      /\ (Inc(nwrite) - nread) % UMax = Used + 1
  BY WriteAdvances DEF PInv
<1>1. PipeTypeOK'
  <2>1. data' \in [0..PIPESIZE - 1 -> Byte] BY DEF PInv, PipeTypeOK
  <2>2. todo' \in [Process -> 0..MaxN] BY DEF PInv, PipeTypeOK
  <2> QED BY <1>0, <2>1, <2>2 DEF PInv, PipeTypeOK
<1>2. LockOwner'
  BY DEF PInv, LockOwner
<1>3. SleepPlace'
  BY DEF PInv, SleepPlace
<1>4. Ends'
  BY DEF PInv, Ends
<1>5. SleepReason'
  BY DEF PInv, SleepReason
<1>6. SleepTested'
  BY DEF PInv, LockOwner, SleepTested
<1>7. RingBound'
  <2>1. Used' = Used + 1 BY <1>0, Zenon DEF Used
  <2> QED BY <1>0, <2>1 DEF RingBound
<1> QED BY <1>1, <1>2, <1>3, <1>4, <1>5, <1>6, <1>7 DEF PInv

\* WriteEnd keeps PInv.
LEMMA WriteEndInv ==
    ASSUME PInv, NEW p \in Process, WriteEnd(p)
    PROVE  PInv'
<1> USE PipeAssumption DEF WriteEnd, Wakeup, Leave, Unlock, Goto, pipeVars, fdVars, procVars
<1>1. PipeTypeOK'
  BY DEF PInv, PipeTypeOK, PCs, Channel
<1>2. LockOwner'
  BY DEF PInv, PipeTypeOK, LockOwner
<1>3. SleepPlace'
  BY DEF PInv, SleepPlace
<1>4. Ends'
  BY DEF PInv, Ends, WriteCode, ReadCode
<1>5. SleepReason'
  BY DEF PInv, SleepReason, Full
<1>6. SleepTested'
  BY DEF PInv, SleepTested, Full, Empty
<1>7. RingBound'
  BY DEF PInv, RingBound, Used
<1> QED BY <1>1, <1>2, <1>3, <1>4, <1>5, <1>6, <1>7 DEF PInv

-----------------------------------------------------------------------------
\* piperead().
LEMMA ReadFailsInv ==
    ASSUME PInv, NEW p \in Process, ReadFails(p)
    PROVE  PInv'
<1> USE PipeAssumption DEF ReadFails, Leave, Unlock, Goto, pipeVars, fdVars, procVars
<1>1. PipeTypeOK'
  BY DEF PInv, PipeTypeOK, PCs
<1>2. LockOwner'
  BY DEF PInv, PipeTypeOK, LockOwner
<1>3. SleepPlace'
  BY DEF PInv, SleepPlace
<1>4. Ends'
  BY DEF PInv, Ends, WriteCode, ReadCode
<1>5. SleepReason'
  BY DEF PInv, SleepReason, Full
<1>6. SleepTested'
  BY DEF PInv, SleepTested, Full, Empty
<1>7. RingBound'
  BY DEF PInv, RingBound, Used
<1> QED BY <1>1, <1>2, <1>3, <1>4, <1>5, <1>6, <1>7 DEF PInv

\* ReadBlocks keeps PInv.
LEMMA ReadBlocksInv ==
    ASSUME PInv, NEW p \in Process, ReadBlocks(p)
    PROVE  PInv'
<1> USE PipeAssumption DEF ReadBlocks, Goto, pipeVars, fdVars, procVars
<1>1. PipeTypeOK'
  BY DEF PInv, PipeTypeOK, PCs
<1>2. LockOwner'
  BY DEF PInv, LockOwner
<1>3. SleepPlace'
  BY DEF PInv, SleepPlace
<1>4. Ends'
  BY DEF PInv, Ends, WriteCode, ReadCode
<1>5. SleepReason'
  BY DEF PInv, SleepReason, Full, Empty
<1>6. SleepTested'
  BY DEF PInv, SleepTested, Full, Empty
<1>7. RingBound'
  BY DEF PInv, RingBound, Used
<1> QED BY <1>1, <1>2, <1>3, <1>4, <1>5, <1>6, <1>7 DEF PInv

\* ReadSleep keeps PInv.
LEMMA ReadSleepInv ==
    ASSUME PInv, NEW p \in Process, ReadSleep(p)
    PROVE  PInv'
<1> USE PipeAssumption DEF ReadSleep, SleepOn, Unlock, Goto, pipeVars, fdVars, procVars
<1>1. PipeTypeOK'
  BY DEF PInv, PipeTypeOK, PCs, Channel
<1>2. LockOwner'
  BY DEF PInv, PipeTypeOK, LockOwner
<1>3. SleepPlace'
  BY DEF PInv, PipeTypeOK, SleepPlace
<1>4. Ends'
  BY DEF PInv, Ends, WriteCode, ReadCode
<1>5. SleepReason'
  BY DEF PInv, SleepReason, SleepTested, Full, Empty
<1>6. SleepTested'
  BY DEF PInv, SleepTested, Full, Empty
<1>7. RingBound'
  BY DEF PInv, RingBound, Used
<1> QED BY <1>1, <1>2, <1>3, <1>4, <1>5, <1>6, <1>7 DEF PInv

\* ReadStarts keeps PInv.
LEMMA ReadStartsInv ==
    ASSUME PInv, NEW p \in Process, ReadStarts(p)
    PROVE  PInv'
<1> USE PipeAssumption DEF ReadStarts, Goto, pipeVars, fdVars, procVars
<1>1. PipeTypeOK'
  BY DEF PInv, PipeTypeOK, PCs
<1>2. LockOwner'
  BY DEF PInv, LockOwner
<1>3. SleepPlace'
  BY DEF PInv, SleepPlace
<1>4. Ends'
  BY DEF PInv, Ends, WriteCode, ReadCode
<1>5. SleepReason'
  BY DEF PInv, SleepReason, Full
<1>6. SleepTested'
  BY DEF PInv, SleepTested, Full
<1>7. RingBound'
  BY DEF PInv, RingBound, Used
<1> QED BY <1>1, <1>2, <1>3, <1>4, <1>5, <1>6, <1>7 DEF PInv

\* ReadByte keeps PInv.
LEMMA ReadByteInv ==
    ASSUME PInv, NEW p \in Process, ReadByte(p)
    PROVE  PInv'
<1> USE PipeAssumption DEF ReadByte, pipeVars, fdVars, procVars
<1>0. /\ Inc(nread) \in 0..UMax - 1 /\ Used \in Nat \ {0}
      /\ (nwrite - Inc(nread)) % UMax = Used - 1
  BY ReadAdvances DEF PInv
<1>1. PipeTypeOK'
  BY SMTT(30), <1>0 DEF PInv, PipeTypeOK, PCs, Channel, Full, Empty
<1>2. LockOwner'
  BY DEF PInv, LockOwner
<1>3. SleepPlace'
  BY DEF PInv, SleepPlace
<1>4. Ends'
  BY DEF PInv, Ends
<1>5. SleepReason'
  BY DEF PInv, SleepReason
<1>6. SleepTested'
  BY DEF PInv, LockOwner, SleepTested
<1>7. RingBound'
  <2>1. Used' = Used - 1 BY <1>0, Zenon DEF Used
  <2> QED BY <1>0, <2>1 DEF PInv, RingBound
<1> QED BY <1>1, <1>2, <1>3, <1>4, <1>5, <1>6, <1>7 DEF PInv

\* ReadFaults keeps PInv.
LEMMA ReadFaultsInv ==
    ASSUME PInv, NEW p \in Process, ReadFaults(p)
    PROVE  PInv'
<1> USE PipeAssumption DEF ReadFaults, Wakeup, Leave, Unlock, Goto, pipeVars, fdVars, procVars
<1>0. /\ Inc(nread) \in 0..UMax - 1 /\ Used \in Nat \ {0}
      /\ (nwrite - Inc(nread)) % UMax = Used - 1
  BY ReadAdvances DEF PInv
<1>1. PipeTypeOK'
  BY <1>0 DEF PInv, PipeTypeOK, PCs, Channel
<1>2. LockOwner'
  BY DEF PInv, PipeTypeOK, LockOwner
<1>3. SleepPlace'
  BY DEF PInv, SleepPlace
<1>4. Ends'
  BY DEF PInv, Ends, WriteCode, ReadCode
<1>5. SleepReason'
  BY DEF PInv, SleepReason
<1>6. SleepTested'
  BY DEF PInv, LockOwner, SleepTested
<1>7. RingBound'
  <2>1. Used' = Used - 1 BY <1>0, Zenon DEF Used
  <2> QED BY <1>0, <2>1 DEF PInv, RingBound
<1> QED BY <1>1, <1>2, <1>3, <1>4, <1>5, <1>6, <1>7 DEF PInv

\* ReadEnd keeps PInv.
LEMMA ReadEndInv ==
    ASSUME PInv, NEW p \in Process, ReadEnd(p)
    PROVE  PInv'
<1> USE PipeAssumption DEF ReadEnd, Wakeup, Leave, Unlock, Goto, pipeVars, fdVars, procVars
<1>1. PipeTypeOK'
  BY DEF PInv, PipeTypeOK, PCs, Channel
<1>2. LockOwner'
  BY DEF PInv, PipeTypeOK, LockOwner
<1>3. SleepPlace'
  BY DEF PInv, SleepPlace
<1>4. Ends'
  BY DEF PInv, Ends, WriteCode, ReadCode
<1>5. SleepReason'
  BY DEF PInv, SleepReason, Empty
<1>6. SleepTested'
  BY DEF PInv, SleepTested, Full, Empty
<1>7. RingBound'
  BY DEF PInv, RingBound, Used
<1> QED BY <1>1, <1>2, <1>3, <1>4, <1>5, <1>6, <1>7 DEF PInv

-----------------------------------------------------------------------------
\* fileclose(), pipeclose() and kill().
LEMMA CloseReadFileInv ==
    ASSUME PInv, NEW p \in Process, CloseReadFile(p)
    PROVE  PInv'
<1> USE PipeAssumption DEF CloseReadFile, Goto, pipeVars, fdVars, procVars
<1>1. PipeTypeOK'
  BY DEF PInv, PipeTypeOK, PCs
<1>2. LockOwner'
  BY DEF PInv, PipeTypeOK, LockOwner
<1>3. SleepPlace'
  BY DEF PInv, PipeTypeOK, SleepPlace
<1>4. Ends'
  BY DEF PInv, PipeTypeOK, Channel, LockOwner, Ends, WriteCode, ReadCode
<1>5. SleepReason'
  BY DEF PInv, SleepPlace, Ends, ReadCode, SleepReason, Full, Empty
<1>6. SleepTested'
  BY DEF PInv, PipeTypeOK, SleepTested, Full, Empty
<1>7. RingBound'
  BY DEF PInv, RingBound, Used
<1> QED BY <1>1, <1>2, <1>3, <1>4, <1>5, <1>6, <1>7 DEF PInv

\* CloseWriteFile keeps PInv.
LEMMA CloseWriteFileInv ==
    ASSUME PInv, NEW p \in Process, CloseWriteFile(p)
    PROVE  PInv'
<1> USE PipeAssumption DEF CloseWriteFile, Goto, pipeVars, fdVars, procVars
<1>1. PipeTypeOK'
  BY DEF PInv, PipeTypeOK, PCs
<1>2. LockOwner'
  BY DEF PInv, PipeTypeOK, LockOwner
<1>3. SleepPlace'
  BY DEF PInv, PipeTypeOK, SleepPlace
<1>4. Ends'
  BY DEF PInv, PipeTypeOK, Ends, WriteCode, ReadCode
<1>5. SleepReason'
  BY DEF PInv, SleepPlace, Ends, WriteCode, SleepReason, Full, Empty
<1>6. SleepTested'
  BY DEF PInv, PipeTypeOK, SleepTested, Full, Empty
<1>7. RingBound'
  BY DEF PInv, RingBound, Used
<1> QED BY <1>1, <1>2, <1>3, <1>4, <1>5, <1>6, <1>7 DEF PInv

\* CloseReadEnd keeps PInv.
LEMMA CloseReadEndInv ==
    ASSUME PInv, NEW p \in Process, CloseReadEnd(p)
    PROVE  PInv'
<1> USE PipeAssumption DEF CloseReadEnd, Wakeup, Goto, pipeVars, fdVars, procVars
<1>1. PipeTypeOK'
  BY DEF PInv, PipeTypeOK, PCs, Channel, Full, Empty
<1>2. LockOwner'
  BY DEF PInv, LockOwner
<1>3. SleepPlace'
  BY DEF PInv, SleepPlace
<1>4. Ends'
  BY DEF PInv, PipeTypeOK, Ends, WriteCode, ReadCode
<1>5. SleepReason'
  BY DEF PInv, SleepReason, Empty
<1>6. SleepTested'
  BY DEF PInv, LockOwner, SleepTested
<1>7. RingBound'
  BY DEF PInv, RingBound, Used
<1> QED BY <1>1, <1>2, <1>3, <1>4, <1>5, <1>6, <1>7 DEF PInv

\* CloseWriteEnd keeps PInv.
LEMMA CloseWriteEndInv ==
    ASSUME PInv, NEW p \in Process, CloseWriteEnd(p)
    PROVE  PInv'
<1> USE PipeAssumption DEF CloseWriteEnd, Wakeup, Goto, pipeVars, fdVars, procVars
<1>1. PipeTypeOK'
  BY DEF PInv, PipeTypeOK, PCs, Channel, Full, Empty
<1>2. LockOwner'
  BY DEF PInv, LockOwner
<1>3. SleepPlace'
  BY DEF PInv, SleepPlace
<1>4. Ends'
  BY DEF PInv, PipeTypeOK, Ends, WriteCode, ReadCode
<1>5. SleepReason'
  BY DEF PInv, SleepReason, Full
<1>6. SleepTested'
  BY DEF PInv, LockOwner, SleepTested
<1>7. RingBound'
  BY DEF PInv, RingBound, Used
<1> QED BY <1>1, <1>2, <1>3, <1>4, <1>5, <1>6, <1>7 DEF PInv

\* Kill keeps PInv.
LEMMA KillInv ==
    ASSUME PInv, NEW p \in Process, Kill(p)
    PROVE  PInv'
<1> USE PipeAssumption DEF Kill, pipeVars, fdVars, procVars
<1>1. PipeTypeOK'
  BY DEF PInv, PipeTypeOK, Channel
<1>2. LockOwner'
  BY DEF PInv, LockOwner
<1>3. SleepPlace'
  BY DEF PInv, SleepPlace
<1>4. Ends'
  BY DEF PInv, Ends
<1>5. SleepReason'
  BY DEF PInv, SleepReason, Full, Empty
<1>6. SleepTested'
  BY DEF PInv, SleepTested, Full, Empty
<1>7. RingBound'
  BY DEF PInv, RingBound, Used
<1> QED BY <1>1, <1>2, <1>3, <1>4, <1>5, <1>6, <1>7 DEF PInv
-----------------------------------------------------------------------------
\* Every step keeps PInv.
LEMMA NextPInv == PInv /\ [PipeNext]_pipeSysVars => PInv'
<1> SUFFICES ASSUME PInv, [PipeNext]_pipeSysVars PROVE PInv' OBVIOUS
<1>1. ASSUME NEW p \in Process, Step(p) PROVE PInv'
  BY <1>1, AcquireInv, WriteFailsInv, WriteBlocksInv, WriteSleepInv, WriteByteInv, WriteEndInv,
     ReadFailsInv, ReadBlocksInv, ReadSleepInv, ReadStartsInv, ReadByteInv, ReadFaultsInv,
     ReadEndInv, CloseReadEndInv, CloseWriteEndInv
  DEF Step
<1>2. ASSUME NEW p \in Process, Program(p) PROVE PInv'
  BY <1>2, ForkInv, WriteCallInv, ReadCallInv, CloseReadFileInv, CloseWriteFileInv DEF Program
<1>3. ASSUME NEW p \in Process, Kill(p) PROVE PInv'
  BY <1>3, KillInv
<1>4. CASE UNCHANGED pipeSysVars
  BY <1>4
  DEF pipeSysVars, pipeVars, fdVars, procVars, PInv, PipeTypeOK, LockOwner, SleepPlace, Ends,
      SleepReason, SleepTested, RingBound, Used, Full, Empty
<1> QED BY <1>1, <1>2, <1>3, <1>4 DEF PipeNext

\* The inductive invariant holds in every reachable state.
THEOREM PipeInvariant == PipeSpec => []PInv
<1> QED BY InitPInv, NextPInv, PTL DEF PipeSpec

\* The counters stay uints, and every process is at a place that pipe.c has.
THEOREM PipeTypeCorrect == PipeSpec => []PipeTypeOK
<1>1. PInv => PipeTypeOK BY DEF PInv
<1> QED BY <1>1, PipeInvariant, PTL

\* pipeclose() frees the page when no process is, or ever again will be, in the
\* pipe's code.
THEOREM PipeNoUseAfterFree == PipeSpec => []NoUseAfterFree
<1>1. PInv => NoUseAfterFree
  BY DEF PInv, PipeTypeOK, PCs, Ends, WriteCode, ReadCode, NoUseAfterFree
<1> QED BY <1>1, PipeInvariant, PTL

\* No wakeup of pipewrite(), piperead() and pipeclose() is lost: with pi->lock
\* free, whoever sleeps has a reason to.
THEOREM PipeNoLostWakeup == PipeSpec => []NoLostWakeup
<1>1. PInv => NoLostWakeup
  BY PipeAssumption DEF PInv, LockOwner, SleepReason, NoLostWakeup
<1> QED BY <1>1, PipeInvariant, PTL

-----------------------------------------------------------------------------
(***************************************************************************)
(* The ring and its two wrapping counters implement a bounded queue.       *)
(***************************************************************************)

\* Appending one element to a sequence.
LEMMA AppendIs ==
    ASSUME NEW S, NEW s \in Seq(S), NEW c \in S, NEW t \in Seq(S),
           Len(t) = Len(s) + 1,
           \A k \in 1..Len(s) : t[k] = s[k], t[Len(s) + 1] = c
    PROVE  t = Append(s, c)
OBVIOUS

\* WriteByte appends a byte to the contents: the slot at nwrite is none of those
\* that hold a byte, although both counters are reduced twice.
LEMMA PutContents ==
    ASSUME PInv, NEW p \in Process, NEW c \in Byte, WriteByte(p, c)
    PROVE  Contents' = Append(Contents, c) /\ Len(Contents) < PIPESIZE
<1> DEFINE slot(k) == ((nread + k - 1) % UMax) % PIPESIZE
<1>1. /\ nread \in 0..UMax - 1 /\ nwrite \in 0..UMax - 1 /\ data \in [0..PIPESIZE - 1 -> Byte]
      /\ UMax \in Nat \ {0} /\ PIPESIZE \in Nat \ {0} /\ PIPESIZE <= UMax
  BY PipeAssumption DEF PInv, PipeTypeOK
<1>2. Used \in 0..PIPESIZE - 1 /\ Used' = Used + 1
  <2>1. Used \in 0..PIPESIZE - 1 /\ (Inc(nwrite) - nread) % UMax = Used + 1
    BY WriteAdvances DEF PInv, WriteByte
  <2> QED BY <2>1 DEF Used, WriteByte
<1>3. nwrite = (nread + Used) % UMax
  <2>1. Used \in 0..UMax - 1 BY <1>1, <1>2
  <2>2. (nwrite - nread) % UMax = Used BY DEF Used
  <2> QED BY <1>1, <2>1, <2>2, ModAhead
<1>4. \A k \in 1..Used : slot(k) \in 0..PIPESIZE - 1 /\ slot(k) # nwrite % PIPESIZE
  <2> TAKE k \in 1..Used
  <2>1. Divides(PIPESIZE, UMax) BY PipeAssumption DEF Divides
  <2>2. /\ slot(k) \in 0..PIPESIZE - 1
        /\ slot(k) # ((nread + Used) % UMax) % PIPESIZE
    BY <1>1, <1>2, <2>1, RingSlots, Zenon
  <2> QED BY <1>3, <2>2, Zenon
<1>5. slot(Used + 1) = nwrite % PIPESIZE
  <2>1. nread + (Used + 1) - 1 = nread + Used BY <1>2
  <2> QED BY <1>3, <2>1, Zenon
<1>6. nwrite % PIPESIZE \in 0..PIPESIZE - 1
  BY <1>1, ModRange
<1>7. Contents = [k \in 1..Used |-> data[slot(k)]] BY DEF Contents
<1>8. Contents' = [k \in 1..Used + 1 |-> data'[slot(k)]] BY <1>2 DEF Contents, WriteByte
<1> DEFINE w == nwrite % PIPESIZE
<1> HIDE DEF slot, w
<1>9. Contents \in Seq(Byte) /\ Len(Contents) = Used
  BY <1>1, <1>2, <1>4, <1>7
<1>10. /\ \A k \in 1..Used : data'[slot(k)] = Contents[k]
       /\ data'[slot(Used + 1)] = c
  <2>1. w \in 0..PIPESIZE - 1 /\ \A k \in 1..Used : slot(k) \in 0..PIPESIZE - 1 /\ slot(k) # w
    BY <1>4, <1>6 DEF w
  <2>2. data' = [data EXCEPT ![w] = c] /\ slot(Used + 1) = w BY <1>5 DEF w, WriteByte
  <2> QED BY <1>1, <1>7, <2>1, <2>2
<1>11. Contents' \in Seq(Byte) /\ Len(Contents') = Used + 1
  <2>1. \A k \in 1..Used + 1 : data'[slot(k)] \in Byte
    BY <1>2, <1>9, <1>10
  <2> QED BY <1>2, <1>8, <2>1
<1>12. /\ \A k \in 1..Used : Contents'[k] = data'[slot(k)]
       /\ Contents'[Used + 1] = data'[slot(Used + 1)]
  BY <1>2, <1>8
<1>13. Len(Contents) < PIPESIZE BY <1>1
<1> QED BY <1>9, <1>10, <1>11, <1>12, <1>13, AppendIs

\* A byte that leaves is the oldest.
LEMMA GetContents ==
    ASSUME PInv, ~Empty, data' = data, nwrite' = nwrite, nread' = Inc(nread)
    PROVE  Contents # <<>> /\ Contents' = Tail(Contents)
<1> DEFINE slot(k) == ((nread + k - 1) % UMax) % PIPESIZE
<1>1. /\ nread \in 0..UMax - 1 /\ nwrite \in 0..UMax - 1 /\ data \in [0..PIPESIZE - 1 -> Byte]
      /\ UMax \in Nat \ {0} /\ PIPESIZE \in Nat \ {0} /\ PIPESIZE < UMax
  BY PipeAssumption DEF PInv, PipeTypeOK
<1>2. Used \in 1..PIPESIZE /\ Used' = Used - 1
  <2>1. Used \in Nat \ {0} /\ (nwrite - Inc(nread)) % UMax = Used - 1
    BY ReadAdvances DEF PInv
  <2>2. Used <= PIPESIZE BY DEF PInv, RingBound
  <2>3. Used' = Used - 1 BY <2>1, Zenon DEF Used
  <2> QED BY <2>1, <2>2, <2>3
<1>3. ASSUME NEW k \in 1..Used - 1
      PROVE  ((Inc(nread) + k - 1) % UMax) % PIPESIZE = slot(k + 1)
  <2>1. k - 1 \in 0..UMax - 1 BY <1>1, <1>2
  <2>2. (((nread + 1) % UMax) + (k - 1)) % UMax = (nread + ((k - 1) + 1)) % UMax
    BY <1>1, <2>1, ModTwice, Zenon
  <2>3. /\ Inc(nread) + k - 1 = ((nread + 1) % UMax) + (k - 1)
        /\ nread + (k + 1) - 1 = nread + ((k - 1) + 1)
    BY ModInc DEF Inc
  <2> QED BY <2>2, <2>3
<1>4. Contents = [k \in 1..Used |-> data[slot(k)]]
  BY DEF Contents
<1>5. Contents' = [k \in 1..Used - 1 |-> data[((Inc(nread) + k - 1) % UMax) % PIPESIZE]]
  BY <1>2 DEF Contents
<1>6. \A k \in 1..Used : slot(k) \in 0..PIPESIZE - 1
  BY <1>1, ModRange
<1> HIDE DEF slot
<1>7. Contents \in Seq(Byte) /\ Len(Contents) = Used
  BY <1>1, <1>2, <1>4, <1>6
<1>8. Tail(Contents) = [k \in 1..Used - 1 |-> data[slot(k + 1)]]
  BY <1>2, <1>4
<1> QED BY <1>2, <1>3, <1>5, <1>7, <1>8

\* Whatever a step of a process does is a step of the bounded queue, or leaves the
\* queue alone.
LEMMA FifoStep == PInv /\ [PipeNext]_pipeSysVars => [Fifo!Next]_(Fifo!vars)
<1> SUFFICES ASSUME PInv, [PipeNext]_pipeSysVars PROVE [Fifo!Next]_(Fifo!vars) OBVIOUS
<1>1. ASSUME UNCHANGED pipeVars PROVE UNCHANGED Fifo!vars
  BY <1>1 DEF pipeVars, Contents, Used, Fifo!vars
<1>2. ASSUME NEW p \in Process, NEW c \in Byte, WriteByte(p, c) PROVE Fifo!Next
  <2>1. Contents' = Append(Contents, c) /\ Len(Contents) < PIPESIZE
    BY <1>2, PutContents
  <2>2. writeopen BY <1>2 DEF WriteByte, PInv, Ends, WriteCode
  <2> QED BY <1>2, <2>1, <2>2 DEF WriteByte, Fifo!Next, Fifo!Put
<1>3. ASSUME NEW p \in Process, ReadByte(p) \/ ReadFaults(p) PROVE Fifo!Next
  <2>1. Contents # <<>> /\ Contents' = Tail(Contents)
    BY <1>3, GetContents DEF ReadByte, ReadFaults
  <2>2. readopen BY <1>3 DEF ReadByte, ReadFaults, PInv, Ends, ReadCode
  <2> QED BY <1>3, <2>1, <2>2 DEF ReadByte, ReadFaults, Fifo!Next, Fifo!Get
<1>4. ASSUME NEW p \in Process, CloseReadEnd(p) PROVE Fifo!Next
  BY <1>4 DEF CloseReadEnd, PInv, Ends, Contents, Used, Fifo!Next, Fifo!CloseRead
<1>5. ASSUME NEW p \in Process, CloseWriteEnd(p) PROVE Fifo!Next
  BY <1>5 DEF CloseWriteEnd, PInv, Ends, Contents, Used, Fifo!Next, Fifo!CloseWrite
<1>6. ASSUME NEW p \in Process, Step(p) PROVE [Fifo!Next]_(Fifo!vars)
  BY <1>1, <1>2, <1>3, <1>4, <1>5, <1>6
  DEF Step, Acquire, WriteFails, WriteBlocks, WriteSleep, WriteEnd, ReadFails, ReadBlocks,
      ReadSleep, ReadStarts, ReadEnd, SleepOn
<1>7. ASSUME NEW p \in Process, Program(p) \/ Kill(p) PROVE UNCHANGED pipeVars
  BY <1>7 DEF Program, Fork, WriteCall, ReadCall, CloseReadFile, CloseWriteFile, Kill
<1>8. CASE UNCHANGED pipeSysVars
  BY <1>1, <1>8 DEF pipeSysVars
<1> QED BY <1>1, <1>6, <1>7, <1>8 DEF PipeNext

\* A pipe is a bounded FIFO queue: no byte is lost, repeated or reordered where the
\* counters or the ring wrap around (pipewrite(), piperead(), pipeclose()).
THEOREM PipeIsFifo == PipeSpec => ImplementsFifo
<1>1. PipeInit => Fifo!Init
  <2> SUFFICES ASSUME PipeInit PROVE Fifo!Init OBVIOUS
  <2>1. Used = 0 BY PipeAssumption DEF PipeInit, Used
  <2>2. Contents = <<>> BY <2>1 DEF Contents
  <2> QED BY <2>2 DEF PipeInit, Fifo!Init
<1> QED BY <1>1, FifoStep, PipeInvariant, PTL DEF PipeSpec, ImplementsFifo, Fifo!Spec
=============================================================================
