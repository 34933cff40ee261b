----------------------------- MODULE CacheProofs -----------------------------
(***************************************************************************)
(* Proofs about the redo log (Log) and the buffer cache (Bcache), for any   *)
(* number of processes, buffers, blocks and crashes.                        *)
(*                                                                         *)
(* LInv is the inductive invariant of Log: who is in which phase, which     *)
(* buffers are locked, how much of the log the calls in progress have       *)
(* reserved, and where a block may differ from its home on disk.  DInv adds *)
(* to it what the log's blocks hold while a transaction is committed, and   *)
(* that a block of the log is pinned; recovery unpins blocks that nobody    *)
(* pinned, so DInv is only claimed for a machine that is never short of     *)
(* buffers or never recovers a transaction.                                 *)
(*                                                                         *)
(* CInv is that of Bcache.  Besides what BuffersSound says it tells who has *)
(* each sleeplock, that a pinned block is in the cache, and that a buffer   *)
(* which is neither pinned nor being modified is as on disk, which is why   *)
(* it may be recycled.                                                      *)
(***************************************************************************)
EXTENDS MCCache, ModArith, FiniteSetTheorems, TLAPS

Active == {p \in Process : lpc[p] \in InOp}
CommitPc == {"log", "install", "done"}
Logged == {lh[k] : k \in DOMAIN lh}
Distinct(s) == \A j, k \in DOMAIN s : j # k => s[j] # s[k]

\* begin_op() and end_op() count the calls in progress; one process commits, when
\* there are none.
Phase ==
    /\ outstanding = Cardinality(Active)
    /\ committing => Active = {}
    /\ \A p \in asleep : lpc[p] = "begin"
    /\ \A p, q \in Process : lpc[p] \in CommitPc /\ lpc[q] \in CommitPc => p = q
    /\ mode # "boot" => /\ \A p \in Process : lpc[p] # "recover"
                        /\ committing <=> \E p \in Process : lpc[p] \in CommitPc
    /\ mode = "boot" => /\ ~committing
                        /\ \A p \in Process : \/ lpc[p] = "idle"
                                              \/ p = InitProc /\ lpc[p] \in {"recover", "install"}
    /\ \A p \in Process : lpc[p] = "recover" => tail[p] = 0

\* The locked buffers and the blocks of each call.
Buffers ==
    \A p \in Process :
        /\ IF lpc[p] \in {"check", "append"} THEN buf[p] \in wrote[p] ELSE buf[p] = NoBlock
        /\ wrote[p] # {} => lpc[p] \in InOp
        /\ IsFiniteSet(wrote[p]) /\ Cardinality(wrote[p]) <= MAXOPBLOCKS
        /\ \A q \in Process : buf[p] = buf[q] /\ buf[p] # NoBlock => p = q

\* The headers, in memory and on disk.
Headers ==
    /\ Len(lh) <= LOGSIZE /\ Distinct(lh)
    /\ Len(hdr) <= LOGSIZE /\ Distinct(hdr)
    /\ \A p \in Process : lpc[p] = "install" => hdr = lh
    /\ mode # "boot" /\ (\A p \in Process : lpc[p] # "install") => hdr = <<>>
    /\ (/\ mode # "boot" /\ outstanding = 0
        /\ \A p \in Process : lpc[p] \notin {"log", "install"}) => lh = <<>>

\* Each call in progress has MAXOPBLOCKS entries of the log set aside, less those
\* it has paid for: the blocks it has written that are in the log.
Paid == {x \in Process \X Block : x[2] \in wrote[x[1]] /\ x[2] \in Logged}
Reserved == Len(lh) + outstanding * MAXOPBLOCKS <= LOGSIZE + Cardinality(Paid)

\* A block that is neither in the log nor in somebody's hands is as on disk.
Clean ==
    \A blk \in Block : (mode = "boot" \/ (blk \notin Logged /\ \A p \in Process : buf[p] # blk))
                        => cache[blk] = home[blk]

\* install_trans() up to tail.
Installed ==
    \A p \in Process, k \in DOMAIN lh : lpc[p] = "install" /\ k <= tail[p] =>
        home[lh[k]] = logblk[k] /\ cache[lh[k]] = logblk[k]

LInv ==
    /\ LogTypeOK /\ Phase /\ Buffers /\ Headers /\ Reserved /\ Clean /\ Installed
    /\ SleeperHasWaker

\* write_log() up to tail, and after it.
Copied ==
    \A p \in Process, k \in DOMAIN lh :
        /\ lpc[p] = "log" /\ k <= tail[p] => cache[lh[k]] = logblk[k]
        /\ lpc[p] = "install" /\ mode # "boot" => cache[lh[k]] = logblk[k]

\* A block is pinned from log_write() until install_trans() has written it.
Pending(blk) ==
    \E k \in DOMAIN lh : lh[k] = blk /\ \A p \in Process : lpc[p] = "install" => tail[p] < k

PinsExact ==
    Evictions => /\ \A blk \in Block : pins[blk] = IF Pending(blk) THEN 1 ELSE 0
                 /\ mode = "boot" => hdr = <<>> /\ lh = <<>>

DInv == LInv /\ Copied /\ PinsExact

-----------------------------------------------------------------------------
\* A count of pairs <<p, blk>> in which p is of A and has at most m blk's.
LEMMA PairsBound ==
    ASSUME NEW A, IsFiniteSet(A), NEW m \in Nat, NEW w,
           \A p \in A : IsFiniteSet(w[p]) /\ Cardinality(w[p]) <= m,
           NEW W, \A x \in W : x = <<x[1], x[2]>> /\ x[1] \in A /\ x[2] \in w[x[1]]
    PROVE  /\ IsFiniteSet(W) /\ Cardinality(W) \in Nat
           /\ Cardinality(W) <= Cardinality(A) * m
<1> DEFINE f(p) == CHOOSE g : g \in Surjection(1..Cardinality(w[p]), w[p])
           idx(x) == CHOOSE i \in 1..Cardinality(w[x[1]]) : f(x[1])[i] = x[2]
           F == [x \in W |-> <<x[1], idx(x)>>]
           T == A \X (1..m)
<1>1. ASSUME NEW p \in A
      PROVE  f(p) \in Surjection(1..Cardinality(w[p]), w[p]) /\ Cardinality(w[p]) \in 0..m
  <2>1. ExistsBijection(1..Cardinality(w[p]), w[p]) /\ Cardinality(w[p]) \in Nat
    BY FS_CardinalityType
  <2>2. \E g : g \in Surjection(1..Cardinality(w[p]), w[p])
    BY <2>1 DEF ExistsBijection, Bijection
  <2> QED BY <2>1, <2>2
<1>2. ASSUME NEW x \in W
      PROVE  /\ idx(x) \in 1..m /\ f(x[1])[idx(x)] = x[2]
             /\ x[1] \in A /\ x = <<x[1], x[2]>>
  <2>1. x[1] \in A /\ x[2] \in w[x[1]] /\ x = <<x[1], x[2]>> OBVIOUS
  <2>2. \E i \in 1..Cardinality(w[x[1]]) : f(x[1])[i] = x[2]
    BY <1>1, <2>1 DEF Surjection
  <2>3. idx(x) \in 1..Cardinality(w[x[1]]) /\ f(x[1])[idx(x)] = x[2] BY <2>2
  <2>4. Cardinality(w[x[1]]) \in 0..m BY <1>1, <2>1
  <2> HIDE DEF idx, f
  <2> QED BY <2>3, <2>4
<1> HIDE DEF idx, f
<1>3. F \in [W -> T] BY <1>2
<1>4. ASSUME NEW x \in W, NEW y \in W, F[x] = F[y] PROVE x = y
  <2>1. x[1] = y[1] /\ idx(x) = idx(y) BY <1>4
  <2>2. x[2] = y[2] BY <1>2, <2>1
  <2> QED BY <2>1, <2>2
<1>5. F \in Injection(W, T) BY <1>3, <1>4 DEF Injection, IsInjective
<1>6. /\ IsFiniteSet(T)
      /\ Cardinality(T) = Cardinality(A) * m
  <2>1. IsFiniteSet(1..m) /\ Cardinality(1..m) = m BY FS_Interval
  <2> QED BY <2>1, FS_Product
<1> HIDE DEF F, T
<1>7. IsFiniteSet(W) /\ Cardinality(W) <= Cardinality(T) BY <1>5, <1>6, FS_Injection
<1> QED BY <1>6, <1>7, FS_CardinalityType

\* Appending an entry to the log header.
LEMMA AppendEntry ==
    ASSUME NEW S, NEW s \in Seq(S), NEW x \in S
    PROVE  /\ DOMAIN Append(s, x) = DOMAIN s \cup {Len(s) + 1} /\ DOMAIN s = 1..Len(s) /\ Len(s) \in Nat
           /\ \A k \in DOMAIN s : Append(s, x)[k] = s[k]
           /\ Append(s, x)[Len(s) + 1] = x
OBVIOUS

\* The blocks of the log header.
LEMMA LhBlocks ==
    ASSUME LogTypeOK
    PROVE  /\ \A k \in DOMAIN lh : lh[k] \in Block /\ k \in Nat /\ k > 0 /\ k <= Len(lh)
           /\ \A k \in DOMAIN hdr : hdr[k] \in Block /\ k \in Nat /\ k > 0
BY DEF LogTypeOK

\* Sets of processes are finite ...
LEMMA ActiveSubset ==
    ASSUME NEW S \in SUBSET Process
    PROVE  IsFiniteSet(S) /\ Cardinality(S) \in 0..Cardinality(Process)
<1>1. IsFiniteSet(S) /\ Cardinality(S) <= Cardinality(Process) BY LogAssumption, FS_Subset
<1> QED BY <1>1, LogAssumption, FS_CardinalityType

\* ... and so are the calls in progress.
LEMMA ActiveFinite == IsFiniteSet(Active) /\ Cardinality(Active) \in 0..Cardinality(Process)
BY ActiveSubset DEF Active

\* outstanding tells whether a call is in progress.
LEMMA Outstanding ==
    ASSUME Phase
    PROVE  /\ outstanding = 0 <=> Active = {}
           /\ outstanding = 1 => \A p, q \in Active : p = q
<1>1. outstanding = Cardinality(Active) /\ IsFiniteSet(Active) BY ActiveFinite DEF Phase
<1>2. outstanding = 0 <=> Active = {} BY <1>1, FS_EmptySet
<1>3. ASSUME outstanding = 1 PROVE \A p, q \in Active : p = q
  <2>1. \E x : Active = {x} BY <1>1, <1>3, FS_Singleton
  <2> QED BY <2>1
<1> QED BY <1>2, <1>3

\* The calls in progress have paid for no more than they had set aside.
PaidWithin ==
    /\ IsFiniteSet(Paid) /\ Cardinality(Paid) \in Nat
    /\ Cardinality(Paid) <= outstanding * MAXOPBLOCKS

\* The blocks paid for are at most MAXOPBLOCKS for each call in progress.
LEMMA PaidBound == LogTypeOK /\ Phase /\ Buffers => PaidWithin
<1> SUFFICES ASSUME LogTypeOK, Phase, Buffers PROVE PaidWithin OBVIOUS
<1>1. IsFiniteSet(Active) /\ outstanding = Cardinality(Active) BY ActiveFinite DEF Phase
<1>2. MAXOPBLOCKS \in Nat BY LogAssumption
<1>3. \A p \in Active : IsFiniteSet(wrote[p]) /\ Cardinality(wrote[p]) <= MAXOPBLOCKS
  BY DEF Buffers, Active
<1>4. \A x \in Paid : x = <<x[1], x[2]>> /\ x[1] \in Active /\ x[2] \in wrote[x[1]]
  BY DEF Paid, Buffers, Active
<1>5. /\ IsFiniteSet(Paid) /\ Cardinality(Paid) \in Nat
      /\ Cardinality(Paid) <= Cardinality(Active) * MAXOPBLOCKS
  BY <1>1, <1>2, <1>3, <1>4, PairsBound, Zenon
<1> QED BY <1>1, <1>5 DEF PaidWithin

\* The same in the next state.
LEMMA PaidBoundNext == (LogTypeOK /\ Phase /\ Buffers)' => PaidWithin'
BY PaidBound, PTL

-----------------------------------------------------------------------------
-----------------------------------------------------------------------------
\* begin_op().
LEMMA BeginCallInv ==
    ASSUME LInv, NEW p \in Process, BeginCall(p)
    PROVE  LInv'
<1> USE LogAssumption DEF BeginCall, LogGoto, diskVars, cacheVars, logVars, opVars, sysVars
<1>a. Active' = Active BY DEF Active, InOp
<1>1. LogTypeOK'
  BY DEF LInv, LogTypeOK, LogPCs
<1>2. Phase'
  BY <1>a DEF LInv, Phase, CommitPc
<1>3. Buffers'
  BY DEF LInv, Buffers, InOp
<1>4. Reserved'
  BY DEF LInv, Reserved, Paid, Logged
<1>5. Headers'
  BY DEF LInv, Headers
<1>6. Clean'
  BY DEF LInv, LogTypeOK, Clean, Logged
<1>7. Installed'
  BY DEF LInv, Installed
<1>8. SleeperHasWaker'
  BY DEF LInv, SleeperHasWaker
<1> QED BY <1>1, <1>2, <1>3, <1>4, <1>5, <1>6, <1>7, <1>8 DEF LInv

\* BeginWait keeps LInv.
LEMMA BeginWaitInv ==
    ASSUME LInv, NEW p \in Process, BeginWait(p)
    PROVE  LInv'
<1> USE LogAssumption DEF BeginWait, LogGoto, diskVars, cacheVars, logVars, opVars, sysVars
<1>a. Active' = Active BY DEF Active
<1>1. LogTypeOK'
  BY DEF LInv, LogTypeOK
<1>2. Phase'
  BY <1>a DEF LInv, Phase
<1>3. Buffers'
  BY DEF LInv, Buffers
<1>4. Reserved'
  BY DEF LInv, Reserved, Paid, Logged
<1>5. Headers'
  BY DEF LInv, LogTypeOK, Headers, Distinct, InOp
<1>6. Clean'
  BY DEF LInv, LogTypeOK, Clean, Logged
<1>7. Installed'
  BY DEF LInv, Installed
<1>8. SleeperHasWaker'
  <2> SUFFICES ASSUME outstanding = 0, ~committing PROVE FALSE
    BY DEF LInv, LogTypeOK, SleeperHasWaker
  <2>1. \A q \in Process : lpc[q] \notin {"log", "install"}
    BY DEF LInv, Phase, CommitPc
  <2>2. lh = <<>> BY <2>1 DEF LInv, Headers
  <2> QED BY <2>2 DEF MustWait
<1> QED BY <1>1, <1>2, <1>3, <1>4, <1>5, <1>6, <1>7, <1>8 DEF LInv

\* BeginOp keeps LInv.
LEMMA BeginOpInv ==
    ASSUME LInv, NEW p \in Process, BeginOp(p)
    PROVE  LInv'
<1> USE LogAssumption DEF BeginOp, LogGoto, diskVars, cacheVars, logVars, opVars, sysVars
<1>a. Active' = Active \cup {p} /\ p \notin Active
  BY DEF Active, InOp, LInv, LogTypeOK
<1>blk. ~committing /\ \A q \in Process : lpc[q] \notin CommitPc
  BY DEF LInv, Phase, MustWait
<1>c. outstanding' = Cardinality(Active')
  <2>1. Cardinality(Active') = Cardinality(Active) + 1
    BY <1>a, ActiveFinite, FS_AddElement
  <2> QED BY <2>1 DEF LInv, Phase
<1>1. LogTypeOK'
  <2>1. outstanding' \in 0..Cardinality(Process)
    BY <1>c, ActiveSubset DEF Active
  <2> QED BY <2>1 DEF LInv, LogTypeOK, LogPCs
<1>2. Phase'
  BY <1>blk, <1>c DEF LInv, Phase, CommitPc
<1>3. Buffers'
  BY DEF LInv, Buffers, InOp
<1>4. Reserved'
  <2>1. Len(lh) + (outstanding + 1) * MAXOPBLOCKS <= LOGSIZE BY DEF MustWait
  <2>2. Cardinality(Paid) \in Nat /\ Paid' = Paid BY PaidBound DEF LInv, PaidWithin, Paid, Logged
  <2> QED BY <2>1, <2>2 DEF Reserved
<1>5. Headers'
  BY DEF LInv, LogTypeOK, Headers
<1>6. Clean'
  BY DEF LInv, LogTypeOK, Clean, Logged
<1>7. Installed'
  BY DEF LInv, Installed
<1>8. SleeperHasWaker'
  BY DEF LInv, LogTypeOK, SleeperHasWaker
<1> QED BY <1>1, <1>2, <1>3, <1>4, <1>5, <1>6, <1>7, <1>8 DEF LInv

-----------------------------------------------------------------------------
\* A write to a block, and log_write() of it.
LEMMA ModifyInv ==
    ASSUME LInv, NEW p \in Process, NEW blk \in Block, NEW v \in Val, Modify(p, blk, v)
    PROVE  LInv'
<1> USE LogAssumption DEF Modify, LogGoto, diskVars, cacheVars, logVars, opVars, sysVars
<1>a. Active' = Active BY DEF Active, InOp
<1>blk. \A q \in Process : lpc[q] \notin CommitPc
  BY DEF LInv, Phase, Active, InOp
<1>c. buf[p] = NoBlock BY DEF LInv, Buffers
<1>1. LogTypeOK'
  BY DEF LInv, LogTypeOK, LogPCs
<1>2. Phase'
  BY <1>a DEF LInv, Phase, CommitPc
<1>3. Buffers'
  <2>1. IsFiniteSet(wrote[p] \cup {blk}) BY FS_AddElement DEF LInv, Buffers
  <2>2. IsFiniteSet(wrote'[p]) /\ Cardinality(wrote'[p]) <= MAXOPBLOCKS
    BY <2>1 DEF LInv, LogTypeOK
  <2> QED BY <2>2 DEF LInv, LogTypeOK, Buffers, InOp
<1>4. Reserved'
  <2>1. Paid \in SUBSET Paid' BY DEF LInv, LogTypeOK, Paid, Logged
  <2>2. IsFiniteSet(Paid') /\ Cardinality(Paid') \in Nat
    BY <1>1, <1>2, <1>3, PaidBoundNext DEF PaidWithin
  <2>3. Cardinality(Paid) <= Cardinality(Paid') BY <2>1, <2>2, FS_Subset
  <2>4. Cardinality(Paid) \in Nat BY PaidBound DEF LInv, PaidWithin
  <2>5. outstanding * MAXOPBLOCKS \in Nat BY DEF LInv, LogTypeOK
  <2>6. Len(lh) \in Nat /\ Len(lh) + outstanding * MAXOPBLOCKS <= LOGSIZE + Cardinality(Paid)
    BY DEF LInv, Reserved
  <2>7. Len(lh) + outstanding * MAXOPBLOCKS <= LOGSIZE + Cardinality(Paid')
    BY <2>2, <2>3, <2>4, <2>5, <2>6
  <2> QED BY <2>7 DEF Reserved
<1>5. Headers'
  BY DEF LInv, LogTypeOK, Headers, Distinct, InOp
<1>6. Clean'
  BY ZenonT(40), <1>c DEF LInv, LogTypeOK, Clean, Logged
<1>7. Installed'
  BY <1>blk DEF Installed, CommitPc
<1>8. SleeperHasWaker'
  BY DEF LInv, SleeperHasWaker
<1> QED BY <1>1, <1>2, <1>3, <1>4, <1>5, <1>6, <1>7, <1>8 DEF LInv

\* LogCheck keeps LInv.
LEMMA LogCheckInv ==
    ASSUME LInv, NEW p \in Process, LogCheck(p)
    PROVE  LInv'
<1> USE LogAssumption DEF LogCheck, LogGoto, diskVars, cacheVars, logVars, opVars, sysVars
<1>a. Active' = Active BY DEF Active, InOp, LInv, LogTypeOK
<1>blk. \A q \in Process : lpc[q] \notin CommitPc
  BY DEF LInv, Phase, Active, InOp
<1>1. LogTypeOK'
  BY DEF LInv, LogTypeOK, LogPCs
<1>2. Phase'
  BY ZenonT(40), <1>a DEF LInv, LogTypeOK, Phase, CommitPc, InOp
<1>3. Buffers'
  BY DEF LInv, LogTypeOK, Buffers, InOp
<1>4. Reserved'
  BY DEF LInv, Reserved, Paid, Logged
<1>5. Headers'
  BY DEF LInv, LogTypeOK, Headers
<1>6. Clean'
  BY ZenonT(40) DEF LInv, LogTypeOK, Clean, Logged
<1>7. Installed'
  BY <1>blk DEF LInv, LogTypeOK, Installed, CommitPc
<1>8. SleeperHasWaker'
  BY DEF LInv, SleeperHasWaker
<1> QED BY <1>1, <1>2, <1>3, <1>4, <1>5, <1>6, <1>7, <1>8 DEF LInv

\* LogAppend keeps LInv.
LEMMA LogAppendInv ==
    ASSUME LInv, NEW p \in Process, LogAppend(p)
    PROVE  LInv'
<1> USE LogAssumption DEF LogAppend, LogGoto, diskVars, cacheVars, logVars, opVars, sysVars
<1>a. Active' = Active BY DEF Active, InOp
<1>blk. \A q \in Process : lpc[q] \notin CommitPc
  BY DEF LInv, Phase, Active, InOp
<1>c. buf[p] \in wrote[p] /\ buf[p] \in Block /\ buf[p] # NoBlock
  BY DEF LInv, LogTypeOK, Buffers
<1>d. CASE buf[p] \in Logged
  <2>1. UNCHANGED <<lh, pins>> BY <1>d DEF Logged
  <2>2. Paid' = Paid /\ Logged' = Logged BY <2>1 DEF Paid, Logged
  <2>3. LogTypeOK' /\ Phase' /\ Buffers'
    BY SMTT(30), <1>a, <2>1 DEF LInv, LogTypeOK, LogPCs, Phase, Buffers, CommitPc, InOp
  <2>4. Reserved' BY <2>1, <2>2 DEF LInv, Reserved
  <2>5. Headers' BY <1>blk, <2>1 DEF LInv, LogTypeOK, Headers, CommitPc
  <2>6. Clean' BY <1>d, <2>2 DEF LInv, Clean
  <2>7. Installed' BY <1>blk DEF Installed, CommitPc
  <2>8. SleeperHasWaker' BY DEF LInv, SleeperHasWaker
  <2> QED BY <2>3, <2>4, <2>5, <2>6, <2>7, <2>8 DEF LInv
<1>e. CASE buf[p] \notin Logged
  <2>1. lh' = Append(lh, buf[p]) /\ pins' = [pins EXCEPT ![buf[p]] = @ + 1] BY <1>e DEF Logged
  <2>14. /\ DOMAIN lh' = DOMAIN lh \cup {Len(lh) + 1} /\ DOMAIN lh = 1..Len(lh) /\ Len(lh) \in Nat
        /\ \A k \in DOMAIN lh : lh'[k] = lh[k]
        /\ lh'[Len(lh) + 1] = buf[p]
    BY SMTT(30), <1>c, <2>1, AppendEntry DEF LInv, LogTypeOK
  <2>2. Logged' = Logged \cup {buf[p]} BY <2>14 DEF Logged
  <2>3. LogTypeOK' BY <1>c, <2>1 DEF LInv, LogTypeOK, LogPCs
  <2>4. Phase' BY SMTT(30), <1>a DEF LInv, LogTypeOK, Phase, CommitPc, InOp
  <2>5. Buffers' BY DEF LInv, LogTypeOK, Buffers, InOp
  <2>6. /\ IsFiniteSet(Paid') /\ Cardinality(Paid') \in Nat
        /\ Cardinality(Paid') <= outstanding * MAXOPBLOCKS
    BY <2>3, <2>4, <2>5, PaidBoundNext DEF PaidWithin
  <2>7. Cardinality(Paid) + 1 <= Cardinality(Paid')
    <3> DEFINE x == <<p, buf[p]>>
    <3>1. x \notin Paid BY <1>e DEF Paid
    <3>2. Paid \cup {x} \in SUBSET Paid' BY <1>c, <2>2 DEF Paid
    <3> HIDE DEF x
    <3>3. IsFiniteSet(Paid) /\ Cardinality(Paid) \in Nat BY PaidBound DEF LInv, PaidWithin
    <3>4. Cardinality(Paid \cup {x}) = Cardinality(Paid) + 1 BY <3>1, <3>3, FS_AddElement
    <3>5. Cardinality(Paid \cup {x}) <= Cardinality(Paid') BY <2>6, <3>2, FS_Subset
    <3> QED BY <3>4, <3>5
  <2>8. Len(lh') = Len(lh) + 1 /\ Len(lh) \in Nat /\ outstanding * MAXOPBLOCKS \in Nat
    BY <2>1 DEF LInv, LogTypeOK
  <2>9. Reserved'
    <3>1. Cardinality(Paid) \in Nat BY PaidBound DEF LInv, PaidWithin
    <3> QED BY <2>6, <2>7, <2>8, <3>1 DEF LInv, Reserved
  <2>10. Headers'
    <3>1. Len(lh') <= LOGSIZE BY <2>6, <2>8, <2>9 DEF Reserved
    <3>2. Distinct(lh') BY <1>e, <2>14 DEF LInv, Headers, Distinct, Logged
    <3>3. outstanding # 0 BY Outstanding DEF LInv, Active, InOp
    <3> QED BY <1>blk, <3>1, <3>2, <3>3 DEF LInv, Headers, CommitPc
  <2>11. Clean' BY <2>2 DEF LInv, Clean
  <2>12. Installed' BY <1>blk DEF Installed, CommitPc
  <2>13. SleeperHasWaker' BY DEF LInv, SleeperHasWaker
  <2> QED BY <2>3, <2>4, <2>5, <2>9, <2>10, <2>11, <2>12, <2>13 DEF LInv
<1> QED BY <1>d, <1>e

-----------------------------------------------------------------------------
\* end_op(), commit() and recovery.
LEMMA EndOpInv ==
    ASSUME LInv, NEW p \in Process, EndOp(p)
    PROVE  LInv'
<1> USE LogAssumption DEF EndOp, LogGoto, diskVars, cacheVars, logVars, opVars, sysVars
<1>a. Active' = Active \ {p} /\ p \in Active
  BY DEF Active, InOp, LInv, LogTypeOK
<1>blk. ~committing /\ mode' = "up" /\ \A q \in Process : lpc[q] \notin CommitPc
  BY <1>a DEF LInv, Phase
<1>c. outstanding' = Cardinality(Active')
  <2>1. Cardinality(Active') = Cardinality(Active) - 1
    BY <1>a, ActiveFinite, FS_RemoveElement
  <2> QED BY <2>1 DEF LInv, Phase
<1>d. outstanding = 1 => Active' = {} BY <1>a, Outstanding DEF LInv
<1>e. outstanding \in Nat \ {0} BY <1>a, Outstanding DEF LInv, LogTypeOK
<1>f. buf[p] = NoBlock BY DEF LInv, Buffers
<1>1. LogTypeOK'
  <2>1. outstanding' \in 0..Cardinality(Process)
    BY <1>c, ActiveSubset DEF Active
  <2>2. lpc' \in [Process -> LogPCs] BY DEF LInv, LogTypeOK, LogPCs
  <2>5. tail' \in [Process -> 0..LOGSIZE] BY DEF LInv, LogTypeOK
  <2>3. wrote' \in [Process -> SUBSET Block] BY DEF LInv, LogTypeOK
  <2>4. committing' \in BOOLEAN /\ asleep' \subseteq Process BY DEF LInv, LogTypeOK
  <2> QED BY <1>blk, <2>1, <2>2, <2>3, <2>4, <2>5 DEF LInv, LogTypeOK
<1>2. Phase'
  <2>1. CASE outstanding = 1
    BY <1>blk, <1>c, <1>d, <2>1 DEF LInv, LogTypeOK, Phase, CommitPc
  <2>2. CASE outstanding # 1
    BY <1>blk, <1>c, <2>2 DEF LInv, LogTypeOK, Phase, CommitPc
  <2> QED BY <2>1, <2>2
<1>3. Buffers'
  <2>1. IsFiniteSet({}) /\ Cardinality({}) <= MAXOPBLOCKS BY FS_EmptySet
  <2> QED BY <2>1 DEF LInv, LogTypeOK, Buffers
<1>4. Reserved'
  <2> DEFINE own == {p} \X wrote[p]
  <2>1. Paid \in SUBSET (Paid' \cup own) BY DEF Paid, Logged
  <2>2. IsFiniteSet(own) /\ Cardinality(own) \in 0..MAXOPBLOCKS
    <3>1. IsFiniteSet(wrote[p]) /\ Cardinality(wrote[p]) <= MAXOPBLOCKS BY DEF LInv, Buffers
    <3>2. IsFiniteSet({p}) /\ Cardinality({p}) = 1 BY FS_Singleton
    <3>3. IsFiniteSet(own) /\ Cardinality(own) = 1 * Cardinality(wrote[p])
      BY <3>1, <3>2, FS_Product
    <3> QED BY <3>1, <3>3, FS_CardinalityType
  <2> HIDE DEF own
  <2>3. IsFiniteSet(Paid') /\ Cardinality(Paid') \in Nat
    BY <1>1, <1>2, <1>3, PaidBoundNext DEF PaidWithin
  <2>4. IsFiniteSet(Paid' \cup own) /\ Cardinality(Paid' \cup own) <= Cardinality(Paid') + Cardinality(own)
    <3>1. /\ IsFiniteSet(Paid' \cup own)
          /\ Cardinality(Paid' \cup own) = Cardinality(Paid') + Cardinality(own) - Cardinality(Paid' \cap own)
      BY <2>2, <2>3, FS_Union
    <3>2. Paid' \cap own \in SUBSET own OBVIOUS
    <3>3. Cardinality(Paid' \cap own) \in Nat BY <2>2, FS_Subset, FS_CardinalityType
    <3> QED BY <2>2, <2>3, <3>1, <3>3
  <2>5. Cardinality(Paid) <= Cardinality(Paid' \cup own) BY <2>1, <2>4, FS_Subset
  <2>6. Cardinality(Paid) \in Nat /\ Cardinality(Paid' \cup own) \in Nat
    BY <2>4, PaidBound, FS_CardinalityType DEF LInv, PaidWithin
  <2>7. /\ (outstanding - 1) * MAXOPBLOCKS = outstanding * MAXOPBLOCKS - MAXOPBLOCKS
        /\ outstanding * MAXOPBLOCKS \in Nat
    BY <1>e
  <2>8. Len(lh) \in Nat /\ Len(lh) + outstanding * MAXOPBLOCKS <= LOGSIZE + Cardinality(Paid)
    BY DEF LInv, Reserved
  <2> HIDE DEF EndOp
  <2>9. Len(lh) + (outstanding - 1) * MAXOPBLOCKS <= LOGSIZE + Cardinality(Paid')
    BY SMTT(30), <2>2, <2>3, <2>4, <2>5, <2>6, <2>7, <2>8
  <2> QED BY <2>9 DEF Reserved, EndOp
<1>5. Headers'
  BY SMTT(30), <1>blk DEF LInv, LogTypeOK, Headers, Distinct, CommitPc
<1>6. Clean'
  <2>1. UNCHANGED <<lh, cache, home, buf>> /\ mode # "boot" /\ mode' # "boot" BY <1>blk, <1>f
  <2> QED BY <2>1 DEF LInv, Clean, Logged
<1>7. Installed'
  BY <1>blk DEF LInv, LogTypeOK, Installed, CommitPc
<1>8. SleeperHasWaker'
  BY DEF SleeperHasWaker
<1> QED BY <1>1, <1>2, <1>3, <1>4, <1>5, <1>6, <1>7, <1>8 DEF LInv

\* EndCommit keeps LInv.
LEMMA EndCommitInv ==
    ASSUME LInv, NEW p \in Process, EndCommit(p)
    PROVE  LInv'
<1> USE LogAssumption DEF EndCommit, LogGoto, diskVars, cacheVars, logVars, opVars, sysVars
<1>a. Active' = Active BY DEF Active, InOp
<1>1. LogTypeOK'
  BY DEF LInv, LogTypeOK, LogPCs
<1>2. Phase'
  BY <1>a DEF LInv, LogTypeOK, Phase, CommitPc
<1>3. Buffers'
  BY DEF LInv, Buffers, InOp
<1>4. Reserved'
  BY DEF LInv, Reserved, Paid, Logged
<1>5. Headers'
  BY DEF LInv, LogTypeOK, Headers, Distinct, InOp
<1>6. Clean'
  BY DEF LInv, LogTypeOK, Clean, Logged
<1>7. Installed'
  BY DEF LInv, Installed
<1>8. SleeperHasWaker'
  BY DEF SleeperHasWaker
<1> QED BY <1>1, <1>2, <1>3, <1>4, <1>5, <1>6, <1>7, <1>8 DEF LInv

\* WriteLog keeps LInv.
LEMMA WriteLogInv ==
    ASSUME LInv, NEW p \in Process, WriteLog(p)
    PROVE  LInv'
<1> USE LogAssumption DEF WriteLog, LogGoto, diskVars, cacheVars, logVars, opVars, sysVars
<1>a. Active' = Active BY DEF Active
<1>blk. \A q \in Process : lpc[q] # "install"
  BY DEF LInv, Phase, CommitPc
<1>1. LogTypeOK'
  <2>1. tail[p] + 1 \in 1..LOGSIZE /\ lh[tail[p] + 1] \in Block
    BY SMTT(30) DEF LInv, LogTypeOK, Headers
  <2> QED BY SMTT(30), <2>1 DEF LInv, LogTypeOK
<1>2. Phase'
  BY <1>a DEF LInv, LogTypeOK, Phase, CommitPc, InOp
<1>3. Buffers'
  BY DEF LInv, LogTypeOK, Buffers, InOp
<1>4. Reserved'
  BY DEF LInv, Reserved, Paid, Logged
<1>5. Headers'
  BY DEF LInv, LogTypeOK, Headers, Distinct, InOp
<1>6. Clean'
  BY DEF LInv, LogTypeOK, Clean, Logged
<1>7. Installed'
  BY <1>blk DEF Installed
<1>8. SleeperHasWaker'
  BY DEF LInv, SleeperHasWaker
<1> QED BY <1>1, <1>2, <1>3, <1>4, <1>5, <1>6, <1>7, <1>8 DEF LInv

\* WriteHead keeps LInv.
LEMMA WriteHeadInv ==
    ASSUME LInv, NEW p \in Process, WriteHead(p)
    PROVE  LInv'
<1> USE LogAssumption DEF WriteHead, LogGoto, diskVars, cacheVars, logVars, opVars, sysVars
<1>a. Active' = Active BY DEF Active, InOp
<1>1. LogTypeOK'
  BY DEF LInv, LogTypeOK, LogPCs
<1>2. Phase'
  BY <1>a DEF LInv, Phase, CommitPc
<1>3. Buffers'
  BY DEF LInv, Buffers, InOp
<1>4. Reserved'
  BY DEF LInv, Reserved, Paid, Logged
<1>5. Headers'
  BY DEF LInv, LogTypeOK, Headers, Distinct, InOp
<1>6. Clean'
  BY DEF LInv, LogTypeOK, Clean, Logged
<1>7. Installed'
  BY DEF LInv, LogTypeOK, Installed
<1>8. SleeperHasWaker'
  BY DEF LInv, SleeperHasWaker
<1> QED BY <1>1, <1>2, <1>3, <1>4, <1>5, <1>6, <1>7, <1>8 DEF LInv

\* InstallTrans keeps LInv.
LEMMA InstallTransInv ==
    ASSUME LInv, NEW p \in Process, InstallTrans(p)
    PROVE  LInv'
<1> USE LogAssumption DEF InstallTrans, LogGoto, diskVars, cacheVars, logVars, opVars, sysVars
<1>a. Active' = Active BY DEF Active
<1>blk. /\ tail[p] + 1 \in DOMAIN lh /\ lh[tail[p] + 1] \in Block
      /\ tail[p] + 1 \in 1..LOGSIZE
  BY SMTT(30) DEF LInv, LogTypeOK, Headers
<1>c. \A q \in Process : lpc[q] = "install" => q = p BY DEF LInv, Phase, CommitPc
<1>1. LogTypeOK'
  <2>1. logblk[tail[p] + 1] \in Val BY <1>blk DEF LInv, LogTypeOK
  <2>2. home' \in [Block -> Val] /\ cache' \in [Block -> Val] BY <1>blk, <2>1 DEF LInv, LogTypeOK
  <2>3. pins' \in [Block -> Int] BY SMTT(30), <1>blk DEF LInv, LogTypeOK
  <2>4. tail' \in [Process -> 0..LOGSIZE] BY SMTT(30), <1>blk DEF LInv, LogTypeOK
  <2> QED BY <2>2, <2>3, <2>4 DEF LInv, LogTypeOK
<1>2. Phase'
  BY <1>a DEF LInv, LogTypeOK, Phase, CommitPc, InOp
<1>3. Buffers'
  BY DEF LInv, LogTypeOK, Buffers, InOp
<1>4. Reserved'
  BY DEF LInv, Reserved, Paid, Logged
<1>5. Headers'
  BY DEF LInv, LogTypeOK, Headers, Distinct, InOp
<1>6. Clean'
  BY <1>blk DEF LInv, LogTypeOK, Clean, Logged
<1>7. Installed'
  <2> SUFFICES ASSUME NEW j \in DOMAIN lh, j <= tail[p] + 1
               PROVE  home'[lh[j]] = logblk[j] /\ cache'[lh[j]] = logblk[j]
    BY SMTT(30), <1>blk, <1>c DEF LInv, LogTypeOK, Installed
  <2>1. lh[j] \in Block /\ j \in Nat BY LhBlocks DEF LInv
  <2>2. CASE j = tail[p] + 1 BY <2>2 DEF LInv, LogTypeOK
  <2>3. CASE j # tail[p] + 1
    <3>1. lh[j] # lh[tail[p] + 1] BY <1>blk, <2>3 DEF LInv, Headers, Distinct
    <3>2. j <= tail[p] BY SMTT(30), <2>3 DEF LInv, LogTypeOK
    <3> QED BY <2>1, <3>1, <3>2 DEF LInv, LogTypeOK, Installed
  <2> QED BY <2>2, <2>3
<1>8. SleeperHasWaker'
  BY DEF LInv, SleeperHasWaker
<1> QED BY <1>1, <1>2, <1>3, <1>4, <1>5, <1>6, <1>7, <1>8 DEF LInv

\* EraseLog keeps LInv.
LEMMA EraseLogInv ==
    ASSUME LInv, NEW p \in Process, EraseLog(p)
    PROVE  LInv'
<1> USE LogAssumption DEF EraseLog, LogGoto, diskVars, cacheVars, logVars, opVars, sysVars
<1>a. Active' = Active BY DEF Active, InOp
<1>blk. /\ \A q \in Process : lpc[q] \notin InOp /\ buf[q] = NoBlock /\ wrote[q] = {}
      /\ Active = {} /\ outstanding = 0
  <2>1. \A q \in Process : lpc[q] \notin InOp
    BY DEF LInv, Phase, Active, InOp, CommitPc
  <2>2. Active = {} BY <2>1 DEF Active
  <2> QED BY <2>1, <2>2, Outstanding DEF LInv, Buffers
<1>1. LogTypeOK'
  BY DEF LInv, LogTypeOK, LogPCs
<1>2. Phase'
  BY SMTT(30), <1>a DEF LInv, LogTypeOK, Phase, CommitPc, InOp
<1>3. Buffers'
  BY DEF LInv, Buffers, InOp
<1>4. Reserved'
  <2>1. Paid' = {} BY <1>blk DEF Paid
  <2>2. Cardinality(Paid') = 0 BY <2>1, FS_EmptySet
  <2> QED BY <1>blk, <2>2 DEF Reserved
<1>5. Headers'
  BY DEF Headers, Distinct
<1>6. Clean'
  <2> SUFFICES ASSUME NEW c \in Block PROVE cache[c] = home[c]
    BY DEF Clean
  <2>1. CASE c \in Logged
    <3>1. PICK k \in DOMAIN lh : lh[k] = c BY <2>1 DEF Logged
    <3>2. k <= tail[p] OBVIOUS
    <3> QED BY <3>1 DEF LInv, Installed
  <2>2. CASE c \notin Logged BY <1>blk, <2>2 DEF LInv, Clean
  <2> QED BY <2>1, <2>2
<1>7. Installed'
  BY DEF Installed
<1>8. SleeperHasWaker'
  <2>1. CASE mode = "boot"
    <3>1. asleep = {} BY <2>1 DEF LInv, LogTypeOK, Phase
    <3> QED BY <3>1 DEF SleeperHasWaker
  <2>2. CASE mode # "boot"
    <3>1. committing BY <2>2 DEF LInv, Phase, CommitPc
    <3> QED BY <3>1 DEF SleeperHasWaker
  <2> QED BY <2>1, <2>2
<1> QED BY <1>1, <1>2, <1>3, <1>4, <1>5, <1>6, <1>7, <1>8 DEF LInv

\* Recover keeps LInv.
LEMMA RecoverInv ==
    ASSUME LInv, NEW p \in Process, Recover(p)
    PROVE  LInv'
<1> USE LogAssumption DEF Recover, LogGoto, diskVars, cacheVars, logVars, opVars, sysVars
<1>a. Active' = Active BY DEF Active, InOp
<1>blk. /\ \A q \in Process : lpc[q] \notin InOp /\ buf[q] = NoBlock /\ wrote[q] = {}
      /\ Active = {} /\ outstanding = 0
  <2>1. \A q \in Process : lpc[q] \notin InOp
    BY DEF LInv, Phase, InOp
  <2>2. Active = {} BY <2>1 DEF Active
  <2> QED BY <2>1, <2>2, Outstanding DEF LInv, Buffers
<1>1. LogTypeOK'
  BY DEF LInv, LogTypeOK, LogPCs
<1>2. Phase'
  BY <1>a DEF LInv, Phase, CommitPc
<1>3. Buffers'
  BY DEF LInv, Buffers, InOp
<1>4. Reserved'
  <2>1. Paid' = {} BY <1>blk DEF Paid
  <2>2. Cardinality(Paid') = 0 BY <2>1, FS_EmptySet
  <2> QED BY <1>blk, <2>2 DEF LInv, Headers, Reserved
<1>5. Headers'
  BY DEF LInv, Headers
<1>6. Clean'
  BY DEF LInv, Clean
<1>7. Installed'
  <2>1. tail[p] = 0 /\ \A q \in Process : lpc'[q] = "install" => q = p
    BY DEF LInv, LogTypeOK, Phase
  <2>2. \A k \in DOMAIN lh' : k \in Nat /\ k > 0 BY LhBlocks
  <2>3. \A q \in Process, k \in DOMAIN lh' : ~ (lpc'[q] = "install" /\ k <= tail'[q]) BY <2>1, <2>2
  <2> QED BY <2>3 DEF Installed
<1>8. SleeperHasWaker'
  BY DEF SleeperHasWaker
<1> QED BY <1>1, <1>2, <1>3, <1>4, <1>5, <1>6, <1>7, <1>8 DEF LInv

-----------------------------------------------------------------------------
\* Evict keeps LInv.
LEMMA EvictInv ==
    ASSUME LInv, NEW blk \in Block, Evict(blk)
    PROVE  LInv'
<1> USE LogAssumption DEF Evict, LogGoto, diskVars, cacheVars, logVars, opVars, sysVars
<1>a. Active' = Active BY DEF Active
<1>1. LogTypeOK'
  BY DEF LInv, LogTypeOK
<1>2. Phase'
  BY <1>a DEF LInv, Phase
<1>3. Buffers'
  BY DEF LInv, Buffers
<1>4. Reserved'
  BY DEF LInv, Reserved, Paid, Logged
<1>5. Headers'
  BY DEF LInv, Headers
<1>6. Clean'
  BY DEF LInv, LogTypeOK, Clean, Logged
<1>7. Installed'
  BY DEF LInv, Installed
<1>8. SleeperHasWaker'
  BY DEF LInv, SleeperHasWaker
<1> QED BY <1>1, <1>2, <1>3, <1>4, <1>5, <1>6, <1>7, <1>8 DEF LInv

\* Crash keeps LInv.
LEMMA CrashInv ==
    ASSUME LInv, Crash
    PROVE  LInv'
<1> USE LogAssumption DEF Crash, BootPC, LogGoto, diskVars, cacheVars, logVars, opVars, sysVars
<1>a. Active' = {} BY DEF Active, InOp
<1>blk. /\ IsFiniteSet({}) /\ Cardinality({}) = 0 /\ Cardinality(Process) \in Nat
  BY FS_EmptySet, FS_CardinalityType
<1>1. LogTypeOK'
  <2>1. 0 \in 0..LOGSIZE /\ 0 \in 0..Cardinality(Process) BY <1>blk
  <2>2. /\ lpc' \in [Process -> LogPCs] /\ tail' \in [Process -> 0..LOGSIZE] /\ pins' \in [Block -> Int]
        /\ buf' \in [Process -> Block \cup {NoBlock}] /\ wrote' \in [Process -> SUBSET Block]
    BY DEF LogPCs
  <2>3. outstanding' \in 0..Cardinality(Process) /\ crashes' \in 0..MaxCrash BY <2>1 DEF LInv, LogTypeOK
  <2>4. lh' \in Seq(Block) /\ asleep' \subseteq Process OBVIOUS
  <2>7. committing' \in BOOLEAN OBVIOUS
  <2>5. /\ home' \in [Block -> Val] /\ hdr' \in Seq(Block) /\ cache' \in [Block -> Val]
        /\ logblk' \in [1..LOGSIZE -> Val]
    BY DEF LInv, LogTypeOK
  <2>6. mode' \in {"boot", "up", "panic"} OBVIOUS
  <2> QED BY <2>2, <2>3, <2>5, <2>7 DEF LogTypeOK
<1>2. Phase'
  BY <1>a, <1>blk DEF Phase, CommitPc
<1>3. Buffers'
  BY <1>blk DEF Buffers
<1>4. Reserved'
  <2>1. Paid' = {} BY DEF Paid
  <2>2. Cardinality(Paid') = 0 BY <1>blk, <2>1
  <2> QED BY <2>2 DEF Reserved
<1>5. Headers'
  BY DEF LInv, Headers, Distinct
<1>6. Clean'
  BY DEF Clean
<1>7. Installed'
  BY DEF Installed
<1>8. SleeperHasWaker'
  BY DEF SleeperHasWaker
<1> QED BY <1>1, <1>2, <1>3, <1>4, <1>5, <1>6, <1>7, <1>8 DEF LInv

-----------------------------------------------------------------------------
\* A disk as mkfs leaves it satisfies the invariant ...
LEMMA InitLInv == LogInit => LInv
<1> SUFFICES ASSUME LogInit PROVE LInv OBVIOUS
<1> USE LogAssumption DEF LogInit, BootPC
<1>a. Active = {} BY DEF Active, InOp
<1>blk. /\ IsFiniteSet({}) /\ Cardinality({}) = 0 /\ Cardinality(Process) \in Nat
  BY FS_EmptySet, FS_CardinalityType
<1>1. LogTypeOK
  <2>1. (CHOOSE x \in Val : TRUE) \in Val BY Zenon
  <2>2. home \in [Block -> Val] /\ logblk \in [1..LOGSIZE -> Val] /\ cache \in [Block -> Val] BY <2>1
  <2>3. 0 \in 0..LOGSIZE /\ 0 \in 0..Cardinality(Process) /\ 0 \in 0..MaxCrash BY <1>blk
  <2>4. /\ lpc \in [Process -> LogPCs] /\ tail \in [Process -> 0..LOGSIZE] /\ pins \in [Block -> Int]
        /\ buf \in [Process -> Block \cup {NoBlock}] /\ wrote \in [Process -> SUBSET Block]
    BY <2>3 DEF LogPCs
  <2>5. hdr \in Seq(Block) /\ lh \in Seq(Block) /\ asleep \subseteq Process OBVIOUS
  <2>6. committing \in BOOLEAN OBVIOUS
  <2> QED BY <2>2, <2>3, <2>4, <2>5, <2>6 DEF LogTypeOK
<1>2. Phase BY <1>a, <1>blk DEF Phase, CommitPc
<1>3. Buffers BY <1>blk DEF Buffers
<1>4. Reserved
  <2>1. Paid = {} BY DEF Paid
  <2>2. Cardinality(Paid) = 0 BY <1>blk, <2>1
  <2> QED BY <2>2 DEF Reserved
<1>5. Headers BY DEF Headers, Distinct
<1>6. Clean /\ Installed /\ SleeperHasWaker BY DEF Clean, Installed, SleeperHasWaker
<1> QED BY <1>1, <1>2, <1>3, <1>4, <1>5, <1>6 DEF LInv

\* ... and every step keeps it.
LEMMA StepLInv == LInv /\ [LogNext]_redoVars => LInv'
<1> SUFFICES ASSUME LInv, [LogNext]_redoVars PROVE LInv' OBVIOUS
<1>1. ASSUME NEW p \in Process, Step(p) PROVE LInv'
  BY <1>1, BeginWaitInv, BeginOpInv, LogCheckInv, LogAppendInv, EndOpInv, EndCommitInv, WriteLogInv,
     WriteHeadInv, InstallTransInv, EraseLogInv, RecoverInv DEF Step
<1>2. ASSUME NEW p \in Process, BeginCall(p) PROVE LInv' BY <1>2, BeginCallInv
<1>3. ASSUME NEW p \in Process, NEW blk \in Block, NEW v \in Val, Modify(p, blk, v) PROVE LInv'
  BY <1>3, ModifyInv
<1>4. ASSUME NEW blk \in Block, Evict(blk) PROVE LInv' BY <1>4, EvictInv
<1>5. CASE Crash BY <1>5, CrashInv
<1>6. CASE UNCHANGED redoVars
  <2> USE <1>6 DEF redoVars, diskVars, cacheVars, logVars, opVars, sysVars, LInv
  <2>1. LogTypeOK' /\ Phase' /\ Buffers' BY DEF LogTypeOK, Phase, Buffers, Active
  <2>2. Reserved' /\ Headers' BY DEF Reserved, Headers, Paid, Logged
  <2>3. Clean' /\ Installed' /\ SleeperHasWaker' BY DEF Clean, Installed, SleeperHasWaker, Logged
  <2> QED BY <2>1, <2>2, <2>3
<1> QED BY <1>1, <1>2, <1>3, <1>4, <1>5, <1>6 DEF LogNext

\* LInv holds in every reachable state of the log (log.c as a whole).
THEOREM LogInvariant == LogSpec => []LInv
BY InitLInv, StepLInv, PTL DEF LogSpec

\* The header holds block numbers and the counters are those of struct log.
THEOREM LogTypeCorrect == LogSpec => []LogTypeOK
BY LogInvariant, PTL DEF LInv

\* Whoever sleeps in begin_op() has somebody left to wake it.
THEOREM LogSleeperHasWaker == LogSpec => []SleeperHasWaker
BY LogInvariant, PTL DEF LInv

\* The log fits its place in memory and on disk and holds no block twice, if the log
\* on disk has a block for each of the LOGSIZE entries besides the header's, which
\* begin_op() counts on.
THEOREM LogAlwaysFits == ASSUME LOGSIZE <= nlog - 1 PROVE LogSpec => []LogFits
<1>1. LInv => LogFits
  BY LogAssumption, LOGSIZE <= nlog - 1 DEF LInv, LogTypeOK, Headers, Distinct, LogFits
<1> QED BY <1>1, LogInvariant, PTL

\* When the last end_op() has returned, memory and disk agree and the log is empty.
THEOREM LogDurableOnReturn == LogSpec => []DurableOnReturn
<1>1. LInv => DurableOnReturn
  <2> SUFFICES ASSUME LInv, mode = "up", outstanding = 0, ~committing
               PROVE  cache = home /\ hdr = <<>> /\ lh = <<>>
    BY DEF DurableOnReturn
  <2>1. \A p \in Process : lpc[p] \notin CommitPc BY DEF LInv, Phase
  <2>2. hdr = <<>> /\ lh = <<>> BY <2>1 DEF LInv, Headers, CommitPc
  <2>3. \A p \in Process : buf[p] = NoBlock
    BY Outstanding DEF LInv, Active, InOp, Buffers
  <2>4. \A blk \in Block : cache[blk] = home[blk] BY <2>2, <2>3, LogAssumption DEF LInv, Clean, Logged
  <2> QED BY <2>2, <2>4 DEF LInv, LogTypeOK
<1> QED BY <1>1, LogInvariant, PTL

-----------------------------------------------------------------------------
(***************************************************************************)
(* The contents of the log, and the refinement.                            *)
(***************************************************************************)

\* Blocks are not evicted, or no transaction is ever recovered.
PinsTrusted == Evictions => MaxCrash = 0

\* Outside commit() nothing is claimed of the log's blocks.
LEMMA CopiedIdle ==
    ASSUME \A q \in Process : lpc'[q] \notin {"log", "install"}
    PROVE  Copied'
BY DEF Copied

\* Outside install_trans() every block of the log is pinned.
LEMMA PendingIdle ==
    ASSUME \A q \in Process : lpc[q] # "install", NEW blk
    PROVE  Pending(blk) <=> blk \in Logged
BY DEF Pending, Logged

\* A step before or after commit() that changes neither the log nor a pin.
LEMMA QuietStep ==
    ASSUME PinsExact, UNCHANGED <<lh, hdr, pins>>, mode' = "boot" => mode = "boot",
           \A q \in Process : lpc[q] # "install", \A q \in Process : lpc'[q] # "install"
    PROVE  PinsExact'
<1>1. \A blk : Pending(blk)' <=> Pending(blk) BY DEF Pending
<1> QED BY <1>1 DEF PinsExact

\* What a block that may be evicted holds is on disk.
LEMMA EvictSafe ==
    ASSUME DInv, NEW blk \in Block, Evict(blk)
    PROVE  cache' = cache
<1> USE DEF DInv
<1>1. cache[blk] = home[blk]
  <2>1. CASE blk \notin Logged BY <2>1 DEF LInv, Clean, Evict
  <2>2. CASE blk \in Logged
    <3>1. PICK k \in DOMAIN lh : lh[k] = blk BY <2>2 DEF Logged
    <3>2. ~ Pending(blk) BY DEF PinsExact, Evict
    <3>3. PICK p \in Process : lpc[p] = "install" /\ ~ (tail[p] < k) BY <3>1, <3>2 DEF Pending
    <3>4. k <= tail[p] BY <3>3, LhBlocks DEF LInv, LogTypeOK
    <3> QED BY <3>1, <3>3, <3>4 DEF LInv, Installed
  <2> QED BY <2>1, <2>2
<1> QED BY <1>1 DEF Evict, LInv, LogTypeOK

\* Every step keeps DInv.
LEMMA StepDInv ==
    ASSUME PinsTrusted, DInv, LInv', [LogNext]_redoVars
    PROVE  DInv'
<1> USE LogAssumption DEF DInv, LogGoto, diskVars, cacheVars, logVars, opVars, sysVars
<1>0. LogTypeOK /\ LogTypeOK' BY DEF LInv
<1>1. ASSUME NEW p \in Process, BeginCall(p) \/ BeginWait(p) PROVE Copied' /\ PinsExact'
  <2>1. \A q \in Process : lpc'[q] \in {"log", "install"} => lpc'[q] = lpc[q]
    BY <1>0, <1>1 DEF BeginCall, BeginWait, LogTypeOK
  <2>2. \A q \in Process : lpc[q] = "install" <=> lpc'[q] = "install"
    BY <1>0, <1>1 DEF BeginCall, BeginWait, LogTypeOK
  <2>3. Copied' BY <1>1, <2>1 DEF BeginCall, BeginWait, Copied
  <2>4. \A blk : Pending(blk)' <=> Pending(blk) BY <1>1, <2>2 DEF BeginCall, BeginWait, Pending
  <2> QED BY <1>1, <2>3, <2>4 DEF BeginCall, BeginWait, PinsExact
<1>2. ASSUME NEW p \in Process,
             BeginOp(p) \/ LogCheck(p) \/ \E blk \in Block, v \in Val : Modify(p, blk, v)
      PROVE  Copied' /\ PinsExact'
  <2>1. \A q \in Process : lpc[q] \notin CommitPc
    BY <1>2 DEF BeginOp, Modify, LogCheck, MustWait, LInv, Phase, Active, InOp
  <2>2. \A q \in Process : lpc'[q] \notin CommitPc
    BY ZenonT(40), <1>0, <1>2, <2>1 DEF BeginOp, Modify, LogCheck, CommitPc, LogTypeOK
  <2>3. Copied' BY <2>2, CopiedIdle DEF CommitPc
  <2>4. UNCHANGED <<lh, hdr, pins>> /\ mode' # "boot" BY <1>2 DEF BeginOp, Modify, LogCheck
  <2> QED BY <2>1, <2>2, <2>3, <2>4, QuietStep DEF CommitPc
<1>3. ASSUME NEW p \in Process, LogAppend(p) PROVE Copied' /\ PinsExact'
  <2>1. \A q \in Process : lpc[q] \notin CommitPc
    BY <1>3 DEF LogAppend, LInv, Phase, Active, InOp
  <2>2. \A q \in Process : lpc'[q] \notin CommitPc
    BY <1>0, <1>3, <2>1 DEF LogAppend, CommitPc, LogTypeOK
  <2>3. Copied' BY <2>2, CopiedIdle DEF CommitPc
  <2>4. CASE buf[p] \in Logged
    <3>1. UNCHANGED <<lh, hdr, pins, mode>> BY <1>3, <2>4 DEF LogAppend, Logged
    <3> QED BY <2>1, <2>2, <2>3, <3>1, QuietStep DEF CommitPc
  <2>5. CASE buf[p] \notin Logged
    <3>1. buf[p] \in Block BY <1>3 DEF LogAppend, LInv, LogTypeOK, Buffers
    <3>2. lh' = Append(lh, buf[p]) /\ pins' = [pins EXCEPT ![buf[p]] = @ + 1]
      BY <1>3, <2>5 DEF LogAppend, Logged
    <3>3. /\ DOMAIN lh' = DOMAIN lh \cup {Len(lh) + 1}
          /\ \A k \in DOMAIN lh : lh'[k] = lh[k]
          /\ lh'[Len(lh) + 1] = buf[p]
      <4>1. lh \in Seq(Block) BY <1>0 DEF LogTypeOK
      <4>2. /\ DOMAIN Append(lh, buf[p]) = DOMAIN lh \cup {Len(lh) + 1}
            /\ \A k \in DOMAIN lh : Append(lh, buf[p])[k] = lh[k]
            /\ Append(lh, buf[p])[Len(lh) + 1] = buf[p]
        BY <3>1, <4>1
      <4> QED BY <3>2, <4>2, Zenon
    <3>4. Logged' = Logged \cup {buf[p]} BY <3>3 DEF Logged
    <3>5. /\ \A blk : Pending(blk) <=> blk \in Logged
          /\ \A blk : Pending(blk)' <=> blk \in Logged'
      BY <2>1, <2>2 DEF CommitPc, Pending, Logged
    <3>6. mode' # "boot" BY <1>3 DEF LogAppend
    <3>7. ASSUME Evictions, NEW blk \in Block PROVE pins'[blk] = IF Pending(blk)' THEN 1 ELSE 0
      <4>1. pins[blk] = IF blk \in Logged THEN 1 ELSE 0 BY <3>5, <3>7 DEF PinsExact
      <4>2. pins'[blk] = IF blk = buf[p] THEN pins[blk] + 1 ELSE pins[blk]
        BY <1>0, <3>1, <3>2 DEF LogTypeOK
      <4> QED BY <2>5, <3>4, <3>5, <4>1, <4>2
    <3> QED BY <2>3, <3>6, <3>7 DEF PinsExact
  <2> QED BY <2>4, <2>5
<1>4. ASSUME NEW p \in Process, EndOp(p) PROVE Copied' /\ PinsExact'
  <2>1. \A q \in Process : lpc[q] \notin CommitPc
    BY <1>4 DEF EndOp, LInv, Phase, Active, InOp
  <2>2. \A q \in Process : lpc'[q] # "install" /\ (lpc'[q] = "log" => tail'[q] = 0)
    BY <1>0, <1>4, <2>1 DEF EndOp, CommitPc, LogTypeOK
  <2>3. \A k \in DOMAIN lh' : k \in Nat /\ k > 0 BY <1>4, <1>0, LhBlocks DEF EndOp
  <2>4. Copied' BY <2>2, <2>3 DEF Copied
  <2>5. UNCHANGED <<lh, hdr, pins>> /\ mode' # "boot" BY <1>4 DEF EndOp
  <2> QED BY <2>1, <2>2, <2>4, <2>5, QuietStep DEF CommitPc
<1>5. ASSUME NEW p \in Process, EndCommit(p) PROVE Copied' /\ PinsExact'
  <2>1. \A q \in Process : lpc[q] \notin {"log", "install"}
    BY <1>5 DEF EndCommit, LInv, Phase, CommitPc
  <2>2. \A q \in Process : lpc'[q] \notin {"log", "install"}
    BY <1>0, <1>5, <2>1 DEF EndCommit, LogTypeOK
  <2>3. UNCHANGED <<lh, hdr, pins, mode>> BY <1>5 DEF EndCommit
  <2> QED BY <2>1, <2>2, <2>3, CopiedIdle, QuietStep
<1>6. ASSUME NEW p \in Process, WriteLog(p) PROVE Copied' /\ PinsExact'
  <2>1. \A q \in Process : lpc[q] # "install" /\ (lpc[q] = "log" => q = p)
    BY <1>6 DEF WriteLog, LInv, Phase, CommitPc
  <2>2. tail[p] + 1 \in 1..LOGSIZE /\ tail[p] \in Nat
    BY <1>0, <1>6 DEF WriteLog, LogTypeOK, LInv, Headers
  <2>3. /\ logblk' = [logblk EXCEPT ![tail[p] + 1] = cache[lh[tail[p] + 1]]]
        /\ tail'[p] = tail[p] + 1 /\ lpc' = lpc /\ lpc[p] = "log"
        /\ UNCHANGED <<lh, hdr, pins, mode, cache>>
    BY <1>0, <1>6 DEF WriteLog, LogTypeOK
  <2>4. ASSUME NEW k \in DOMAIN lh, k <= tail[p] + 1 PROVE cache[lh[k]] = logblk'[k]
    <3>1. k \in Nat BY <1>0, LhBlocks
    <3>2. CASE k = tail[p] + 1 BY <1>0, <2>2, <2>3, <3>2 DEF LogTypeOK
    <3>3. CASE k # tail[p] + 1
      <4>1. k <= tail[p] /\ logblk'[k] = logblk[k] BY SMTT(30), <1>0, <2>2, <2>3, <2>4, <3>1, <3>3 DEF LogTypeOK
      <4> QED BY <2>3, <4>1 DEF Copied
    <3> QED BY <3>2, <3>3
  <2>5. Copied' BY <2>1, <2>3, <2>4 DEF Copied
  <2> QED BY <2>1, <2>3, <2>5, QuietStep
<1>7. ASSUME NEW p \in Process, WriteHead(p) PROVE Copied' /\ PinsExact'
  <2>1. \A q \in Process : lpc[q] # "install" /\ (lpc[q] = "log" => q = p)
    BY <1>7 DEF WriteHead, LInv, Phase, CommitPc
  <2>2. \A q \in Process : lpc'[q] # "log" /\ (lpc'[q] = "install" => q = p)
    BY <1>0, <1>7, <2>1 DEF WriteHead, LogTypeOK
  <2>3. tail'[p] = 0 /\ UNCHANGED <<lh, logblk, cache, pins, mode>> /\ mode # "boot" /\ tail[p] = Len(lh)
    BY <1>0, <1>7 DEF WriteHead, LogTypeOK, LInv, Phase
  <2>4. \A k \in DOMAIN lh : cache[lh[k]] = logblk[k] /\ k \in Nat /\ k > 0
    BY <1>0, <1>7, <2>3, LhBlocks DEF WriteHead, Copied
  <2>5. Copied' BY <2>2, <2>3, <2>4 DEF Copied
  <2>6. \A blk : Pending(blk)' <=> Pending(blk) BY <2>1, <2>2, <2>3, <2>4 DEF Pending
  <2> QED BY <2>3, <2>5, <2>6 DEF PinsExact
<1>8. ASSUME NEW p \in Process, InstallTrans(p) PROVE Copied' /\ PinsExact'
  <2> DEFINE k == tail[p] + 1
  <2>1. k \in DOMAIN lh /\ lh[k] \in Block /\ k \in Nat /\ tail[p] \in Nat
    BY <1>0, <1>8 DEF InstallTrans, LogTypeOK
  <2>2. \A q \in Process : lpc[q] # "log" /\ (lpc[q] = "install" <=> q = p)
    BY <1>8 DEF InstallTrans, LInv, Phase, CommitPc
  <2>3. /\ cache' = [cache EXCEPT ![lh[k]] = logblk[k]] /\ pins' = [pins EXCEPT ![lh[k]] = @ - 1]
        /\ tail'[p] = k /\ UNCHANGED <<hdr, logblk, lh, lpc, mode>>
    BY <1>0, <1>8 DEF InstallTrans, LogTypeOK
  <2>4. \A j \in DOMAIN lh : lh[j] \in Block /\ j \in Nat /\ (j # k => lh[j] # lh[k])
    BY <1>0, <2>1, LhBlocks DEF LInv, Headers, Distinct
  <2> HIDE DEF k
  <2>5. Copied'
    BY <1>0, <2>1, <2>2, <2>3, <2>4 DEF Copied, LogTypeOK
  <2>6. PinsExact'
    <3> PICK c \in Block : c = lh[k] BY <2>1
    <3>1. Pending(c) /\ ~ Pending(c)'
      <4>1. tail[p] < k /\ ~ (tail'[p] < k) BY <2>1, <2>3 DEF k
      <4>2. Pending(c) BY <2>1, <2>2, <4>1 DEF Pending
      <4>3. ASSUME NEW j \in DOMAIN lh, lh[j] = c PROVE ~ (tail'[p] < j)
        BY <2>4, <4>1, <4>3
      <4> QED BY <1>8, <2>2, <2>3, <4>2, <4>3 DEF Pending
    <3>2. ASSUME NEW blk \in Block, blk # c PROVE Pending(blk)' <=> Pending(blk)
      <4>1. \A j \in DOMAIN lh : lh[j] = blk => (tail[p] < j <=> tail'[p] < j)
        BY <2>1, <2>3, <2>4, <3>2 DEF k
      <4> QED BY <2>2, <2>3, <4>1 DEF Pending
    <3>3. ASSUME Evictions, NEW blk \in Block PROVE pins'[blk] = IF Pending(blk)' THEN 1 ELSE 0
      <4>1. pins[blk] = IF Pending(blk) THEN 1 ELSE 0 BY <3>3 DEF PinsExact
      <4>2. pins'[blk] = IF blk = c THEN pins[blk] - 1 ELSE pins[blk]
        BY <1>0, <2>1, <2>3 DEF LogTypeOK
      <4> QED BY <3>1, <3>2, <4>1, <4>2
    <3> QED BY <2>3, <3>3 DEF PinsExact
  <2> QED BY <2>5, <2>6
<1>9. ASSUME NEW p \in Process, EraseLog(p) PROVE Copied' /\ PinsExact'
  <2>1. lh' = <<>> /\ mode' = "up" /\ pins' = pins /\ lpc[p] = "install" /\ tail[p] = Len(lh)
    BY <1>9 DEF EraseLog
  <2>2. \A blk : ~ Pending(blk) BY <1>0, <2>1, LhBlocks DEF Pending, LogTypeOK
  <2>3. \A blk : ~ Pending(blk)' BY <2>1 DEF Pending
  <2>4. Copied' BY <2>1 DEF Copied
  <2> QED BY <2>1, <2>2, <2>3, <2>4 DEF PinsExact
<1>10. ASSUME NEW p \in Process, Recover(p) PROVE Copied' /\ PinsExact'
  <2>1. mode = "boot" /\ mode' = "boot" /\ lh' = hdr /\ UNCHANGED <<hdr, pins>> BY <1>10 DEF Recover
  <2>2. \A q \in Process : lpc'[q] # "log"
    BY <1>0, <1>10 DEF Recover, LInv, Phase, LogTypeOK
  <2>3. Copied' BY <2>1, <2>2 DEF Copied
  <2>4. PinsExact'
    <3> SUFFICES ASSUME Evictions PROVE PinsExact' BY DEF PinsExact
    <3>1. hdr = <<>> /\ lh = <<>> BY <2>1 DEF PinsExact
    <3>2. \A blk : ~ Pending(blk) /\ ~ Pending(blk)' BY <2>1, <3>1 DEF Pending
    <3> QED BY <2>1, <3>1, <3>2 DEF PinsExact
  <2> QED BY <2>3, <2>4
<1>11. ASSUME NEW blk \in Block, Evict(blk) PROVE Copied' /\ PinsExact'
  <2>1. UNCHANGED <<hdr, logblk, cache, pins, lh, lpc, tail, mode>>
    BY <1>11, EvictSafe DEF Evict
  <2> QED BY <2>1 DEF Copied, PinsExact, Pending
<1>12. CASE Crash
  <2>1. ~ Evictions BY <1>0, <1>12 DEF Crash, PinsTrusted, LogTypeOK
  <2>2. Copied' BY <1>12 DEF Crash, Copied
  <2> QED BY <2>1, <2>2 DEF PinsExact
<1>13. CASE UNCHANGED redoVars
  <2> QED BY <1>13 DEF redoVars, Copied, PinsExact, Pending
<1>14. ASSUME NEW p \in Process, Step(p) PROVE Copied' /\ PinsExact'
  BY <1>1, <1>2, <1>3, <1>4, <1>5, <1>6, <1>7, <1>8, <1>9, <1>10, <1>14 DEF Step
<1> QED BY <1>1, <1>2, <1>11, <1>12, <1>13, <1>14 DEF LogNext

\* The initial states satisfy DInv.
LEMMA InitDInv == LogInit => DInv
BY InitLInv, LogAssumption DEF LogInit, DInv, Copied, PinsExact, Pending

\* DInv holds in every reachable state if nothing recovered can be evicted.
LEMMA LogContents == ASSUME PinsTrusted PROVE LogSpec => []DInv
<1>1. DInv /\ [LogNext]_redoVars => DInv'
  BY StepDInv, StepLInv, PinsTrusted DEF DInv
<1> QED BY InitDInv, <1>1, PTL DEF LogSpec

-----------------------------------------------------------------------------
\* What a crash would leave behind: the home blocks, but for those of the header.
LEMMA RecoveredHome ==
    ASSUME LogTypeOK, hdr = <<>>
    PROVE  AfterRecovery = home
BY DEF LogTypeOK, AfterRecovery

RecoveredTo ==
    \A blk \in Block :
        /\ \A k \in DOMAIN hdr : hdr[k] = blk => AfterRecovery[blk] = logblk[k]
        /\ (\A k \in DOMAIN hdr : hdr[k] # blk) => AfterRecovery[blk] = home[blk]

\* What recovery installs in a block.
LEMMA RecoveredBlock == Distinct(hdr) => RecoveredTo
<1> SUFFICES ASSUME Distinct(hdr), NEW blk \in Block
             PROVE  /\ \A k \in DOMAIN hdr : hdr[k] = blk => AfterRecovery[blk] = logblk[k]
                    /\ (\A k \in DOMAIN hdr : hdr[k] # blk) => AfterRecovery[blk] = home[blk]
  BY DEF RecoveredTo
<1>1. ASSUME NEW k \in DOMAIN hdr, hdr[k] = blk PROVE AfterRecovery[blk] = logblk[k]
  <2> DEFINE c == CHOOSE j \in DOMAIN hdr : hdr[j] = blk
  <2>1. c \in DOMAIN hdr /\ hdr[c] = blk BY <1>1
  <2>2. AfterRecovery[blk] = logblk[c] BY <1>1 DEF AfterRecovery
  <2> HIDE DEF c
  <2>3. c = k BY <1>1, <2>1 DEF Distinct
  <2> QED BY <2>2, <2>3
<1>2. ASSUME \A k \in DOMAIN hdr : hdr[k] # blk PROVE AfterRecovery[blk] = home[blk]
  BY <1>2 DEF AfterRecovery
<1> QED BY <1>1, <1>2

\* The same in the next state.
LEMMA RecoveredNext == Distinct(hdr)' => RecoveredTo'
BY RecoveredBlock, PTL

\* The commit point: everything written becomes durable.
LEMMA CommitPoint ==
    ASSUME DInv, LInv', NEW p \in Process, WriteHead(p)
    PROVE  AfterRecovery' = cache
<1> USE DEF DInv
<1>1. hdr' = lh /\ UNCHANGED <<home, logblk>> BY DEF WriteHead
<1>2. LogTypeOK' /\ Distinct(hdr') /\ DOMAIN AfterRecovery' = Block
  BY DEF LInv, Headers, AfterRecovery
<1>3. mode # "boot" /\ tail[p] = Len(lh) /\ lpc[p] = "log" BY DEF WriteHead, LInv, Phase
<1>4. \A q \in Process : buf[q] = NoBlock
  BY <1>3 DEF LInv, Phase, Buffers, CommitPc, Active, InOp
<1>5. ASSUME NEW blk \in Block PROVE AfterRecovery'[blk] = cache[blk]
  <2>1. CASE blk \in Logged
    <3>1. PICK k \in DOMAIN lh : lh[k] = blk BY <2>1 DEF Logged
    <3>2. k <= tail[p] BY <1>3, LhBlocks DEF LInv
    <3>3. cache[blk] = logblk[k] BY <1>3, <3>1, <3>2 DEF Copied
    <3>4. AfterRecovery'[blk] = logblk'[k] BY <1>1, <1>2, <3>1, RecoveredNext DEF RecoveredTo
    <3> QED BY <1>1, <3>3, <3>4
  <2>2. CASE blk \notin Logged
    <3>1. cache[blk] = home[blk] BY <1>4, <2>2, LogAssumption DEF LInv, Clean
    <3>2. AfterRecovery'[blk] = home'[blk] BY <1>1, <1>2, <2>2, RecoveredNext DEF Logged, RecoveredTo
    <3> QED BY <1>1, <3>1, <3>2
  <2> QED BY <2>1, <2>2
<1> QED BY <1>2, <1>5 DEF LInv, LogTypeOK, AfterRecovery

\* install_trans() changes nothing that recovery would not do again.
LEMMA InstallAgain ==
    ASSUME DInv, LInv', NEW p \in Process, InstallTrans(p)
    PROVE  AfterRecovery' = AfterRecovery /\ (mode # "boot" => cache' = cache)
<1> USE DEF DInv
<1> DEFINE k == tail[p] + 1
<1>1. /\ k \in DOMAIN lh /\ lh[k] \in Block /\ hdr = lh
      /\ home' = [home EXCEPT ![lh[k]] = logblk[k]]
      /\ cache' = [cache EXCEPT ![lh[k]] = logblk[k]]
      /\ UNCHANGED <<hdr, logblk>>
  BY DEF InstallTrans, LInv, LogTypeOK, Headers, diskVars
<1> HIDE DEF k
<1>2. ASSUME NEW blk \in Block PROVE AfterRecovery'[blk] = AfterRecovery[blk]
  <2>1. CASE \E j \in DOMAIN hdr : hdr[j] = blk BY <1>1, <2>1 DEF AfterRecovery
  <2>2. CASE ~ \E j \in DOMAIN hdr : hdr[j] = blk
    BY <1>1, <2>2 DEF AfterRecovery, LInv, LogTypeOK
  <2> QED BY <2>1, <2>2
<1>3. AfterRecovery' = AfterRecovery BY <1>2 DEF AfterRecovery
<1>4. mode # "boot" => cache[lh[k]] = logblk[k] BY <1>1 DEF Copied, InstallTrans
<1> QED BY <1>1, <1>3, <1>4 DEF LInv, LogTypeOK

\* write_head() of an empty log: every block is where it belongs.
LEMMA ErasedSafely ==
    ASSUME DInv, LInv', NEW p \in Process, EraseLog(p)
    PROVE  AfterRecovery' = AfterRecovery /\ (mode = "boot" => cache = AfterRecovery)
<1> USE DEF DInv
<1>1. hdr' = <<>> /\ home' = home /\ hdr = lh /\ lpc[p] = "install" /\ tail[p] = Len(lh)
  BY DEF EraseLog, LInv, Headers
<1>2. AfterRecovery' = home BY <1>1 DEF AfterRecovery, LInv, LogTypeOK
<1>3. ASSUME NEW blk \in Block PROVE AfterRecovery[blk] = home[blk]
  <2>1. CASE \E j \in DOMAIN hdr : hdr[j] = blk
    <3>1. PICK j \in DOMAIN lh : lh[j] = blk BY <1>1, <2>1
    <3>2. j <= tail[p] BY <1>1, LhBlocks DEF LInv
    <3>3. home[blk] = logblk[j] BY <1>1, <3>1, <3>2 DEF LInv, Installed
    <3> QED BY <1>1, <3>1, <3>3, RecoveredBlock DEF LInv, Headers, RecoveredTo
  <2>2. CASE ~ \E j \in DOMAIN hdr : hdr[j] = blk BY <2>2 DEF AfterRecovery
  <2> QED BY <2>1, <2>2
<1>4. AfterRecovery = home BY <1>3 DEF AfterRecovery, LInv, LogTypeOK
<1>5. mode = "boot" => cache = home BY DEF LInv, Clean, LogTypeOK
<1> QED BY <1>2, <1>4, <1>5

\* Every step of the log is a step of the atomic disk, or leaves it alone.
LEMMA AtomicStep ==
    DInv /\ LInv' /\ [LogNext]_redoVars => [Atomic!Next]_(Atomic!vars)
<1> SUFFICES ASSUME DInv, LInv', [LogNext]_redoVars PROVE [Atomic!Next]_(Atomic!vars)
  OBVIOUS
<1> USE LogAssumption DEF DInv, LogGoto, diskVars, cacheVars, logVars, opVars, sysVars, InOp
<1>0. LogTypeOK /\ LogTypeOK' BY DEF LInv
<1> DEFINE inop == {p \in Process : lpc[p] \in InOp}
<1>1. ASSUME UNCHANGED <<Memory, AfterRecovery, lpc, buf, crashes>> PROVE UNCHANGED Atomic!vars
  BY <1>1 DEF Atomic!vars
<1>2. ASSUME UNCHANGED <<Memory, AfterRecovery, inop, buf, crashes>> PROVE UNCHANGED Atomic!vars
  BY <1>2 DEF Atomic!vars
<1>3. ASSUME UNCHANGED <<home, hdr, logblk>> PROVE AfterRecovery' = AfterRecovery
  BY <1>3 DEF AfterRecovery
<1>4. ASSUME NEW p \in Process,
             BeginCall(p) \/ BeginWait(p) \/ LogCheck(p) \/ EndCommit(p) \/ Recover(p)
      PROVE  UNCHANGED Atomic!vars
  <2>1. inop' = inop
    BY <1>0, <1>4 DEF BeginCall, BeginWait, LogCheck, EndCommit, Recover, LogTypeOK
  <2>2. Memory' = Memory
    BY <1>3, <1>4 DEF BeginCall, BeginWait, LogCheck, EndCommit, Recover, Memory
  <2>3. UNCHANGED <<home, hdr, logblk, buf, crashes>>
    BY <1>4 DEF BeginCall, BeginWait, LogCheck, EndCommit, Recover
  <2> QED BY <1>2, <1>3, <2>1, <2>2, <2>3
<1>5. ASSUME NEW p \in Process, BeginOp(p) PROVE Atomic!Begin(p)
  <2>1. inop' = inop \cup {p} /\ p \notin inop BY <1>0, <1>5 DEF BeginOp, LogTypeOK
  <2>2. UNCHANGED <<Memory, AfterRecovery, buf, crashes>> BY <1>3, <1>5 DEF BeginOp, Memory
  <2> QED BY <2>1, <2>2 DEF Atomic!Begin
<1>6. ASSUME NEW p \in Process, NEW blk \in Block, NEW v \in Val, Modify(p, blk, v)
      PROVE  Atomic!Write(p, blk, v)
  <2>1. inop' = inop /\ p \in inop BY <1>0, <1>6 DEF Modify, LogTypeOK
  <2>2. Memory = cache /\ Memory' = cache' /\ AfterRecovery' = AfterRecovery
    BY <1>3, <1>6 DEF Modify, Memory
  <2>3. buf[p] = NoBlock BY <1>6 DEF Modify, LInv, Buffers
  <2> QED BY <1>6, <2>1, <2>2, <2>3 DEF Atomic!Write, Modify
<1>7. ASSUME NEW p \in Process, LogAppend(p) PROVE Atomic!Written(p)
  <2>1. inop' = inop BY <1>0, <1>7 DEF LogAppend, LogTypeOK
  <2>2. UNCHANGED <<Memory, AfterRecovery>> BY <1>3, <1>7 DEF LogAppend, Memory
  <2>3. buf[p] # NoBlock BY <1>7 DEF LogAppend, LInv, Buffers, LogTypeOK
  <2> QED BY <1>7, <2>1, <2>2, <2>3 DEF Atomic!Written, LogAppend
<1>8. ASSUME NEW p \in Process, EndOp(p) PROVE Atomic!End(p)
  <2>1. inop' = inop \ {p} /\ p \in inop BY <1>0, <1>8 DEF EndOp, LogTypeOK
  <2>2. mode' # "boot" /\ mode # "boot" BY <1>8 DEF EndOp
  <2>3. UNCHANGED <<Memory, AfterRecovery>> BY <1>3, <1>8, <2>2 DEF EndOp, Memory
  <2>4. buf[p] = NoBlock BY <1>8 DEF EndOp, LInv, Buffers
  <2> QED BY <1>8, <2>1, <2>3, <2>4 DEF Atomic!End, EndOp
<1>9. ASSUME NEW p \in Process, WriteLog(p) PROVE UNCHANGED Atomic!vars
  <2>1. mode # "boot" /\ \A q \in Process : lpc[q] # "install"
    BY <1>9 DEF WriteLog, LInv, Phase, CommitPc
  <2>2. hdr = <<>> /\ hdr' = <<>> /\ home' = home BY <1>9, <2>1 DEF WriteLog, LInv, Headers
  <2>3. AfterRecovery' = AfterRecovery BY <2>2 DEF AfterRecovery
  <2> QED BY <1>1, <1>9, <2>1, <2>3 DEF WriteLog, Memory
<1>10. ASSUME NEW p \in Process, WriteHead(p) PROVE Atomic!Commit
  <2>1. mode # "boot" /\ committing /\ Active = {} BY <1>10 DEF WriteHead, LInv, Phase, CommitPc
  <2>2. inop = {} /\ inop' = {} BY <1>0, <1>10, <2>1 DEF WriteHead, LogTypeOK, Active
  <2>3. AfterRecovery' = cache /\ Memory = cache /\ Memory' = cache
    BY <1>10, <2>1, CommitPoint DEF WriteHead, Memory
  <2> QED BY <1>10, <2>2, <2>3 DEF WriteHead, Atomic!Commit
<1>11. ASSUME NEW p \in Process, InstallTrans(p) PROVE UNCHANGED Atomic!vars
  <2>1. UNCHANGED <<Memory, AfterRecovery>> BY <1>11, InstallAgain DEF InstallTrans, Memory
  <2> QED BY <1>1, <1>11, <2>1 DEF InstallTrans
<1>12. ASSUME NEW p \in Process, EraseLog(p) PROVE UNCHANGED Atomic!vars
  <2>1. AfterRecovery' = AfterRecovery /\ (mode = "boot" => cache = AfterRecovery)
    BY <1>12, ErasedSafely
  <2>2. Memory' = Memory BY <1>12, <2>1 DEF EraseLog, Memory
  <2>3. inop' = inop BY <1>0, <1>12 DEF EraseLog, LogTypeOK
  <2> QED BY <1>2, <1>12, <2>1, <2>2, <2>3 DEF EraseLog
<1>13. ASSUME NEW blk \in Block, Evict(blk) PROVE UNCHANGED Atomic!vars
  <2>1. cache' = cache BY <1>13, EvictSafe
  <2> QED BY <1>1, <1>3, <1>13, <2>1 DEF Evict, Memory
<1>14. CASE Crash
  <2>1. Memory' = AfterRecovery /\ AfterRecovery' = AfterRecovery
    BY <1>3, <1>14 DEF Crash, Memory
  <2>2. inop' = {} BY <1>14 DEF Crash, BootPC
  <2> QED BY <1>14, <2>1, <2>2 DEF Crash, Atomic!Crash, Atomic!Next
<1>15. CASE UNCHANGED redoVars
  BY <1>1, <1>15 DEF redoVars, Memory, AfterRecovery
<1>16. ASSUME NEW p \in Process, Step(p) PROVE [Atomic!Next]_(Atomic!vars)
  BY <1>4, <1>5, <1>7, <1>8, <1>9, <1>10, <1>11, <1>12, <1>16 DEF Step, Atomic!Next
<1> QED BY <1>4, <1>6, <1>13, <1>14, <1>15, <1>16 DEF LogNext, Atomic!Next

\* The redo log is an atomic disk: the calls of each transaction become durable all
\* together or not at all, whatever the moment of the crash (begin_op(), log_write(),
\* end_op(), commit() and recover_from_log()).  PinsTrusted is what install_trans()
\* at boot, which unpins blocks that nobody pinned, takes away from a machine that
\* evicts them.
THEOREM LogIsAtomic == ASSUME PinsTrusted PROVE LogSpec => ImplementsAtomicDisk
<1>1. LogInit => Atomic!Init
  <2> SUFFICES ASSUME LogInit PROVE Atomic!Init OBVIOUS
  <2>1. LogTypeOK BY InitLInv DEF LInv
  <2>2. AfterRecovery = home BY <2>1, RecoveredHome DEF LogInit
  <2>3. {p \in Process : lpc[p] \in InOp} = {} BY DEF LogInit, BootPC, InOp
  <2> QED BY <2>1, <2>2, <2>3 DEF LogInit, Atomic!Init, Memory, LogTypeOK
<1>2. LogSpec => []DInv BY LogContents, PinsTrusted
<1>3. DInv => LInv BY DEF DInv
<1> QED BY <1>1, <1>2, <1>3, AtomicStep, PTL DEF LogSpec, ImplementsAtomicDisk, Atomic!Spec

-----------------------------------------------------------------------------

\* The log on disk is empty at boot, and a uint can count every process and the log.
\* (The bunpin() of recovery takes a count below zero when it is not empty.)
CleanBoot == Recovered = {} /\ Cardinality(BufProc) + 1 < UMax

\* Who has bread() a block has a buffer of a block.
Got == \A p \in BufProc : bpc[p] # "idle" => blockno[b[p]] \in BufBlock

Locked == \A p \in BufProc, i \in Buffer : owner[i] = p <=> Holding(p) /\ b[p] = i

PinnedCached == \A k \in pinned : \E i \in Buffer : blockno[i] = k

Using ==
    \A p \in BufProc :
        /\ bpc[p] \in {"use", "dirty", "unpin", "release"} => valid[b[p]]
        /\ bpc[p] = "unpin" => /\ blockno[b[p]] \in pinned
                               /\ data[b[p]] = disk[blockno[b[p]]]

CleanBuffer(i) == blockno[i] \notin pinned /\ \A p \in BufProc : bpc[p] = "dirty" => b[p] # i

AsOnDisk ==
    \A i \in Buffer : valid[i] /\ blockno[i] \in BufBlock /\ CleanBuffer(i) =>
        data[i] = disk[blockno[i]]

TInv == BcacheTypeOK /\ Got

CInv ==
    /\ TInv /\ recover = {} /\ Locked /\ PinnedCached /\ Using /\ AsOnDisk
    /\ RefcntExact /\ OneCopy
-----------------------------------------------------------------------------
\* Counting.
LEMMA UintRange == \A x \in Int : x % UMax \in 0..UMax - 1
BY BcacheAssumption, ModRange

\* A reference count that does not overflow goes up and down by one.
LEMMA UintStep ==
    ASSUME NEW x \in 0..UMax - 1
    PROVE  /\ x + 1 < UMax => (x + 1) % UMax = x + 1
           /\ x > 0 => (x - 1) % UMax = x - 1
<1>1. UMax \in Nat \ {0} BY BcacheAssumption
<1> QED BY <1>1, ModUnique

\* As many references as there are processes, and one more, fit a reference count.
LEMMA ProcessSet ==
    ASSUME CleanBoot, NEW S \in SUBSET BufProc
    PROVE  IsFiniteSet(S) /\ Cardinality(S) \in Nat /\ Cardinality(S) + 1 < UMax
<1>1. /\ IsFiniteSet(S) /\ Cardinality(S) <= Cardinality(BufProc)
      /\ Cardinality(S) \in Nat /\ Cardinality(BufProc) \in Nat
  BY BcacheAssumption, FS_Subset, FS_CardinalityType
<1> QED BY <1>1, BcacheAssumption DEF CleanBoot

\* A reference count is below UMax.
LEMMA RefType ==
    ASSUME BcacheTypeOK, NEW i \in Buffer, Ref(i) \/ Unref(i)
    PROVE  refcnt' \in [Buffer -> 0..UMax - 1]
<1>1. (refcnt[i] + 1) % UMax \in 0..UMax - 1 /\ (refcnt[i] - 1) % UMax \in 0..UMax - 1
  <2>1. refcnt[i] + 1 \in Int /\ refcnt[i] - 1 \in Int BY DEF BcacheTypeOK
  <2> QED BY <2>1, UintRange
<1> QED BY <1>1 DEF BcacheTypeOK, Ref, Unref

\* The list.  bget() finds an unused buffer if there is one ...
LEMMA VictimUnused ==
    ASSUME BcacheTypeOK, Unused # {}
    PROVE  Victim \in Buffer /\ refcnt[Victim] = 0
<1> DEFINE K == {k \in Buffer : order[k] \in Unused}
           last == CHOOSE k \in Buffer :
                      order[k] \in Unused /\ \A l \in Buffer : l > k => order[l] \notin Unused
<1>1. K \in SUBSET (0..NBUF) /\ K # {} /\ NBUF \in Nat
  <2>1. PICK i \in Buffer : i \in Unused BY DEF Unused
  <2>2. PICK k \in Buffer : order[k] = i BY DEF BcacheTypeOK
  <2>3. K # {} BY <2>1, <2>2
  <2> QED BY <2>3, BcacheAssumption DEF Buffer
<1>2. PICK k \in K : \A l \in K : l <= k BY <1>1, Greatest
<1>3. \A l \in Buffer : l > k => order[l] \notin Unused
  <2> SUFFICES ASSUME NEW l \in Buffer, l > k, order[l] \in Unused PROVE FALSE OBVIOUS
  <2>1. l \in K /\ l \in Int /\ k \in Int BY <1>1
  <2> QED BY <1>2, <2>1
<1>4. \E j \in Buffer : order[j] \in Unused /\ \A l \in Buffer : l > j => order[l] \notin Unused
  BY <1>2, <1>3
<1>5. last \in Buffer /\ order[last] \in Unused BY <1>4
<1> QED BY <1>5 DEF Victim, Unused

\* ... and brelse() leaves every buffer in the list.
LEMMA MoveKeepsAll ==
    ASSUME BcacheTypeOK, NEW i \in Buffer
    PROVE  /\ MoveToFront(i) \in [Buffer -> Buffer]
           /\ \A j \in Buffer : \E k \in Buffer : MoveToFront(i)[k] = j
<1> USE BcacheAssumption DEF Buffer
<1> DEFINE pos == CHOOSE k \in Buffer : order[k] = i
           m == [k \in Buffer |-> IF k = 1 THEN i ELSE IF k <= pos THEN order[k - 1] ELSE order[k]]
<1>1. pos \in Buffer /\ order[pos] = i
  <2>1. \E k \in Buffer : order[k] = i BY DEF BcacheTypeOK
  <2> QED BY <2>1
<1>2. MoveToFront(i) = m BY DEF MoveToFront
<1> HIDE DEF pos
<1>3. m \in [Buffer -> Buffer]
  <2>1. \A k \in Buffer : k # 1 => k - 1 \in Buffer OBVIOUS
  <2>2. \A k \in Buffer : m[k] \in Buffer BY <1>1, <2>1 DEF BcacheTypeOK
  <2> QED BY <2>2
<1>4. ASSUME NEW j \in Buffer PROVE \E k \in Buffer : m[k] = j
  <2>1. PICK l \in Buffer : order[l] = j BY DEF BcacheTypeOK
  <2>2. CASE l = pos
    <3>1. 1 \in Buffer /\ m[1] = j BY <1>1, <2>1, <2>2
    <3> QED BY <3>1
  <2>3. CASE l < pos
    <3>1. l + 1 \in Buffer /\ m[l + 1] = j BY <1>1, <2>1, <2>3
    <3> QED BY <3>1
  <2>4. CASE l > pos
    <3>1. m[l] = j BY <1>1, <2>1, <2>4
    <3> QED BY <3>1
  <2> QED BY <1>1, <2>2, <2>3, <2>4
<1> QED BY <1>2, <1>3, <1>4

-----------------------------------------------------------------------------
\* Each step keeps the types, those of a cache that recovers included.
LEMMA BgetHitTInv ==
    ASSUME TInv, NEW p \in BufProc, NEW k \in BufBlock, BgetHit(p, k)
    PROVE  TInv'
<1> USE BcacheAssumption DEF BgetHit, BuffersOf, BufGoto, bufVars, pinVars, bufProcVars
<1>0. refcnt' \in [Buffer -> 0..UMax - 1] BY RefType DEF TInv
<1>1. BcacheTypeOK'
  BY <1>0 DEF TInv, BcacheTypeOK, BufPCs
<1>2. Got'
  BY DEF TInv, BcacheTypeOK, Got
<1> QED BY <1>1, <1>2 DEF TInv

\* BgetMiss keeps TInv.
LEMMA BgetMissTInv ==
    ASSUME TInv, NEW p \in BufProc, NEW k \in BufBlock, BgetMiss(p, k)
    PROVE  TInv'
<1> USE BcacheAssumption DEF BgetMiss, BuffersOf, BufGoto, bufVars, pinVars, bufProcVars
<1>0. Victim \in Buffer BY VictimUnused DEF TInv
<1> HIDE DEF Victim
<1>1. BcacheTypeOK'
  <2>1. valid' \in [Buffer -> BOOLEAN] BY Zenon DEF TInv, BcacheTypeOK
  <2>2. refcnt' \in [Buffer -> 0..UMax - 1]
    <3>1. 1 \in 0..UMax - 1 OBVIOUS
    <3> QED BY <1>0 DEF TInv, BcacheTypeOK
  <2>3. blockno' \in [Buffer -> BufBlock \cup {NoBufBlock}] BY <1>0 DEF TInv, BcacheTypeOK
  <2>4. b' \in [BufProc -> Buffer] /\ bpc' \in [BufProc -> BufPCs] BY <1>0 DEF TInv, BcacheTypeOK, BufPCs
  <2>5. want' \in [BufProc -> BufBlock \cup {NoBufBlock}] BY DEF TInv, BcacheTypeOK
  <2> QED BY <2>4 DEF TInv, BcacheTypeOK
<1>2. Got'
  BY <1>0 DEF TInv, BcacheTypeOK, Got
<1> QED BY <1>1, <1>2 DEF TInv

\* BgetPanic keeps TInv.
LEMMA BgetPanicTInv ==
    ASSUME TInv, NEW p \in BufProc, NEW k \in BufBlock, BgetPanic(p, k)
    PROVE  TInv'
<1> USE BcacheAssumption DEF BgetPanic, BufGoto, bufVars, pinVars, bufProcVars
<1>1. BcacheTypeOK'
  BY DEF TInv, BcacheTypeOK
<1>2. Got'
  BY DEF TInv, Got
<1> QED BY <1>1, <1>2 DEF TInv

\* AcquireSleep keeps TInv.
LEMMA AcquireSleepTInv ==
    ASSUME TInv, NEW p \in BufProc, AcquireSleep(p)
    PROVE  TInv'
<1> USE BcacheAssumption DEF AcquireSleep, BufGoto, bufVars, pinVars, bufProcVars
<1>1. BcacheTypeOK'
  BY DEF TInv, BcacheTypeOK, BufPCs
<1>2. Got'
  BY DEF TInv, Got
<1> QED BY <1>1, <1>2 DEF TInv

\* Read keeps TInv.
LEMMA ReadTInv ==
    ASSUME TInv, NEW p \in BufProc, Read(p)
    PROVE  TInv'
<1> USE BcacheAssumption DEF Read, BufGoto, bufVars, pinVars, bufProcVars
<1>1. BcacheTypeOK'
  BY DEF TInv, BcacheTypeOK, Got, BufPCs
<1>2. Got'
  BY DEF TInv, Got
<1> QED BY <1>1, <1>2 DEF TInv

\* BufModify keeps TInv.
LEMMA BufModifyTInv ==
    ASSUME TInv, NEW p \in BufProc, NEW v \in BufVal, BufModify(p, v)
    PROVE  TInv'
<1> USE BcacheAssumption DEF BufModify, BufGoto, bufVars, pinVars, bufProcVars
<1>1. BcacheTypeOK'
  BY DEF TInv, BcacheTypeOK, BufPCs
<1>2. Got'
  BY DEF TInv, Got
<1> QED BY <1>1, <1>2 DEF TInv

\* LogWrite keeps TInv.
LEMMA LogWriteTInv ==
    ASSUME TInv, NEW p \in BufProc, LogWrite(p)
    PROVE  TInv'
<1> USE BcacheAssumption DEF LogWrite, BufGoto, bufVars, pinVars, bufProcVars
<1>0. refcnt' \in [Buffer -> 0..UMax - 1] BY RefType DEF TInv, BcacheTypeOK
<1>a. pinned' \subseteq BufBlock BY DEF TInv, BcacheTypeOK, Got
<1>1. BcacheTypeOK'
  <2>1. bpc' \in [BufProc -> BufPCs] BY DEF TInv, BcacheTypeOK, BufPCs
  <2> QED BY <1>0, <1>a, <2>1 DEF TInv, BcacheTypeOK
<1>2. Got'
  BY DEF TInv, Got
<1> QED BY <1>1, <1>2 DEF TInv

\* Bwrite keeps TInv.
LEMMA BwriteTInv ==
    ASSUME TInv, NEW p \in BufProc, Bwrite(p)
    PROVE  TInv'
<1> USE BcacheAssumption DEF Bwrite, BufGoto, bufVars, pinVars, bufProcVars
<1>1. BcacheTypeOK'
  <2>1. disk' \in [BufBlock -> BufVal] BY DEF TInv, BcacheTypeOK
  <2>2. bpc' \in [BufProc -> BufPCs] BY DEF TInv, BcacheTypeOK, BufPCs
  <2>3. panic' \in BOOLEAN BY DEF TInv, BcacheTypeOK
  <2> QED BY <2>2, <2>3 DEF TInv, BcacheTypeOK
<1>2. Got'
  BY DEF TInv, BcacheTypeOK, Got
<1> QED BY <1>1, <1>2 DEF TInv

\* Bunpin keeps TInv.
LEMMA BunpinTInv ==
    ASSUME TInv, NEW p \in BufProc, Bunpin(p)
    PROVE  TInv'
<1> USE BcacheAssumption DEF Bunpin, BufGoto, bufVars, pinVars, bufProcVars
<1>0. refcnt' \in [Buffer -> 0..UMax - 1] BY RefType DEF TInv, BcacheTypeOK
<1>1. BcacheTypeOK'
  BY <1>0 DEF TInv, BcacheTypeOK, BufPCs
<1>2. Got'
  BY DEF TInv, Got
<1> QED BY <1>1, <1>2 DEF TInv

\* ReleaseSleep keeps TInv.
LEMMA ReleaseSleepTInv ==
    ASSUME TInv, NEW p \in BufProc, ReleaseSleep(p)
    PROVE  TInv'
<1> USE BcacheAssumption DEF ReleaseSleep, BufGoto, bufVars, pinVars, bufProcVars
<1>1. BcacheTypeOK'
  BY DEF TInv, BcacheTypeOK, Got, BufPCs
<1>2. Got'
  BY DEF TInv, BcacheTypeOK, Got
<1> QED BY <1>1, <1>2 DEF TInv

\* Brelse keeps TInv.
LEMMA BrelseTInv ==
    ASSUME TInv, NEW p \in BufProc, Brelse(p)
    PROVE  TInv'
<1> USE BcacheAssumption DEF Brelse, BufGoto, bufVars, pinVars, bufProcVars
<1>0. refcnt' \in [Buffer -> 0..UMax - 1] BY RefType DEF TInv, BcacheTypeOK
<1>a. /\ order' \in [Buffer -> Buffer]
      /\ \A j \in Buffer : \E k \in Buffer : order'[k] = j
  <2>1. b[p] \in Buffer /\ (order' = order \/ order' = MoveToFront(b[p])) BY DEF TInv, BcacheTypeOK
  <2>2. CASE order' = order BY <2>2 DEF TInv, BcacheTypeOK
  <2>3. CASE order' = MoveToFront(b[p])
    <3>1. /\ MoveToFront(b[p]) \in [Buffer -> Buffer]
          /\ \A j \in Buffer : \E k \in Buffer : MoveToFront(b[p])[k] = j
      BY <2>1, MoveKeepsAll, Zenon DEF TInv
    <3> QED BY <2>3, <3>1
  <2> QED BY <2>2, <2>3
<1>1. BcacheTypeOK'
  BY <1>0, <1>a DEF TInv, BcacheTypeOK, BufPCs
<1>2. Got'
  BY DEF TInv, Got
<1> QED BY <1>1, <1>2 DEF TInv

-----------------------------------------------------------------------------
\* A buffer whose count is zero is nobody's, and not pinned.
LEMMA NoUsers ==
    ASSUME CleanBoot, CInv, NEW i \in Buffer, refcnt[i] = 0
    PROVE  blockno[i] \notin pinned /\ \A q \in BufProc : bpc[q] # "idle" => b[q] # i
<1>1. Users(i) \in SUBSET BufProc BY DEF Users
<1>2. IsFiniteSet(Users(i)) /\ Cardinality(Users(i)) \in Nat BY <1>1, ProcessSet
<1>3. Cardinality(Users(i)) = 0 /\ blockno[i] \notin pinned BY <1>2 DEF CInv, RefcntExact
<1>4. Users(i) = {} BY <1>2, <1>3, FS_EmptySet
<1> QED BY <1>3, <1>4 DEF Users

-----------------------------------------------------------------------------
\* Each step keeps the rest of the invariant when nothing was to be recovered.
LEMMA BgetHitCInv ==
    ASSUME CInv, NEW p \in BufProc, NEW k \in BufBlock, CleanBoot, BgetHit(p, k)
    PROVE  CInv'
<1> USE BcacheAssumption DEF BgetHit, BuffersOf, BufGoto, bufVars, pinVars, bufProcVars
<1>0. TInv' BY BgetHitTInv DEF CInv
<1>p. PICK i \in Buffer : blockno[i] = k /\ Ref(i) /\ b' = [b EXCEPT ![p] = i] BY DEF BgetHit
<1>q. bpc[p] = "idle" BY DEF MayBread
<1> HIDE DEF BgetHit
<1>s. /\ bpc' = [bpc EXCEPT ![p] = "lock"] /\ want' = [want EXCEPT ![p] = k]
      /\ UNCHANGED <<blockno, valid, data, owner, order, disk, pinned, recover, panic>>
  BY DEF BgetHit
<1>r. recover' = {} BY <1>s DEF CInv
<1>1. Locked'
  BY <1>p, <1>q, <1>s DEF CInv, Locked, Holding
<1>2. PinnedCached'
  BY <1>s DEF CInv, PinnedCached
<1>3. Using'
  BY <1>p, <1>q, <1>s DEF CInv, Using
<1>4. AsOnDisk'
  BY <1>p, <1>q, <1>s DEF CInv, AsOnDisk, CleanBuffer
<1>5. RefcntExact'
  <2>1. /\ Users(i)' = Users(i) \cup {p} /\ p \notin Users(i)
        /\ \A j \in Buffer : j # i => Users(j)' = Users(j)
    BY <1>p, <1>q, <1>s DEF Users, CInv, TInv, BcacheTypeOK
  <2>2. Users(i) \in SUBSET BufProc /\ Users(i)' \in SUBSET BufProc BY DEF Users
  <2>3. Cardinality(Users(i)') = Cardinality(Users(i)) + 1
    BY <2>1, <2>2, ProcessSet, FS_AddElement
  <2>4. Cardinality(Users(i)) \in Nat /\ Cardinality(Users(i)') + 1 < UMax
    BY <2>2, ProcessSet
  <2>5. refcnt[i] = Cardinality(Users(i)) + (IF blockno[i] \in pinned THEN 1 ELSE 0)
    BY DEF CInv, RefcntExact
  <2>6. refcnt[i] \in 0..UMax - 1 /\ refcnt[i] + 1 < UMax
    BY <2>3, <2>4, <2>5
  <2>7. refcnt' = [refcnt EXCEPT ![i] = refcnt[i] + 1] BY <1>p, <2>6, UintStep DEF Ref
  <2>8. refcnt'[i] = Cardinality(Users(i)') + (IF blockno[i] \in pinned THEN 1 ELSE 0)
    BY <2>3, <2>4, <2>5, <2>7 DEF CInv, TInv, BcacheTypeOK
  <2> QED BY <1>s, <2>1, <2>7, <2>8 DEF CInv, TInv, BcacheTypeOK, RefcntExact
<1>6. OneCopy'
  BY <1>p, <1>s DEF CInv, TInv, BcacheTypeOK, OneCopy
<1> QED BY <1>0, <1>r, <1>1, <1>2, <1>3, <1>4, <1>5, <1>6 DEF CInv

\* BgetMiss keeps CInv.
LEMMA BgetMissCInv ==
    ASSUME CInv, NEW p \in BufProc, NEW k \in BufBlock, CleanBoot, BgetMiss(p, k)
    PROVE  CInv'
<1> USE BcacheAssumption DEF BgetMiss, BuffersOf, BufGoto, bufVars, pinVars, bufProcVars
<1>0. TInv' BY BgetMissTInv DEF CInv
<1>p. PICK i \in Buffer : i = Victim /\ refcnt[i] = 0 BY VictimUnused DEF CInv, TInv
<1>q. bpc[p] = "idle" /\ \A j \in Buffer : blockno[j] # k BY DEF MayBread
<1> HIDE DEF BgetMiss
<1>s. /\ bpc' = [bpc EXCEPT ![p] = "lock"] /\ want' = [want EXCEPT ![p] = k] /\ b' = [b EXCEPT ![p] = i]
      /\ blockno' = [blockno EXCEPT ![i] = k] /\ valid' = [valid EXCEPT ![i] = FALSE]
      /\ refcnt' = [refcnt EXCEPT ![i] = 1]
      /\ UNCHANGED <<data, owner, order, disk, pinned, recover, panic>>
  BY <1>p DEF BgetMiss
<1>u. blockno[i] \notin pinned /\ \A q \in BufProc : bpc[q] # "idle" => b[q] # i
  BY <1>p, NoUsers
<1>v. k \notin pinned BY <1>q DEF CInv, PinnedCached
<1>r. recover' = {} BY <1>s DEF CInv
<1>1. Locked'
  BY <1>q, <1>s DEF CInv, Locked, Holding
<1>2. PinnedCached'
  BY <1>s, <1>u DEF CInv, PinnedCached
<1>3. Using'
  BY <1>q, <1>s, <1>u DEF CInv, Using
<1>4. AsOnDisk'
  BY <1>q, <1>s, <1>u DEF CInv, TInv, BcacheTypeOK, AsOnDisk, CleanBuffer
<1>5. RefcntExact'
  <2>1. /\ Users(i)' = {p}
        /\ \A j \in Buffer : j # i => Users(j)' = Users(j)
    BY <1>q, <1>s, <1>u DEF Users, CInv, TInv, BcacheTypeOK
  <2>2. Cardinality(Users(i)') = 1 BY <2>1, FS_Singleton
  <2>3. ASSUME NEW j \in Buffer
        PROVE  refcnt'[j] = Cardinality(Users(j)') + (IF blockno'[j] \in pinned' THEN 1 ELSE 0)
    <3>1. CASE j = i
      <4>1. refcnt'[i] = 1 /\ blockno'[i] = k BY <1>s DEF CInv, TInv, BcacheTypeOK
      <4> QED BY <1>s, <1>v, <2>2, <3>1, <4>1
    <3>2. CASE j # i
      <4>1. refcnt'[j] = refcnt[j] /\ blockno'[j] = blockno[j]
        BY <1>s, <3>2
      <4> QED BY <1>s, <2>1, <3>2 DEF CInv, RefcntExact
    <3> QED BY <3>1, <3>2
  <2> QED BY <2>3 DEF RefcntExact
<1>6. OneCopy'
  BY <1>q, <1>s, <1>u DEF CInv, TInv, BcacheTypeOK, OneCopy
<1> QED BY <1>0, <1>r, <1>1, <1>2, <1>3, <1>4, <1>5, <1>6 DEF CInv

\* BgetPanic keeps CInv.
LEMMA BgetPanicCInv ==
    ASSUME CInv, NEW p \in BufProc, NEW k \in BufBlock, CleanBoot, BgetPanic(p, k)
    PROVE  CInv'
<1> USE BcacheAssumption DEF BgetPanic, BufGoto, bufVars, pinVars, bufProcVars
<1>0. TInv' BY BgetPanicTInv DEF CInv
<1>a. \A i \in Buffer : Users(i)' = Users(i) BY DEF Users
<1>r. recover' = {} BY DEF CInv
<1>1. Locked'
  BY DEF CInv, Locked, Holding
<1>2. PinnedCached'
  BY DEF CInv, PinnedCached
<1>3. Using'
  BY DEF CInv, Using
<1>4. AsOnDisk'
  BY DEF CInv, AsOnDisk, CleanBuffer
<1>5. RefcntExact'
  BY <1>a DEF CInv, RefcntExact
<1>6. OneCopy'
  BY DEF CInv, OneCopy
<1> QED BY <1>0, <1>1, <1>2, <1>3, <1>4, <1>5, <1>6 DEF CInv

\* AcquireSleep keeps CInv.
LEMMA AcquireSleepCInv ==
    ASSUME CInv, NEW p \in BufProc, CleanBoot, AcquireSleep(p)
    PROVE  CInv'
<1> USE BcacheAssumption DEF AcquireSleep, BufGoto, bufVars, pinVars, bufProcVars
<1>0. TInv' BY AcquireSleepTInv DEF CInv
<1>a. \A i \in Buffer : Users(i)' = Users(i) BY DEF Users
<1>r. recover' = {} BY DEF CInv
<1>1. Locked'
  BY DEF CInv, TInv, BcacheTypeOK, Locked, Holding
<1>2. PinnedCached'
  BY DEF CInv, PinnedCached
<1>3. Using'
  BY DEF CInv, Using
<1>4. AsOnDisk'
  BY DEF CInv, AsOnDisk, CleanBuffer
<1>5. RefcntExact'
  BY <1>a DEF CInv, RefcntExact
<1>6. OneCopy'
  BY DEF CInv, OneCopy
<1> QED BY <1>0, <1>1, <1>2, <1>3, <1>4, <1>5, <1>6 DEF CInv

\* Read keeps CInv.
LEMMA ReadCInv ==
    ASSUME CInv, NEW p \in BufProc, CleanBoot, Read(p)
    PROVE  CInv'
<1> USE BcacheAssumption DEF Read, BufGoto, bufVars, pinVars, bufProcVars
<1>0. TInv' BY ReadTInv DEF CInv
<1>a. \A i \in Buffer : Users(i)' = Users(i) BY DEF Users
<1>r. recover' = {} BY DEF CInv
<1>1. Locked'
  BY DEF CInv, Locked, Holding
<1>2. PinnedCached'
  BY DEF CInv, PinnedCached
<1>3. Using'
  BY DEF CInv, TInv, BcacheTypeOK, Using
<1>4. AsOnDisk'
  BY DEF CInv, TInv, BcacheTypeOK, AsOnDisk, CleanBuffer
<1>5. RefcntExact'
  BY <1>a DEF CInv, RefcntExact
<1>6. OneCopy'
  BY DEF CInv, OneCopy
<1> QED BY <1>0, <1>1, <1>2, <1>3, <1>4, <1>5, <1>6 DEF CInv

\* BufModify keeps CInv.
LEMMA BufModifyCInv ==
    ASSUME CInv, NEW p \in BufProc, NEW v \in BufVal, CleanBoot, BufModify(p, v)
    PROVE  CInv'
<1> USE BcacheAssumption DEF BufModify, BufGoto, bufVars, pinVars, bufProcVars
<1>0. TInv' BY BufModifyTInv DEF CInv
<1>a. \A i \in Buffer : Users(i)' = Users(i) BY DEF Users
<1>r. recover' = {} OBVIOUS
<1>1. Locked'
  BY DEF CInv, Locked, Holding
<1>2. PinnedCached'
  BY DEF CInv, PinnedCached
<1>3. Using'
  BY DEF CInv, TInv, BcacheTypeOK, Using, Locked, Holding
<1>4. AsOnDisk'
  BY DEF CInv, TInv, BcacheTypeOK, AsOnDisk, CleanBuffer
<1>5. RefcntExact'
  BY <1>a DEF CInv, RefcntExact
<1>6. OneCopy'
  BY DEF CInv, OneCopy
<1> QED BY <1>0, <1>1, <1>2, <1>3, <1>4, <1>5, <1>6 DEF CInv

\* LogWrite keeps CInv.
LEMMA LogWriteCInv ==
    ASSUME CInv, NEW p \in BufProc, CleanBoot, LogWrite(p)
    PROVE  CInv'
<1> USE BcacheAssumption DEF LogWrite, BufGoto, bufVars, pinVars, bufProcVars
<1>0. TInv' BY LogWriteTInv DEF CInv
<1>a. \A i \in Buffer : Users(i)' = Users(i) BY DEF Users
<1>r. recover' = {} BY DEF CInv
<1>1. Locked'
  BY DEF CInv, Locked, Holding
<1>2. PinnedCached'
  BY DEF CInv, TInv, BcacheTypeOK, PinnedCached
<1>3. Using'
  BY DEF CInv, Using
<1>4. AsOnDisk'
  BY DEF CInv, AsOnDisk, CleanBuffer
<1>5. RefcntExact'
  <2> DEFINE i == b[p]
  <2>1. i \in Buffer /\ Users(i) \in SUBSET BufProc BY DEF CInv, TInv, BcacheTypeOK, Users
  <2>2. Cardinality(Users(i)) \in Nat /\ Cardinality(Users(i)) + 1 < UMax BY <2>1, ProcessSet
  <2>3. CASE blockno[i] \in pinned
    <3>1. pinned' = pinned /\ refcnt' = refcnt BY <2>3
    <3> QED BY <1>a, <3>1 DEF CInv, RefcntExact
  <2>4. CASE blockno[i] \notin pinned
    <3>1. refcnt[i] = Cardinality(Users(i)) /\ refcnt[i] \in 0..UMax - 1
      BY <2>1, <2>2, <2>4 DEF CInv, RefcntExact
    <3>2. refcnt' = [refcnt EXCEPT ![i] = refcnt[i] + 1] BY <2>2, <2>4, <3>1, UintStep DEF Ref
    <3>3. \A j \in Buffer : j # i => blockno[j] # blockno[i]
      BY <2>1 DEF CInv, OneCopy, TInv, Got
    <3>4. \A j \in Buffer : j # i => (blockno[j] \in pinned' <=> blockno[j] \in pinned) BY <3>3
    <3> HIDE DEF i
    <3>5. refcnt'[i] = Cardinality(Users(i)) + 1 /\ blockno[i] \in pinned'
      BY <3>1, <3>2 DEF CInv, TInv, BcacheTypeOK, i
    <3>6. ASSUME NEW j \in Buffer
          PROVE  refcnt'[j] = Cardinality(Users(j)) + (IF blockno[j] \in pinned' THEN 1 ELSE 0)
      <4>1. CASE j = i BY <3>5, <4>1
      <4>2. CASE j # i
        <5>1. refcnt'[j] = refcnt[j] BY <3>2, <4>2
        <5> QED BY <3>4, <4>2, <5>1 DEF CInv, RefcntExact
      <4> QED BY <4>1, <4>2
    <3> QED BY <1>a, <3>6 DEF RefcntExact
  <2> QED BY <2>3, <2>4
<1>6. OneCopy'
  BY DEF CInv, OneCopy
<1> QED BY <1>0, <1>1, <1>2, <1>3, <1>4, <1>5, <1>6 DEF CInv

\* Bwrite keeps CInv.
LEMMA BwriteCInv ==
    ASSUME CInv, NEW p \in BufProc, CleanBoot, Bwrite(p)
    PROVE  CInv'
<1> USE BcacheAssumption DEF Bwrite, BufGoto, bufVars, pinVars, bufProcVars
<1>0. TInv' BY BwriteTInv DEF CInv
<1>a. \A i \in Buffer : Users(i)' = Users(i) BY DEF Users, CInv, TInv, BcacheTypeOK
<1>r. recover' = {} BY DEF CInv
<1>1. Locked'
  BY DEF CInv, TInv, BcacheTypeOK, Locked, Holding
<1>2. PinnedCached'
  BY DEF CInv, PinnedCached
<1>3. Using'
  <2> SUFFICES ASSUME NEW q \in BufProc
               PROVE  /\ bpc'[q] \in {"use", "dirty", "unpin", "release"} => valid'[b'[q]]
                      /\ bpc'[q] = "unpin" => /\ blockno'[b'[q]] \in pinned'
                                              /\ data'[b'[q]] = disk'[blockno'[b'[q]]]
    BY DEF Using
  <2>1. valid[b[p]] /\ blockno[b[p]] \in pinned BY DEF CInv, Using
  <2>2. CASE q = p BY <2>1, <2>2 DEF CInv, TInv, BcacheTypeOK
  <2>3. CASE q # p /\ bpc[q] = "unpin"
    <3>1. b[q] # b[p] BY <2>3 DEF CInv, Locked, Holding, TInv, BcacheTypeOK
    <3>2. blockno[b[q]] # blockno[b[p]]
      BY <3>1 DEF CInv, OneCopy, TInv, BcacheTypeOK
    <3> QED BY <3>2 DEF CInv, TInv, BcacheTypeOK, Using
  <2>4. CASE q # p /\ bpc[q] # "unpin" BY <2>4 DEF CInv, TInv, BcacheTypeOK, Using
  <2> QED BY <2>2, <2>3, <2>4
<1>4. AsOnDisk'
  BY DEF CInv, TInv, BcacheTypeOK, AsOnDisk, CleanBuffer
<1>5. RefcntExact'
  BY <1>a DEF CInv, RefcntExact
<1>6. OneCopy'
  BY DEF CInv, TInv, BcacheTypeOK, OneCopy
<1> QED BY <1>0, <1>1, <1>2, <1>3, <1>4, <1>5, <1>6 DEF CInv

\* Bunpin keeps CInv.
LEMMA BunpinCInv ==
    ASSUME CInv, NEW p \in BufProc, CleanBoot, Bunpin(p)
    PROVE  CInv'
<1> USE BcacheAssumption DEF Bunpin, BufGoto, bufVars, pinVars, bufProcVars
<1>0. TInv' BY BunpinTInv DEF CInv
<1>a. \A i \in Buffer : Users(i)' = Users(i) BY DEF Users
<1>r. recover' = {} BY DEF CInv
<1>1. Locked'
  BY DEF CInv, Locked, Holding
<1>2. PinnedCached'
  BY DEF CInv, PinnedCached
<1>3. Using'
  <2> SUFFICES ASSUME NEW q \in BufProc
               PROVE  /\ bpc'[q] \in {"use", "dirty", "unpin", "release"} => valid'[b'[q]]
                      /\ bpc'[q] = "unpin" => /\ blockno'[b'[q]] \in pinned'
                                              /\ data'[b'[q]] = disk'[blockno'[b'[q]]]
    BY DEF Using
  <2>1. CASE q # p /\ bpc[q] = "unpin"
    <3>1. b[q] # b[p] BY <2>1 DEF CInv, Locked, Holding, TInv, BcacheTypeOK
    <3>2. blockno[b[q]] # blockno[b[p]]
      BY <3>1 DEF CInv, OneCopy, TInv, BcacheTypeOK, Got
    <3> QED BY <3>2 DEF CInv, Using
  <2>2. CASE q = p \/ bpc[q] # "unpin" BY <2>2 DEF CInv, TInv, BcacheTypeOK, Using
  <2> QED BY <2>1, <2>2
<1>4. AsOnDisk'
  <2> SUFFICES ASSUME NEW i \in Buffer, valid[i], blockno[i] \in BufBlock, CleanBuffer(i)'
               PROVE  data[i] = disk[blockno[i]]
    BY DEF AsOnDisk
  <2>1. CASE i = b[p] BY <2>1 DEF CInv, Using
  <2>2. CASE i # b[p]
    <3>1. blockno[i] # blockno[b[p]] BY <2>2 DEF CInv, OneCopy, TInv, BcacheTypeOK
    <3>2. CleanBuffer(i) BY <3>1 DEF CleanBuffer
    <3> QED BY <3>2 DEF CInv, AsOnDisk
  <2> QED BY <2>1, <2>2
<1>5. RefcntExact'
  <2>0. PICK i \in Buffer : i = b[p] BY DEF CInv, TInv, BcacheTypeOK
  <2>1. i \in Buffer /\ Users(i) \in SUBSET BufProc /\ blockno[i] \in pinned
    BY <2>0 DEF CInv, Users, Using
  <2>2. Cardinality(Users(i)) \in Nat BY <2>1, ProcessSet
  <2>3. refcnt[i] = Cardinality(Users(i)) + 1 /\ refcnt[i] \in 0..UMax - 1
    BY <2>1 DEF CInv, RefcntExact, TInv, BcacheTypeOK
  <2>4. refcnt' = [refcnt EXCEPT ![i] = refcnt[i] - 1]
    <3>1. refcnt[i] > 0 BY <2>2, <2>3
    <3>2. (refcnt[i] - 1) % UMax = refcnt[i] - 1 BY <2>3, <3>1, UintStep
    <3> QED BY <2>0, <3>2 DEF Unref
  <2>5. \A j \in Buffer : j # i => blockno[j] # blockno[i]
    BY <2>0 DEF CInv, OneCopy, TInv, Got
  <2>6. blockno[i] \notin pinned' /\ \A j \in Buffer : j # i => (blockno[j] \in pinned' <=> blockno[j] \in pinned)
    BY <2>0, <2>5
  <2>7. ASSUME NEW j \in Buffer
        PROVE  refcnt'[j] = Cardinality(Users(j)) + (IF blockno[j] \in pinned' THEN 1 ELSE 0)
    <3>1. CASE j = i
      <4>1. refcnt'[i] = Cardinality(Users(i)) BY <2>2, <2>3, <2>4 DEF CInv, TInv, BcacheTypeOK
      <4> QED BY <2>2, <2>6, <3>1, <4>1
    <3>2. CASE j # i
      <4>1. refcnt'[j] = refcnt[j] BY <2>4, <3>2
      <4> QED BY <2>6, <3>2, <4>1 DEF CInv, RefcntExact
    <3> QED BY <3>1, <3>2
  <2> QED BY <1>a, <2>7 DEF RefcntExact
<1>6. OneCopy'
  BY DEF CInv, OneCopy
<1> QED BY <1>0, <1>1, <1>2, <1>3, <1>4, <1>5, <1>6 DEF CInv

\* ReleaseSleep keeps CInv.
LEMMA ReleaseSleepCInv ==
    ASSUME CInv, NEW p \in BufProc, CleanBoot, ReleaseSleep(p)
    PROVE  CInv'
<1> USE BcacheAssumption DEF ReleaseSleep, BufGoto, bufVars, pinVars, bufProcVars
<1>0. TInv' BY ReleaseSleepTInv DEF CInv
<1>a. \A i \in Buffer : Users(i)' = Users(i) BY DEF Users, CInv, TInv, BcacheTypeOK
<1>r. recover' = {} BY DEF CInv
<1>1. Locked'
  BY DEF CInv, TInv, BcacheTypeOK, Locked, Holding
<1>2. PinnedCached'
  BY DEF CInv, PinnedCached
<1>3. Using'
  BY DEF CInv, TInv, BcacheTypeOK, Using
<1>4. AsOnDisk'
  BY DEF CInv, TInv, BcacheTypeOK, AsOnDisk, CleanBuffer
<1>5. RefcntExact'
  BY <1>a DEF CInv, RefcntExact
<1>6. OneCopy'
  BY DEF CInv, TInv, BcacheTypeOK, OneCopy
<1> QED BY <1>0, <1>1, <1>2, <1>3, <1>4, <1>5, <1>6 DEF CInv

\* Brelse keeps CInv.
LEMMA BrelseCInv ==
    ASSUME CInv, NEW p \in BufProc, CleanBoot, Brelse(p)
    PROVE  CInv'
<1> USE BcacheAssumption DEF Brelse, BufGoto, bufVars, pinVars, bufProcVars
<1>0. TInv' BY BrelseTInv DEF CInv
<1>r. recover' = {} BY DEF CInv
<1>1. Locked'
  BY DEF CInv, Locked, Holding
<1>2. PinnedCached'
  BY DEF CInv, PinnedCached
<1>3. Using'
  BY DEF CInv, Using
<1>4. AsOnDisk'
  BY DEF CInv, AsOnDisk, CleanBuffer
<1>5. RefcntExact'
  <2>0. PICK i \in Buffer : i = b[p] BY DEF CInv, TInv, BcacheTypeOK
  <2>1. /\ Users(i)' = Users(i) \ {p} /\ p \in Users(i)
        /\ \A j \in Buffer : j # i => Users(j)' = Users(j)
    BY <2>0 DEF Users, CInv, TInv, BcacheTypeOK
  <2>2. i \in Buffer /\ Users(i) \in SUBSET BufProc BY DEF Users
  <2>3. IsFiniteSet(Users(i)) /\ Cardinality(Users(i)) \in Nat /\ Cardinality(Users(i)') \in Nat
    <3>1. Users(i)' \in SUBSET BufProc BY <2>1, <2>2
    <3> QED BY <2>2, <3>1, ProcessSet
  <2>4. Cardinality(Users(i)') = Cardinality(Users(i)) - 1 
    <3> DEFINE S == Users(i)
    <3>1. IsFiniteSet(S) /\ p \in S BY <2>1, <2>3
    <3>2. Cardinality(S \ {p}) = Cardinality(S) - 1 BY <3>1, FS_RemoveElement
    <3> QED BY <2>1, <3>2
  <2>5. refcnt[i] = Cardinality(Users(i)) + (IF blockno[i] \in pinned THEN 1 ELSE 0)
    BY DEF CInv, RefcntExact
  <2>6. refcnt[i] \in 0..UMax - 1 /\ refcnt[i] > 0
    BY <2>3, <2>4, <2>5 DEF CInv, TInv, BcacheTypeOK
  <2>7. refcnt' = [refcnt EXCEPT ![i] = refcnt[i] - 1] BY <2>0, <2>2, <2>6, UintStep DEF Unref
  <2>8. refcnt'[i] = Cardinality(Users(i)') + (IF blockno[i] \in pinned THEN 1 ELSE 0)
    BY <2>3, <2>4, <2>5, <2>7 DEF CInv, TInv, BcacheTypeOK
  <2>9. ASSUME NEW j \in Buffer
        PROVE  refcnt'[j] = Cardinality(Users(j)') + (IF blockno[j] \in pinned THEN 1 ELSE 0)
    <3>1. CASE j = i BY <2>8, <3>1
    <3>2. CASE j # i
      <4>1. refcnt'[j] = refcnt[j] BY <2>7, <3>2
      <4> QED BY <2>1, <3>2, <4>1 DEF CInv, RefcntExact
    <3> QED BY <3>1, <3>2
  <2> QED BY <2>9 DEF RefcntExact
<1>6. OneCopy'
  BY DEF CInv, TInv, BcacheTypeOK, OneCopy
<1> QED BY <1>0, <1>1, <1>2, <1>3, <1>4, <1>5, <1>6 DEF CInv
-----------------------------------------------------------------------------
\* The specification.
LEMMA InitTInv == ASSUME BcacheInit PROVE TInv
<1> USE BcacheAssumption DEF BcacheInit, Buffer
<1>1. \E x \in BufVal : TRUE OBVIOUS
<1>2. PICK v \in BufVal : data = [i \in Buffer |-> v] /\ disk = [k \in BufBlock |-> v] BY <1>1
<1>3. order \in [Buffer -> Buffer] /\ \A i \in Buffer : \E k \in Buffer : order[k] = i
  <2>1. \A k \in Buffer : NBUF + 1 - k \in Buffer OBVIOUS
  <2>2. \A i \in Buffer : order[NBUF + 1 - i] = i BY <2>1
  <2> QED BY <2>1, <2>2
<1>4. refcnt \in [Buffer -> 0..UMax - 1]
  <2>1. 0 \in 0..UMax - 1 OBVIOUS
  <2> QED BY <2>1
<1>5. b \in [BufProc -> Buffer]
  <2>1. 1 \in Buffer OBVIOUS
  <2> QED BY <2>1
<1>6. recover \subseteq BufBlock BY Zenon
<1>7. valid \in [Buffer -> BOOLEAN] /\ panic \in BOOLEAN BY Zenon
<1> QED BY <1>2, <1>3, <1>4, <1>5, <1>6, <1>7 DEF TInv, BcacheTypeOK, Got, BufPCs

\* Every step keeps TInv.
LEMMA StepTInv == ASSUME TInv, [BcacheNext]_bcacheVars PROVE TInv'
<1>1. CASE UNCHANGED bcacheVars
  <2>1. Got' BY <1>1 DEF bcacheVars, bufVars, pinVars, bufProcVars, TInv, Got
  <2> QED BY <1>1, <2>1 DEF bcacheVars, bufVars, pinVars, bufProcVars, TInv, BcacheTypeOK
<1>2. CASE BcacheNext
  BY <1>2, BgetHitTInv, BgetMissTInv, BgetPanicTInv, AcquireSleepTInv, ReadTInv, BufModifyTInv,
     LogWriteTInv, BwriteTInv, BunpinTInv, ReleaseSleepTInv, BrelseTInv
     DEF BcacheNext, BufStep
<1> QED BY <1>1, <1>2

\* The fields of struct buf keep their types and the list holds every buffer, at
\* every boot, one that recovers included.
THEOREM BcacheTypeCorrect == BcacheSpec => []BcacheTypeOK
<1>1. BcacheSpec => []TInv BY InitTInv, StepTInv, PTL DEF BcacheSpec
<1>2. TInv => BcacheTypeOK BY DEF TInv
<1> QED BY <1>1, <1>2, PTL

\* The initial states satisfy CInv.
LEMMA InitCInv == ASSUME CleanBoot, BcacheInit PROVE CInv
<1> USE BcacheAssumption DEF BcacheInit
<1>1. TInv BY InitTInv
<1>2. recover = {} BY DEF CleanBoot
<1>3. Locked /\ PinnedCached /\ Using BY DEF Locked, Holding, PinnedCached, Using
<1>4. AsOnDisk BY DEF AsOnDisk
<1>5. RefcntExact
  <2>1. \A i \in Buffer : Users(i) = {} BY DEF Users
  <2>2. Cardinality({}) = 0 BY FS_EmptySet
  <2> QED BY <2>1, <2>2 DEF RefcntExact
<1>6. OneCopy BY DEF OneCopy
<1> QED BY <1>1, <1>2, <1>3, <1>4, <1>5, <1>6 DEF CInv

\* Every step keeps CInv.
LEMMA StepCInv == ASSUME CleanBoot, CInv, [BcacheNext]_bcacheVars PROVE CInv'
<1>1. CASE UNCHANGED bcacheVars
  <2> USE <1>1 DEF bcacheVars, bufVars, pinVars, bufProcVars
  <2>1. TInv' BY StepTInv DEF CInv
  <2>2. Locked' /\ PinnedCached' /\ Using'
    BY DEF CInv, Locked, Holding, PinnedCached, Using
  <2>3. AsOnDisk' BY DEF CInv, AsOnDisk, CleanBuffer
  <2>4. RefcntExact'
    <3>1. \A i \in Buffer : Users(i)' = Users(i) BY DEF Users
    <3> QED BY <3>1 DEF CInv, RefcntExact
  <2>5. OneCopy' BY DEF CInv, OneCopy
  <2> QED BY <2>1, <2>2, <2>3, <2>4, <2>5 DEF CInv
<1>2. CASE BcacheNext
  BY <1>2, BgetHitCInv, BgetMissCInv, BgetPanicCInv, AcquireSleepCInv, ReadCInv, BufModifyCInv,
     LogWriteCInv, BwriteCInv, BunpinCInv, ReleaseSleepCInv, BrelseCInv
     DEF BcacheNext, BufStep
<1> QED BY <1>1, <1>2

\* The invariant holds when nothing has to be recovered.
THEOREM BcacheInvariant == ASSUME CleanBoot PROVE BcacheSpec => []CInv
<1>1. BcacheInit => CInv BY InitCInv
<1>2. CInv /\ [BcacheNext]_bcacheVars => CInv' BY StepCInv
<1> QED BY <1>1, <1>2, PTL DEF BcacheSpec

\* Counts are exact, a block has one buffer and a buffer one user, although
\* bget() drops bcache.lock before it sleeps for the sleeplock, and brelse()
\* the sleeplock before the reference.
THEOREM CacheBuffersSound == ASSUME CleanBoot PROVE BcacheSpec => []BuffersSound
<1>1. CInv => BuffersSound
  <2> SUFFICES ASSUME CInv PROVE Exclusive BY DEF CInv, BuffersSound
  <2> SUFFICES ASSUME NEW p \in BufProc, NEW q \in BufProc, p # q, Holding(p), Holding(q),
                      want[p] = want[q]
               PROVE  FALSE
    BY DEF Exclusive
  <2>1. b[p] # b[q] BY DEF CInv, TInv, BcacheTypeOK, Locked
  <2>2. blockno[b[p]] = want[p] /\ blockno[b[q]] = want[q]
    BY DEF CInv, OneCopy, Holding
  <2>3. blockno[b[p]] # NoBufBlock BY BcacheAssumption DEF CInv, TInv, Got, Holding
  <2>4. b[p] \in Buffer /\ b[q] \in Buffer BY DEF CInv, TInv, BcacheTypeOK
  <2> QED BY <2>1, <2>2, <2>3, <2>4 DEF CInv, OneCopy
<1> QED BY <1>1, BcacheInvariant, PTL
-----------------------------------------------------------------------------
\* The contents of a block are in its buffer if that is valid, else on the disk.
ViewIs ==
    \A k \in BufBlock :
        /\ \A i \in Buffer : blockno[i] = k /\ valid[i] => View(k) = data[i]
        /\ (\A i \in Buffer : blockno[i] = k => ~valid[i]) => View(k) = disk[k]

\* The contents of a block as a reader of the cache sees them.
LEMMA ViewOfBlock == CInv => ViewIs
<1> SUFFICES ASSUME CInv, NEW k \in BufBlock
             PROVE  /\ \A i \in Buffer : blockno[i] = k /\ valid[i] => View(k) = data[i]
                    /\ (\A i \in Buffer : blockno[i] = k => ~valid[i]) => View(k) = disk[k]
  BY DEF ViewIs
<1> DEFINE c == CHOOSE i \in BuffersOf(k) : valid[i]
<1>1. ASSUME NEW i \in Buffer, blockno[i] = k, valid[i] PROVE View(k) = data[i]
  <2>1. i \in BuffersOf(k) BY <1>1 DEF BuffersOf
  <2>2. c \in BuffersOf(k) BY <1>1, <2>1
  <2>3. c \in Buffer /\ blockno[c] = k BY <2>2 DEF BuffersOf
  <2>4. c = i BY <1>1, <2>3, BcacheAssumption DEF CInv, OneCopy
  <2>5. View(k) = data[c] BY <1>1, <2>1 DEF View
  <2> QED BY <2>4, <2>5
<1>2. (\A i \in Buffer : blockno[i] = k => ~valid[i]) => View(k) = disk[k]
  BY DEF View, BuffersOf
<1> QED BY <1>1, <1>2

\* The same in the next state.
LEMMA ViewOfBlockNext == CInv' => ViewIs'
BY ViewOfBlock, PTL

\* A step that changes no buffer, block or disk changes no contents.
LEMMA SameView ==
    ASSUME UNCHANGED <<blockno, valid, data, disk>>, NEW k \in BufBlock
    PROVE  View(k)' = View(k)
BY DEF View, BuffersOf

\* A step on the buffer that p holds changes those of its block only.
LEMMA HolderView ==
    ASSUME CInv, CInv', NEW p \in BufProc, Holding(p), NEW k \in BufBlock, want[p] # k,
           blockno' = blockno,
           \A i \in Buffer : i # b[p] => valid'[i] = valid[i] /\ data'[i] = data[i],
           \A l \in BufBlock : l # want[p] => disk'[l] = disk[l]
    PROVE  View(k)' = View(k)
<1>1. ViewIs /\ ViewIs' BY ViewOfBlock, ViewOfBlockNext
<1>2. \A i \in Buffer : blockno[i] = k => i # b[p] BY DEF CInv, OneCopy, Holding
<1>3. CASE \E i \in Buffer : blockno[i] = k /\ valid[i]
  <2>1. PICK i \in Buffer : blockno[i] = k /\ valid[i] BY <1>3
  <2>2. valid'[i] /\ data'[i] = data[i] /\ blockno'[i] = k BY <1>2, <2>1
  <2>3. View(k) = data[i] BY <1>1, <2>1 DEF ViewIs
  <2>4. View(k)' = data'[i] BY <1>1, <2>2 DEF ViewIs
  <2> QED BY <2>2, <2>3, <2>4
<1>4. CASE \A i \in Buffer : blockno[i] = k => ~valid[i]
  <2>1. \A i \in Buffer : blockno'[i] = k => ~valid'[i] BY <1>2, <1>4
  <2>2. View(k) = disk[k] BY <1>1, <1>4 DEF ViewIs
  <2>3. View(k)' = disk'[k] BY <1>1, <2>1 DEF ViewIs
  <2> QED BY <2>2, <2>3
<1> QED BY <1>3, <1>4

\* Recycling loses nothing: the victim's contents are on the disk.
LEMMA MissView ==
    ASSUME CleanBoot, CInv, CInv', NEW p \in BufProc, NEW l \in BufBlock, BgetMiss(p, l),
           NEW k \in BufBlock
    PROVE  View(k)' = View(k)
<1>1. ViewIs /\ ViewIs' BY ViewOfBlock, ViewOfBlockNext
<1>2. PICK v \in Buffer : v = Victim /\ refcnt[v] = 0
  BY VictimUnused DEF CInv, TInv, BgetMiss
<1>3. blockno[v] \notin pinned /\ \A q \in BufProc : bpc[q] # "idle" => b[q] # v
  BY <1>2, NoUsers
<1>4. /\ blockno' = [blockno EXCEPT ![v] = l] /\ valid' = [valid EXCEPT ![v] = FALSE]
      /\ data' = data /\ disk' = disk
      /\ \A i \in Buffer : blockno[i] # l
  BY <1>2 DEF BgetMiss, BuffersOf
<1>5. ~valid'[v] /\ \A i \in Buffer : i # v => blockno'[i] = blockno[i] /\ valid'[i] = valid[i]
  BY <1>4, Zenon DEF CInv, TInv, BcacheTypeOK
<1>6. CASE \E i \in Buffer : i # v /\ blockno[i] = k /\ valid[i]
  <2>1. PICK i \in Buffer : i # v /\ blockno[i] = k /\ valid[i] BY <1>6
  <2>2. View(k) = data[i] BY <1>1, <2>1 DEF ViewIs
  <2>3. View(k)' = data'[i] BY <1>1, <1>5, <2>1 DEF ViewIs
  <2> QED BY <1>4, <2>2, <2>3
<1>7. CASE ~\E i \in Buffer : i # v /\ blockno[i] = k /\ valid[i]
  <2>1. \A i \in Buffer : blockno'[i] = k => ~valid'[i] BY <1>5, <1>7
  <2>2. View(k)' = disk[k] BY <1>1, <1>4, <2>1 DEF ViewIs
  <2>3. CASE blockno[v] = k /\ valid[v]
    <3>1. CleanBuffer(v) BY <1>3 DEF CleanBuffer
    <3>2. data[v] = disk[k] BY <2>3, <3>1 DEF CInv, AsOnDisk
    <3>3. View(k) = data[v] BY <1>1, <2>3 DEF ViewIs
    <3> QED BY <2>2, <3>2, <3>3
  <2>4. CASE ~(blockno[v] = k /\ valid[v])
    <3>1. \A i \in Buffer : blockno[i] = k => ~valid[i] BY <1>7, <2>4
    <3>2. View(k) = disk[k] BY <1>1, <3>1 DEF ViewIs
    <3> QED BY <2>2, <3>2
  <2> QED BY <2>3, <2>4
<1> QED BY <1>6, <1>7

\* A step changes what readers see of a block only while somebody holds its buffer.
LEMMA StepCoherent ==
    ASSUME CleanBoot, CInv, CInv', [BcacheNext]_bcacheVars, NEW k \in BufBlock
    PROVE  View(k)' # View(k) => \E p \in BufProc : want[p] = k /\ Holding(p)
<1> USE DEF bufVars, pinVars, bufProcVars
<1>1. CASE UNCHANGED bcacheVars BY <1>1, SameView DEF bcacheVars
<1>2. ASSUME NEW p \in BufProc, NEW l \in BufBlock, BgetHit(p, l) \/ BgetPanic(p, l)
      PROVE  View(k)' = View(k)
  BY <1>2, SameView DEF BgetHit, BgetPanic
<1>3. ASSUME NEW p \in BufProc, NEW l \in BufBlock, BgetMiss(p, l)
      PROVE  View(k)' = View(k)
  BY <1>3, MissView
<1>4. ASSUME NEW p \in BufProc,
             AcquireSleep(p) \/ LogWrite(p) \/ Bunpin(p) \/ ReleaseSleep(p) \/ Brelse(p)
      PROVE  View(k)' = View(k)
  BY <1>4, SameView DEF AcquireSleep, LogWrite, Bunpin, ReleaseSleep, Brelse
<1>5. ASSUME NEW p \in BufProc,
             Read(p) \/ (\E v \in BufVal : BufModify(p, v)) \/ Bwrite(p)
      PROVE  (want[p] = k /\ Holding(p)) \/ View(k)' = View(k)
  <2>1. Holding(p) BY <1>5 DEF Read, BufModify, Bwrite, Holding
  <2>2. b[p] \in Buffer /\ blockno[b[p]] = want[p]
    BY <2>1 DEF CInv, TInv, BcacheTypeOK, OneCopy, Holding
  <2>3. blockno' = blockno BY <1>5 DEF Read, BufModify, Bwrite
  <2>4. \A i \in Buffer : i # b[p] => valid'[i] = valid[i] /\ data'[i] = data[i]
    <3> SUFFICES ASSUME NEW i \in Buffer, i # b[p]
                 PROVE  valid'[i] = valid[i] /\ data'[i] = data[i]
      OBVIOUS
    <3> USE <2>2 DEF CInv, TInv, BcacheTypeOK
    <3>1. CASE Read(p) BY <3>1, Zenon DEF Read
    <3>2. CASE \E v \in BufVal : BufModify(p, v) BY <3>2, ZenonT(40) DEF BufModify
    <3>3. CASE Bwrite(p) BY <3>3 DEF Bwrite
    <3> QED BY <1>5, <3>1, <3>2, <3>3
  <2>5. \A m \in BufBlock : m # want[p] => disk'[m] = disk[m]
    BY <1>5, <2>2, Zenon DEF Read, BufModify, Bwrite, CInv, TInv, BcacheTypeOK
  <2> QED BY <2>1, <2>3, <2>4, <2>5, HolderView
<1>6. CASE BcacheNext BY <1>2, <1>3, <1>4, <1>5, <1>6, Zenon DEF BcacheNext, BufStep
<1> QED BY <1>1, <1>6

\* The contents of a block change only while a process that asked for it holds
\* its buffer: bget() recycles buffers whose contents are on the disk, and
\* brelse() and install_trans() give none up too early.
THEOREM CacheCoherent == ASSUME CleanBoot PROVE BcacheSpec => Coherent
<1>1. CInv /\ CInv' /\ [BcacheNext]_bcacheVars =>
         [\A k \in BufBlock :
            View(k)' # View(k) => \E p \in BufProc : want[p] = k /\ Holding(p)]_bcacheVars
  BY StepCoherent
<1> QED BY <1>1, BcacheInvariant, PTL DEF BcacheSpec, Coherent

-----------------------------------------------------------------------------
(* Both, each on its own.                                                  *)

\* The log and the buffer cache, of which the first state picks one, each behave
\* as their specifications say.
THEOREM CacheSuite == SuiteSpec => LogSpec /\ BcacheSpec
<1>1. SuiteInit => LogInit /\ BcacheInit
  BY DEF SuiteInit
<1>2. [SuiteNext]_suiteVars => [LogNext]_redoVars /\ [BcacheNext]_bcacheVars
  BY DEF SuiteNext, suiteVars
<1> QED BY <1>1, <1>2, PTL DEF SuiteSpec, LogSpec, BcacheSpec

\* The header, the counters, the list and the locks of the log and of the buffer
\* cache keep their types, recovery included.
THEOREM CacheTypeCorrect == SuiteSpec => []CacheTypeOK
<1>1. LogTypeOK /\ BcacheTypeOK => CacheTypeOK
  BY DEF CacheTypeOK
<1> QED BY <1>1, CacheSuite, LogTypeCorrect, BcacheTypeCorrect, PTL
=============================================================================
