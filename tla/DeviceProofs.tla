---------------------------- MODULE DeviceProofs ----------------------------
(***************************************************************************)
(* Proofs about the devices: the console's input (Console), the serial     *)
(* port's output (Uart) and the disk driver (VirtioDisk), for any number   *)
(* of processes and any size of their rings.                               *)
(*                                                                         *)
(* ConsInv, UartInv and DiskInv are the inductive invariants.  ConsInv     *)
(* adds to the properties that a read which has begun still wants          *)
(* characters, UartInv the types of the histories.  DiskInv says what the  *)
(* chain of a request looks like, that chains are apart and that every     *)
(* descriptor in use is in one; and that the heads between the indices of  *)
(* the two rings and those the device works on belong to different         *)
(* requests that wait.  A chain takes three descriptors, so there are      *)
(* fewer requests than entries and neither ring ever fills up.             *)
(***************************************************************************)
EXTENDS MCDevices, Console, Uart, PipeProofs, SequenceTheorems, FiniteSetTheorems

-----------------------------------------------------------------------------
(* The console: consoleread(), consolewrite() and consoleintr(). *)
\* A call that has begun has something left to read.
Calls ==
    /\ rneed \in [Reader -> Nat] /\ rtarget \in [Reader -> Nat] /\ rresult \in [Reader -> Int]
    /\ \A p \in Reader : rpc[p] # "idle" => rneed[p] \in 1..rtarget[p]

LineHistory == committed \in Seq(Typed) /\ consumed \in Seq(Typed)

ConsInv == ConsTypeOK /\ Calls /\ LineHistory /\ InputRing /\ NoSleepOnInput
-----------------------------------------------------------------------------
\* The distance between two indices, and an index that moves.
LEMMA MinusIs ==
    ASSUME NEW i \in 0..UintRange - 1, NEW k \in 0..UintRange
    PROVE  /\ Minus(i, k) = IF k <= i THEN i - k ELSE i - k + UintRange
           /\ Minus(i, k) \in 0..UintRange - 1
<1> DEFINE n == UintRange
<1>1. n \in Nat \ {0} BY ConsoleAssumption
<1>2. CASE k <= i
  <2>1. i - k \in 0..n - 1 /\ i - k + n = 1 * n + (i - k) BY <1>1, <1>2
  <2>2. (i - k + n) % n = i - k BY <1>1, <2>1, ModUnique
  <2> QED BY <1>2, <2>1, <2>2 DEF Minus
<1>3. CASE i < k
  <2>1. i - k + n \in 0..n - 1 /\ i - k + n = 0 * n + (i - k + n) BY <1>1, <1>3
  <2>2. (i - k + n) % n = i - k + n BY <1>1, <2>1, ModUnique
  <2> QED BY <1>3, <2>1, <2>2 DEF Minus
<1> QED BY <1>1, <1>2, <1>3

\* An index that moves on.
LEMMA PlusIs ==
    ASSUME NEW i \in 0..UintRange - 1, NEW k \in 0..UintRange
    PROVE  /\ Plus(i, k) = IF i + k < UintRange THEN i + k ELSE i + k - UintRange
           /\ Plus(i, k) \in 0..UintRange - 1
<1>1. UintRange \in Nat \ {0} BY ConsoleAssumption
<1>2. (i + k) % UintRange = IF i + k < UintRange THEN i + k ELSE i + k - UintRange
  BY <1>1, ModPlus, Zenon
<1> QED BY <1>1, <1>2 DEF Plus

\* The characters from slot i up to slot j of ring f.
Ring(f, i, j) == [k \in 1..Minus(j, i) |-> f[Plus(i, k - 1) % INPUT_BUF]]

\* The characters between two indices.
LEMMA BetweenIsRing == \A i, j : Between(i, j) = Ring(cbuf, i, j)
BY DEF Between, At, Ring

\* What a character of the ring is.
LEMMA RingIs ==
    ASSUME NEW f \in [0..INPUT_BUF - 1 -> Typed],
           NEW i \in 0..UintRange - 1, NEW j \in 0..UintRange - 1
    PROVE  /\ Ring(f, i, j) \in Seq(Typed)
           /\ Len(Ring(f, i, j)) = Minus(j, i) /\ Minus(j, i) \in 0..UintRange - 1
           /\ \A k \in 1..Minus(j, i) : Ring(f, i, j)[k] = f[Plus(i, k - 1) % INPUT_BUF]
<1> DEFINE n == Minus(j, i)  s == [k \in 1..n |-> f[Plus(i, k - 1) % INPUT_BUF]]
<1>1. n \in 0..UintRange - 1
  <2>1. i \in 0..UintRange BY ConsoleAssumption
  <2> QED BY <2>1, MinusIs
<1>2. \A k \in 1..n : f[Plus(i, k - 1) % INPUT_BUF] \in Typed
  <2> SUFFICES ASSUME NEW k \in 1..n PROVE f[Plus(i, k - 1) % INPUT_BUF] \in Typed OBVIOUS
  <2>1. k - 1 \in 0..UintRange BY <1>1, ConsoleAssumption
  <2>2. Plus(i, k - 1) \in Int BY <2>1, PlusIs
  <2>3. Plus(i, k - 1) % INPUT_BUF \in 0..INPUT_BUF - 1 BY <2>2, ConsoleAssumption, ModRange
  <2> QED BY <2>3
<1> HIDE DEF n
<1>3. s \in [1..n -> Typed] BY <1>2
<1>4. s \in Seq(Typed) /\ Len(s) = n BY <1>1, <1>3
<1>5. Ring(f, i, j) = s BY DEF Ring, n
<1> QED BY <1>1, <1>4, <1>5 DEF n

\* The characters of adjacent slots.
LEMMA RingSplit ==
    ASSUME NEW f \in [0..INPUT_BUF - 1 -> Typed], NEW r \in 0..UintRange - 1,
           NEW w \in 0..UintRange - 1, NEW e \in 0..UintRange - 1,
           Minus(e, r) = Minus(w, r) + Minus(e, w)
    PROVE  Ring(f, r, e) = Ring(f, r, w) \o Ring(f, w, e)
<1> DEFINE S == Ring(f, r, e)  T == Ring(f, r, w)  V == Ring(f, w, e)
<1>1. S \in Seq(Typed) /\ T \in Seq(Typed) /\ V \in Seq(Typed)
      /\ Len(S) = Minus(e, r) /\ Len(T) = Minus(w, r) /\ Len(V) = Minus(e, w)
      /\ Minus(e, r) \in 0..UintRange - 1 /\ Minus(w, r) \in Nat
      /\ Minus(e, w) \in 0..UintRange - 1
  <2>1. /\ S \in Seq(Typed) /\ Len(S) = Minus(e, r) /\ Minus(e, r) \in 0..UintRange - 1
    BY RingIs, Zenon
  <2>2. T \in Seq(Typed) /\ Len(T) = Minus(w, r) /\ Minus(w, r) \in 0..UintRange - 1
    BY RingIs, Zenon
  <2>3. V \in Seq(Typed) /\ Len(V) = Minus(e, w) /\ Minus(e, w) \in 0..UintRange - 1
    BY RingIs, Zenon
  <2> HIDE DEF S, T, V
  <2> QED BY <2>1, <2>2, <2>3, ConsoleAssumption
<1>a. /\ \A k \in 1..Minus(e, r) : S[k] = f[Plus(r, k - 1) % INPUT_BUF]
      /\ \A k \in 1..Minus(w, r) : T[k] = f[Plus(r, k - 1) % INPUT_BUF]
      /\ \A k \in 1..Minus(e, w) : V[k] = f[Plus(w, k - 1) % INPUT_BUF]
  BY RingIs, Zenon
<1> HIDE DEF S, T, V
<1>2. T \o V \in Seq(Typed) /\ Len(T \o V) = Len(S) BY <1>1
<1>3. ASSUME NEW k \in 1..Len(S) PROVE S[k] = (T \o V)[k]
  <2>1. S[k] = f[Plus(r, k - 1) % INPUT_BUF] BY <1>1, <1>a
  <2>2. CASE k <= Len(T)
    <3>1. T[k] = f[Plus(r, k - 1) % INPUT_BUF] BY <1>1, <1>a, <2>2
    <3>2. (T \o V)[k] = T[k] BY <1>1, <2>2
    <3> QED BY <2>1, <3>1, <3>2
  <2>3. CASE k > Len(T)
    <3>1. PICK l \in 1..Minus(e, w) : k = Minus(w, r) + l
      <4>1. k - Minus(w, r) \in 1..Minus(e, w) BY <1>1, <2>3
      <4> QED BY <1>1, <4>1
    <3>2. (T \o V)[k] = V[l] BY SMTT(30), <1>1, <2>3, <3>1
    <3>3. V[l] = f[Plus(w, l - 1) % INPUT_BUF] BY <1>a, <3>1
    <3>4. Plus(w, l - 1) = Plus(r, k - 1)
      <4>0. UintRange \in Nat /\ r \in 0..UintRange /\ k - 1 \in 0..UintRange /\ l - 1 \in 0..UintRange
        <5>1. k \in 1..Minus(e, r) BY <1>1
        <5>2. \A x \in 1..Minus(e, w) : x - 1 \in 0..UintRange
          <6>1. UintRange \in Nat /\ Minus(e, w) \in Nat /\ Minus(e, w) <= UintRange
            BY <1>1, ConsoleAssumption
          <6> QED BY <6>1
        <5>3. UintRange \in Nat /\ Minus(e, r) <= UintRange BY SMTT(30), <1>1, ConsoleAssumption
        <5>4. k - 1 \in 0..UintRange BY <5>1, <5>3, <1>1
        <5>5. l - 1 \in 0..UintRange BY <3>1, <5>2
        <5>6. r \in 0..UintRange BY <5>3
        <5> QED BY <5>3, <5>4, <5>5, <5>6
      <4>1. Plus(w, l - 1) = IF w + (l - 1) < UintRange THEN w + (l - 1) ELSE w + (l - 1) - UintRange
        BY <4>0, PlusIs
      <4>2. Plus(r, k - 1) = IF r + (k - 1) < UintRange THEN r + (k - 1) ELSE r + (k - 1) - UintRange
        BY <4>0, PlusIs
      <4>3. Minus(w, r) = IF r <= w THEN w - r ELSE w - r + UintRange BY <4>0, MinusIs
      <4> QED BY SMTT(30), <1>1, <3>1, <4>0, <4>1, <4>2, <4>3
    <3> QED BY <2>1, <3>2, <3>3, <3>4
  <2> QED BY <1>1, <2>2, <2>3
<1>4. S = T \o V BY <1>1, <1>2, <1>3, SeqEqual
<1> QED BY <1>4 DEF S, T, V

\* A ring with one character.
LEMMA RingOne ==
    ASSUME NEW f \in [0..INPUT_BUF - 1 -> Typed], NEW i \in 0..UintRange - 1
    PROVE  /\ Plus(i, 1) \in 0..UintRange - 1 /\ Minus(Plus(i, 1), i) = 1
           /\ Ring(f, i, Plus(i, 1)) = <<f[i % INPUT_BUF]>>
<1> DEFINE j == Plus(i, 1)
<1>0. UintRange \in Nat /\ UintRange > 2 /\ 1 \in 0..UintRange /\ 0 \in 0..UintRange /\ i \in 0..UintRange
  BY ConsoleAssumption
<1>1. j \in 0..UintRange - 1 /\ j = IF i + 1 < UintRange THEN i + 1 ELSE i + 1 - UintRange
  BY <1>0, PlusIs
<1>2. Plus(i, 0) = i BY <1>0, PlusIs
<1> HIDE DEF j
<1>3. Minus(j, i) = IF i <= j THEN j - i ELSE j - i + UintRange BY <1>0, <1>1, MinusIs
<1>4. Minus(j, i) = 1 BY <1>0, <1>1, <1>3
<1>5. Ring(f, i, j) \in Seq(Typed) /\ Len(Ring(f, i, j)) = 1
      /\ Ring(f, i, j)[1] = f[Plus(i, 1 - 1) % INPUT_BUF]
  <2>1. /\ Ring(f, i, j) \in Seq(Typed) /\ Len(Ring(f, i, j)) = Minus(j, i)
        /\ \A k \in 1..Minus(j, i) : Ring(f, i, j)[k] = f[Plus(i, k - 1) % INPUT_BUF]
    BY <1>1, RingIs, ZenonT(40)
  <2>2. 1 \in 1..1 OBVIOUS
  <2> QED BY <1>4, <2>1, <2>2, Zenon
<1>6. 1 - 1 = 0 OBVIOUS
<1>7. Ring(f, i, j) = <<f[i % INPUT_BUF]>> BY <1>2, <1>5, <1>6
<1> QED BY <1>1, <1>4, <1>7 DEF j

\* The three indices by their distances.
LEMMA Distances ==
    ASSUME ConsTypeOK, RingOrdered
    PROVE  /\ Minus(cw, cr) \in Nat /\ Minus(ce, cr) \in 0..INPUT_BUF /\ Minus(ce, cw) \in Nat
           /\ Minus(ce, cr) = Minus(cw, cr) + Minus(ce, cw)
           /\ (cr = cw <=> Minus(cw, cr) = 0)
<1>1. /\ Minus(cw, cr) = IF cr <= cw THEN cw - cr ELSE cw - cr + UintRange
      /\ Minus(ce, cr) = IF cr <= ce THEN ce - cr ELSE ce - cr + UintRange
      /\ Minus(ce, cw) = IF cw <= ce THEN ce - cw ELSE ce - cw + UintRange
  <2>1. cr \in 0..UintRange /\ cw \in 0..UintRange BY ConsoleAssumption DEF ConsTypeOK
  <2> QED BY <2>1, MinusIs DEF ConsTypeOK
<1> QED BY <1>1, ConsoleAssumption DEF ConsTypeOK, RingOrdered

\* ^U and ^H take back part of the line that is being edited.
LEMMA BackIs ==
    ASSUME ConsTypeOK, RingOrdered, NEW d \in 0..Minus(ce, cw)
    PROVE  /\ Minus(ce, d) \in 0..UintRange - 1
           /\ Minus(Minus(ce, d), cr) = Minus(ce, cr) - d
           /\ Minus(cw, cr) <= Minus(Minus(ce, d), cr)
<1> DEFINE e == Minus(ce, d)
<1>0. cr \in 0..UintRange /\ cw \in 0..UintRange /\ UintRange \in Nat /\ UintRange > 2 * INPUT_BUF
  BY ConsoleAssumption DEF ConsTypeOK
<1>1. /\ Minus(ce, cr) = IF cr <= ce THEN ce - cr ELSE ce - cr + UintRange
      /\ Minus(ce, cw) = IF cw <= ce THEN ce - cw ELSE ce - cw + UintRange
  BY <1>0, MinusIs DEF ConsTypeOK
<1>2. /\ Minus(cw, cr) \in Nat /\ Minus(ce, cr) \in 0..INPUT_BUF /\ Minus(ce, cw) \in Nat
      /\ Minus(ce, cr) = Minus(cw, cr) + Minus(ce, cw)
  BY Distances
<1>3. d \in 0..UintRange BY <1>0, <1>2, ConsoleAssumption
<1>4. e \in 0..UintRange - 1 /\ e = IF d <= ce THEN ce - d ELSE ce - d + UintRange
  BY <1>3, MinusIs DEF ConsTypeOK
<1> HIDE DEF e
<1>5. Minus(e, cr) = IF cr <= e THEN e - cr ELSE e - cr + UintRange
  BY <1>0, <1>4, MinusIs
<1>6. Minus(e, cr) = Minus(ce, cr) - d
  BY <1>0, <1>1, <1>2, <1>4, <1>5, ConsoleAssumption DEF ConsTypeOK
<1>7. Minus(cw, cr) <= Minus(e, cr) BY <1>2, <1>6
<1> QED BY <1>4, <1>6, <1>7 DEF e

\* Another character makes the line one longer.
LEMMA AheadIs ==
    ASSUME ConsTypeOK, RingOrdered, ~ConsFull
    PROVE  /\ Plus(ce, 1) \in 0..UintRange - 1
           /\ Minus(ce, cr) \in 0..INPUT_BUF - 1
           /\ Minus(Plus(ce, 1), cr) = Minus(ce, cr) + 1
<1> DEFINE e == Plus(ce, 1)
<1>0. cr \in 0..UintRange /\ UintRange \in Nat /\ UintRange > 2 * INPUT_BUF /\ 1 \in 0..UintRange
  BY ConsoleAssumption DEF ConsTypeOK
<1>1. /\ Minus(ce, cr) = IF cr <= ce THEN ce - cr ELSE ce - cr + UintRange
      /\ Minus(ce, cr) \in 0..UintRange - 1
  BY <1>0, MinusIs DEF ConsTypeOK
<1>2. e \in 0..UintRange - 1 /\ e = IF ce + 1 < UintRange THEN ce + 1 ELSE ce + 1 - UintRange
  BY <1>0, PlusIs DEF ConsTypeOK
<1> HIDE DEF e
<1>3. Minus(e, cr) = IF cr <= e THEN e - cr ELSE e - cr + UintRange
  BY <1>0, <1>2, MinusIs
<1>4. Minus(ce, cr) < INPUT_BUF BY <1>1, ConsoleAssumption DEF ConsFull
<1>5. Minus(e, cr) = Minus(ce, cr) + 1
  BY <1>0, <1>1, <1>2, <1>3, <1>4, ConsoleAssumption DEF ConsTypeOK
<1> QED BY <1>1, <1>2, <1>4, <1>5, ConsoleAssumption DEF e

\* Taking a character makes the ring one shorter.
LEMMA TakeIs ==
    ASSUME ConsTypeOK, RingOrdered, cr # cw
    PROVE  /\ Plus(cr, 1) \in 0..UintRange - 1
           /\ Minus(cw, cr) \in Nat \ {0}
           /\ Minus(cw, Plus(cr, 1)) = Minus(cw, cr) - 1
           /\ Minus(ce, Plus(cr, 1)) = Minus(ce, cr) - 1
<1> DEFINE r == Plus(cr, 1)
<1>0. /\ cr \in 0..UintRange /\ UintRange \in Nat /\ UintRange > 2 * INPUT_BUF
      /\ 1 \in 0..UintRange
      /\ cr \in 0..UintRange - 1 /\ cw \in 0..UintRange - 1 /\ ce \in 0..UintRange - 1
  BY ConsoleAssumption DEF ConsTypeOK
<1>1. /\ Minus(ce, cr) = IF cr <= ce THEN ce - cr ELSE ce - cr + UintRange
      /\ Minus(cw, cr) = IF cr <= cw THEN cw - cr ELSE cw - cr + UintRange
  BY <1>0, MinusIs DEF ConsTypeOK
<1>2. r \in 0..UintRange - 1 /\ r = IF cr + 1 < UintRange THEN cr + 1 ELSE cr + 1 - UintRange
  BY <1>0, PlusIs DEF ConsTypeOK
<1> HIDE DEF r
<1>3. /\ Minus(ce, r) = IF r <= ce THEN ce - r ELSE ce - r + UintRange
      /\ Minus(cw, r) = IF r <= cw THEN cw - r ELSE cw - r + UintRange
  <2>1. r \in 0..UintRange BY <1>0, <1>2
  <2> QED BY <2>1, MinusIs DEF ConsTypeOK
<1>4. Minus(cw, cr) \in Nat \ {0} /\ Minus(cw, cr) <= Minus(ce, cr)
  BY Distances DEF RingOrdered
<1>5. Minus(cw, r) = Minus(cw, cr) - 1
  BY <1>0, <1>1, <1>2, <1>3, <1>4
<1>6. Minus(ce, r) = Minus(ce, cr) - 1
  BY <1>0, <1>1, <1>2, <1>3, <1>4
<1> QED BY <1>2, <1>4, <1>5, <1>6 DEF r

\* A character that is added goes to a slot of its own.
LEMMA AddIs ==
    ASSUME ConsTypeOK, RingOrdered, ~ConsFull, NEW c \in Typed, NEW f,
           f = [cbuf EXCEPT ![ce % INPUT_BUF] = c]
    PROVE  /\ f \in [0..INPUT_BUF - 1 -> Typed] /\ f[ce % INPUT_BUF] = c
           /\ Ring(f, cr, cw) = Ring(cbuf, cr, cw)
           /\ Ring(f, cr, Plus(ce, 1)) = Ring(cbuf, cr, cw) \o Ring(cbuf, cw, ce) \o <<c>>
<1>0. /\ INPUT_BUF \in Nat \ {0} /\ UintRange \in Nat \ {0} /\ INPUT_BUF <= UintRange
      /\ Divides(INPUT_BUF, UintRange)
      /\ cr \in 0..UintRange - 1 /\ cw \in 0..UintRange - 1 /\ ce \in 0..UintRange - 1
      /\ cr \in 0..UintRange
  BY ConsoleAssumption DEF ConsTypeOK, Divides
<1>1. ce % INPUT_BUF \in 0..INPUT_BUF - 1
  <2>1. ce \in Int BY <1>0
  <2> QED BY <1>0, <2>1, ModRange
<1>2. f \in [0..INPUT_BUF - 1 -> Typed] /\ f[ce % INPUT_BUF] = c BY <1>1 DEF ConsTypeOK
<1>3. /\ Minus(ce, cr) \in 0..INPUT_BUF - 1 /\ Plus(ce, 1) \in 0..UintRange - 1
      /\ Minus(Plus(ce, 1), cr) = Minus(ce, cr) + 1
  BY AheadIs
<1>4. /\ Minus(cw, cr) \in Nat /\ Minus(cw, cr) <= Minus(ce, cr)
      /\ Minus(ce, cr) = Minus(cw, cr) + Minus(ce, cw)
  BY Distances DEF RingOrdered
<1>5. ce = Plus(cr, Minus(ce, cr))
  <2>1. Minus(ce, cr) = IF cr <= ce THEN ce - cr ELSE ce - cr + UintRange BY <1>0, MinusIs
  <2>2. Minus(ce, cr) \in 0..UintRange BY <1>0, <1>3
  <2>3. Plus(cr, Minus(ce, cr)) = IF cr + Minus(ce, cr) < UintRange THEN cr + Minus(ce, cr)
                                  ELSE cr + Minus(ce, cr) - UintRange
    BY <1>0, <2>2, PlusIs
  <2> QED BY <1>0, <2>1, <2>3
<1>6. ASSUME NEW k \in 1..Minus(ce, cr)
      PROVE  f[Plus(cr, k - 1) % INPUT_BUF] = cbuf[Plus(cr, k - 1) % INPUT_BUF]
  <2>1. /\ ((cr + k - 1) % UintRange) % INPUT_BUF \in 0..INPUT_BUF - 1
        /\ ((cr + k - 1) % UintRange) % INPUT_BUF # ((cr + Minus(ce, cr)) % UintRange) % INPUT_BUF
    BY <1>0, <1>3, RingSlots, Zenon
  <2>2. (cr + k - 1) % UintRange = Plus(cr, k - 1)
    <3>1. cr + k - 1 = cr + (k - 1) BY <1>0, <1>3
    <3> QED BY <3>1 DEF Plus
  <2>3. (cr + Minus(ce, cr)) % UintRange = ce BY <1>5 DEF Plus
  <2>4. Plus(cr, k - 1) % INPUT_BUF \in 0..INPUT_BUF - 1 /\ Plus(cr, k - 1) % INPUT_BUF # ce % INPUT_BUF
    BY <2>1, <2>2, <2>3
  <2> QED BY <2>4 DEF ConsTypeOK
<1>7. Ring(f, cr, cw) = Ring(cbuf, cr, cw)
  <2>1. \A k \in 1..Minus(cw, cr) : k \in 1..Minus(ce, cr) BY <1>3, <1>4
  <2> QED BY <1>6, <2>1 DEF Ring
<1>8. Ring(f, cr, ce) = Ring(cbuf, cr, ce) BY <1>6 DEF Ring
<1>9. Ring(cbuf, cr, ce) = Ring(cbuf, cr, cw) \o Ring(cbuf, cw, ce)
  BY <1>0, <1>4, RingSplit DEF ConsTypeOK
<1>10. Ring(f, ce, Plus(ce, 1)) = <<c>> /\ Minus(Plus(ce, 1), ce) = 1 BY <1>0, <1>2, RingOne
<1>11. Ring(f, cr, Plus(ce, 1)) = Ring(f, cr, ce) \o Ring(f, ce, Plus(ce, 1))
  <2>1. Minus(Plus(ce, 1), cr) = Minus(ce, cr) + Minus(Plus(ce, 1), ce) BY <1>3, <1>10
  <2>2. \A g \in [0..INPUT_BUF - 1 -> Typed] :
            Ring(g, cr, Plus(ce, 1)) = Ring(g, cr, ce) \o Ring(g, ce, Plus(ce, 1))
    BY <1>0, <1>3, <2>1, RingSplit, ZenonT(40)
  <2> QED BY <1>2, <2>2
<1> QED BY <1>2, <1>7, <1>8, <1>9, <1>10, <1>11

\* The first character is taken from the rest.
LEMMA TakeFirst ==
    ASSUME ConsTypeOK, RingOrdered, cr # cw
    PROVE  /\ Ring(cbuf, cr, cw) = <<At(cr)>> \o Ring(cbuf, Plus(cr, 1), cw)
           /\ At(cr) \in Typed
<1>1. /\ Plus(cr, 1) \in 0..UintRange - 1 /\ Minus(cw, cr) \in Nat
      /\ Minus(cw, Plus(cr, 1)) = Minus(cw, cr) - 1
  BY TakeIs
<1>2. cr \in 0..UintRange - 1 /\ cw \in 0..UintRange - 1 /\ cbuf \in [0..INPUT_BUF - 1 -> Typed]
  BY DEF ConsTypeOK
<1>3. Minus(Plus(cr, 1), cr) = 1 /\ Ring(cbuf, cr, Plus(cr, 1)) = <<At(cr)>>
  BY <1>2, RingOne, Zenon DEF At
<1>4. Minus(cw, cr) = Minus(Plus(cr, 1), cr) + Minus(cw, Plus(cr, 1)) BY <1>1, <1>3
<1>5. Ring(cbuf, cr, cw) = Ring(cbuf, cr, Plus(cr, 1)) \o Ring(cbuf, Plus(cr, 1), cw)
  BY <1>1, <1>2, <1>4, RingSplit, Zenon
<1>6. cr % INPUT_BUF \in 0..INPUT_BUF - 1
  <2>1. cr \in Int BY <1>2, ConsoleAssumption
  <2> QED BY <2>1, ModRange, ConsoleAssumption
<1> QED BY <1>2, <1>3, <1>5, <1>6 DEF At

-----------------------------------------------------------------------------
\* The initial states satisfy ConsInv.
LEMMA InitConsInv == ConsInit => ConsInv
<1> SUFFICES ASSUME ConsInit PROVE ConsInv OBVIOUS
<1> USE ConsoleAssumption DEF ConsInit
<1>1. ConsTypeOK BY DEF ConsTypeOK, Typed
<1>2. Calls BY DEF Calls
<1>3. LineHistory BY DEF LineHistory
<1>4. Minus(cr, cr) = 0 /\ cr = cw /\ cr = ce
  <2>1. cr \in 0..UintRange - 1 /\ cr \in 0..UintRange OBVIOUS
  <2> QED BY <2>1, MinusIs
<1>5. InputRing
  <2>1. RingOrdered /\ FullRingReadable BY <1>4 DEF RingOrdered, FullRingReadable
  <2>2. Between(cr, cw) = <<>> BY <1>4 DEF Between
  <2> QED BY <2>1, <2>2 DEF InputRing, LinesIntact
<1>6. NoSleepOnInput BY DEF NoSleepOnInput
<1> QED BY <1>1, <1>2, <1>3, <1>5, <1>6 DEF ConsInv

\* A step that moves no index and writes nothing keeps the ring.
LEMMA RingKept ==
    ASSUME InputRing, UNCHANGED <<cbuf, cr, cw, ce, committed, consumed>>
    PROVE  InputRing'
BY DEF InputRing, RingOrdered, LinesIntact, FullRingReadable, Between, At, Minus, Plus

\* consoleintr() for ^U and ^H.
LEMMA EditInv ==
    ASSUME ConsInv, NEW d \in 0..Minus(ce, cw), ce' = Minus(ce, d),
           UNCHANGED <<cbuf, cr, cw, rpc, rneed, rtarget, rresult, committed, consumed>>
    PROVE  ConsInv'
<1> USE DEF ConsInv
<1>1. /\ Minus(ce, d) \in 0..UintRange - 1
      /\ Minus(Minus(ce, d), cr) = Minus(ce, cr) - d
      /\ Minus(cw, cr) <= Minus(Minus(ce, d), cr)
  BY BackIs DEF InputRing
<1>2. /\ Minus(ce, cr) \in 0..INPUT_BUF /\ Minus(ce, cw) \in Nat /\ INPUT_BUF \in Nat
  BY Distances, ConsoleAssumption DEF InputRing
<1>3. ConsTypeOK' BY <1>1 DEF ConsTypeOK
<1>4. Calls' /\ LineHistory' /\ NoSleepOnInput' BY DEF Calls, LineHistory, NoSleepOnInput
<1>5. RingOrdered' BY <1>1, <1>2 DEF RingOrdered, Minus
<1>6. LinesIntact' BY DEF InputRing, LinesIntact, Between, At, Minus, Plus
<1>7. FullRingReadable'
  <2>1. Minus(ce', cr') = Minus(ce, cr) - d BY <1>1
  <2> QED BY <1>2, <2>1 DEF InputRing, FullRingReadable, Minus
<1> QED BY <1>3, <1>4, <1>5, <1>6, <1>7 DEF InputRing

\* KillLine keeps ConsInv.
LEMMA KillLineInv ==
    ASSUME ConsInv, KillLine, UNCHANGED <<cbuf, cw, rpc, committed, cr, rneed, rtarget, rresult, consumed>>
    PROVE  ConsInv'
<1> DEFINE n == Len(Editable)
           nl == {k \in 0..n : k = 0 \/ Editable[k] = "nl"}
           keep == {k \in 0..n : (k = 0 \/ Editable[k] = "nl") /\ \A j \in k + 1..n : Editable[j] # "nl"}
<1>1. n = Minus(ce, cw) /\ n \in Nat
  <2>1. Editable = Ring(cbuf, cw, ce) BY BetweenIsRing DEF Editable
  <2>2. cw \in 0..UintRange - 1 /\ ce \in 0..UintRange - 1 /\ cbuf \in [0..INPUT_BUF - 1 -> Typed]
    BY DEF ConsInv, ConsTypeOK
  <2>3. n = Minus(ce, cw) BY <2>1, <2>2, RingIs, Zenon
  <2> QED BY <2>3, Distances DEF ConsInv, InputRing
<1> HIDE DEF n
<1>2. PICK k \in nl : \A l \in nl : l <= k
  <2>1. nl \in SUBSET (0..n) /\ 0 \in nl BY <1>1
  <2> QED BY <1>1, <2>1, Greatest
<1>3. k \in keep
  <2>1. \A j \in k + 1..n : j \in 0..n /\ ~(j <= k) BY <1>1, <1>2
  <2> QED BY <1>2, <2>1
<1>4. (CHOOSE x \in keep : TRUE) \in keep BY <1>3
<1>5. PICK x \in 0..n : ce' = Minus(ce, n - x)
  BY <1>4 DEF KillLine, n
<1>6. n - x \in 0..Minus(ce, cw) BY <1>1
<1> QED BY <1>5, <1>6, EditInv

\* Erase keeps ConsInv.
LEMMA EraseInv ==
    ASSUME ConsInv, Erase, UNCHANGED <<cbuf, cw, rpc, committed, cr, rneed, rtarget, rresult, consumed>>
    PROVE  ConsInv'
<1>1. Minus(ce, cw) \in Nat /\ ce \in 0..UintRange - 1 /\ UintRange \in Nat
  BY Distances, ConsoleAssumption DEF ConsInv, InputRing, ConsTypeOK
<1>2. CASE Editable = <<>>
  <2>1. ce' = ce BY <1>2 DEF Erase
  <2>2. Minus(ce, 0) = ce /\ 0 \in 0..Minus(ce, cw)
    <3>1. 0 \in 0..UintRange BY <1>1
    <3> QED BY <1>1, <3>1, MinusIs
  <2> QED BY <2>1, <2>2, EditInv
<1>3. CASE Editable # <<>>
  <2>1. Minus(ce, cw) # 0
    <3>1. Minus(ce, cw) = 0 => Editable = <<>> BY DEF Editable, Between
    <3> QED BY <1>3, <3>1
  <2>2. 1 \in 0..Minus(ce, cw) /\ ce' = Minus(ce, 1) BY <1>1, <1>3, <2>1 DEF Erase
  <2> QED BY <2>2, EditInv
<1> QED BY <1>2, <1>3

\* A character is added; at the end of a line the readers are woken.
LEMMA Append1Inv ==
    ASSUME ConsInv, NEW c \in Typed, Append1(c),
           UNCHANGED <<cr, rneed, rtarget, rresult, consumed>>
    PROVE  ConsInv'
<1> USE DEF ConsInv
<1>0. /\ cr \in 0..UintRange - 1 /\ cw \in 0..UintRange - 1 /\ ce \in 0..UintRange - 1
      /\ cbuf \in [0..INPUT_BUF - 1 -> Typed] /\ INPUT_BUF \in Nat \ {0}
      /\ rpc \in [Reader -> {"idle", "read", "sleep", "killed"}]
  BY ConsoleAssumption DEF ConsTypeOK
<1>1. CASE ConsFull
  <2>1. UNCHANGED <<cbuf, cw, ce, rpc, committed>> BY <1>1 DEF Append1
  <2>2. ConsTypeOK' /\ Calls' /\ LineHistory' /\ NoSleepOnInput'
    BY <2>1 DEF ConsTypeOK, Calls, LineHistory, NoSleepOnInput
  <2>3. InputRing' BY <2>1, RingKept
  <2> QED BY <2>2, <2>3
<1>2. CASE ~ConsFull
  <2>1. cbuf' = [cbuf EXCEPT ![ce % INPUT_BUF] = c] /\ ce' = Plus(ce, 1)
    BY <1>2 DEF Append1
  <2>2. PICK f : f = cbuf' OBVIOUS
  <2>3. /\ f \in [0..INPUT_BUF - 1 -> Typed]
        /\ Ring(f, cr, cw) = Ring(cbuf, cr, cw)
        /\ Ring(f, cr, Plus(ce, 1)) = Ring(cbuf, cr, cw) \o Ring(cbuf, cw, ce) \o <<c>>
    BY <1>2, <2>1, <2>2, AddIs DEF InputRing
  <2>4. /\ Plus(ce, 1) \in 0..UintRange - 1 /\ Minus(ce, cr) \in 0..INPUT_BUF - 1
        /\ Minus(Plus(ce, 1), cr) = Minus(ce, cr) + 1
    BY <1>2, AheadIs DEF InputRing
  <2>5. Minus(cw, cr) \in Nat /\ Minus(cw, cr) <= Minus(ce, cr)
    BY Distances DEF InputRing, RingOrdered
  <2>6. committed = consumed \o Ring(cbuf, cr, cw)
    BY BetweenIsRing DEF InputRing, LinesIntact
  <2>7. committed \in Seq(Typed) /\ consumed \in Seq(Typed) BY DEF LineHistory
  <2>8. /\ Ring(cbuf, cr, cw) \in Seq(Typed) /\ Ring(cbuf, cw, ce) \in Seq(Typed)
    BY <1>0, RingIs, Zenon
  <2>9. Between(cr, cw)' = Ring(f, cr, cw') BY <2>2 DEF Between, At, Ring, Minus, Plus
  <2>11. CASE Completes(c, Plus(ce, 1))
    <3>1. /\ cw' = Plus(ce, 1) /\ WakeReaders
          /\ committed' = committed \o Between(cw, ce) \o <<c>>
      BY <1>2, <2>11 DEF Append1
    <3>2. rpc' \in [Reader -> {"idle", "read", "sleep", "killed"}] BY <1>0, <3>1 DEF WakeReaders
    <3>3. ConsTypeOK' BY <2>1, <2>2, <2>3, <2>4, <3>1, <3>2 DEF ConsTypeOK
    <3>4. Calls' BY <1>0, <3>1 DEF Calls, WakeReaders
    <3>5. NoSleepOnInput' BY <1>0, <3>1 DEF NoSleepOnInput, WakeReaders
    <3>6. Between(cw, ce) = Ring(cbuf, cw, ce) BY BetweenIsRing
    <3>7. committed' \in Seq(Typed) BY <2>7, <2>8, <3>1, <3>6
    <3>8. LinesIntact'
      <4>1. consumed \o Ring(cbuf, cr, cw) \o Ring(cbuf, cw, ce) \o <<c>>
               = consumed \o (Ring(cbuf, cr, cw) \o Ring(cbuf, cw, ce) \o <<c>>)
        <5>1. <<c>> \in Seq(Typed) OBVIOUS
        <5> QED BY SMTT(30), <2>7, <2>8, <5>1
      <4>2. committed' = consumed \o Ring(f, cr, Plus(ce, 1)) BY <2>3, <2>6, <3>1, <3>6, <4>1
      <4> QED BY <2>9, <3>1, <4>2 DEF LinesIntact
    <3>9. RingOrdered' BY <1>0, <2>1, <2>4, <3>1 DEF RingOrdered, Minus
    <3>10. FullRingReadable'
      <4>1. cr # Plus(ce, 1)
        <5>1. cr \in 0..UintRange BY <1>0, ConsoleAssumption
        <5>2. Minus(cr, cr) = 0 BY <1>0, <5>1, MinusIs
        <5> QED BY <2>4, <5>2
      <4> QED BY <3>1, <4>1 DEF FullRingReadable
    <3> QED BY <2>7, <3>3, <3>4, <3>5, <3>7, <3>8, <3>9, <3>10 DEF InputRing, LineHistory
  <2>12. CASE ~Completes(c, Plus(ce, 1))
    <3>1. UNCHANGED <<cw, rpc, committed>> BY <1>2, <2>12 DEF Append1
    <3>2. ConsTypeOK' BY <2>1, <2>2, <2>3, <2>4, <3>1 DEF ConsTypeOK
    <3>3. Calls' /\ LineHistory' /\ NoSleepOnInput'
      BY <3>1 DEF Calls, LineHistory, NoSleepOnInput
    <3>4. LinesIntact' BY <2>3, <2>6, <2>9, <3>1 DEF LinesIntact
    <3>5. RingOrdered' BY <1>0, <2>1, <2>4, <2>5, <3>1 DEF RingOrdered, Minus
    <3>6. FullRingReadable'
      <4>1. Plus(ce, 1) # Plus(cr, INPUT_BUF) BY <2>12 DEF Completes
      <4>2. Minus(Plus(ce, 1), cr) = INPUT_BUF => Plus(ce, 1) = Plus(cr, INPUT_BUF)
        <5> DEFINE e == Plus(ce, 1)
        <5>0. UintRange \in Nat /\ cr \in 0..UintRange /\ INPUT_BUF \in 0..UintRange
          BY <1>0, ConsoleAssumption
        <5>1. e \in 0..UintRange - 1 BY <2>4
        <5> HIDE DEF e
        <5>2. Minus(e, cr) = IF cr <= e THEN e - cr ELSE e - cr + UintRange
          BY <5>0, <5>1, MinusIs
        <5>3. Plus(cr, INPUT_BUF) = IF cr + INPUT_BUF < UintRange THEN cr + INPUT_BUF
                                    ELSE cr + INPUT_BUF - UintRange
          BY <1>0, <5>0, PlusIs
        <5>4. Minus(e, cr) = INPUT_BUF => e = Plus(cr, INPUT_BUF) BY <1>0, <5>0, <5>1, <5>2, <5>3
        <5> QED BY <5>4 DEF e
      <4>3. ~(Minus(ce', cr') = INPUT_BUF) BY <2>1, <4>1, <4>2
      <4> QED BY <4>3 DEF FullRingReadable, Minus
    <3> QED BY <3>2, <3>3, <3>4, <3>5, <3>6 DEF InputRing
  <2> QED BY <2>11, <2>12
<1> QED BY <1>1, <1>2

\* Consoleintr keeps ConsInv.
LEMMA ConsoleintrInv ==
    ASSUME ConsInv, NEW c \in Typed, consoleintr(c)
    PROVE  ConsInv'
<1>1. CASE c = "ps"
  <2>1. UNCHANGED <<cbuf, cr, cw, ce, rpc, rneed, rtarget, rresult, committed, consumed>>
    BY <1>1 DEF consoleintr
  <2>2. ConsTypeOK' /\ Calls' /\ LineHistory' /\ NoSleepOnInput'
    BY <2>1 DEF ConsInv, ConsTypeOK, Calls, LineHistory, NoSleepOnInput
  <2>3. InputRing' BY <2>1, RingKept DEF ConsInv
  <2> QED BY <2>2, <2>3 DEF ConsInv
<1>2. CASE c = "kill"
  <2>1. KillLine /\ UNCHANGED <<cbuf, cw, rpc, committed, cr, rneed, rtarget, rresult, consumed>>
    BY <1>2 DEF consoleintr
  <2> QED BY <2>1, KillLineInv
<1>3. CASE c = "erase"
  <2>1. Erase /\ UNCHANGED <<cbuf, cw, rpc, committed, cr, rneed, rtarget, rresult, consumed>>
    BY <1>3 DEF consoleintr
  <2> QED BY <2>1, EraseInv
<1>4. CASE c \notin {"ps", "kill", "erase"}
  <2>1. Append1(c) /\ UNCHANGED <<cr, rneed, rtarget, rresult, consumed>>
    BY <1>4 DEF consoleintr
  <2> QED BY <2>1, Append1Inv
<1> QED BY <1>1, <1>2, <1>3, <1>4

\* The steps of read() that take no character.
LEMMA ReadIdleInv ==
    ASSUME ConsInv, NEW p \in Reader,
           \/ \E n \in ReadSizes : ConsReadCall(p, n)
           \/ ReadSleeps(p) \/ ReadKilled(p) \/ KillReader(p)
    PROVE  ConsInv'
<1> USE ConsoleAssumption DEF ConsReadCall, ReadSleeps, ReadKilled, KillReader, ReadReturns
<1>1. UNCHANGED <<cbuf, cr, cw, ce, typed, committed, consumed>> BY Zenon
<1>2. /\ rpc \in [Reader -> {"idle", "read", "sleep", "killed"}]
      /\ rneed \in [Reader -> Nat] /\ rtarget \in [Reader -> Nat] /\ rresult \in [Reader -> Int]
      /\ \A q \in Reader : rpc[q] # "idle" => rneed[q] \in 1..rtarget[q]
      /\ \A q \in Reader : rneed[q] \in 0..rtarget[q]
  BY DEF ConsInv, ConsTypeOK, Calls
<1>3. rpc' \in [Reader -> {"idle", "read", "sleep", "killed"}] BY <1>2
<1>4. rneed' \in [Reader -> Nat] /\ rtarget' \in [Reader -> Nat] BY <1>2
<1>5. rresult' \in [Reader -> Int] BY <1>2
<1>6. \A q \in Reader : rneed'[q] \in 0..rtarget'[q] BY <1>2
<1>7. \A q \in Reader : rpc'[q] # "idle" => rneed'[q] \in 1..rtarget'[q] BY <1>2
<1>8. \A q \in Reader : rpc'[q] = "sleep" => cr = cw
  BY <1>2 DEF ConsInv, NoSleepOnInput
<1>9. ConsTypeOK'
  <2>1. \A q \in Reader : rresult'[q] \in Int BY <1>5
  <2> QED BY <1>1, <1>3, <1>6, <2>1 DEF ConsInv, ConsTypeOK
<1>10. InputRing' BY <1>1, RingKept DEF ConsInv
<1> QED BY <1>1, <1>3, <1>4, <1>5, <1>7, <1>8, <1>9, <1>10
    DEF ConsInv, Calls, LineHistory, NoSleepOnInput

\* A character is taken: nobody sleeps, and the ring is shorter.
LEMMA TakeInv ==
    ASSUME ConsInv, cr # cw, cr' = Plus(cr, 1), consumed' = Append(consumed, At(cr)),
           UNCHANGED <<cbuf, cw, ce, committed>>
    PROVE  InputRing' /\ LineHistory' /\ cr' \in 0..UintRange - 1
<1> USE DEF ConsInv
<1>1. /\ Plus(cr, 1) \in 0..UintRange - 1
      /\ Minus(cw, cr) \in Nat \ {0}
      /\ Minus(cw, Plus(cr, 1)) = Minus(cw, cr) - 1
      /\ Minus(ce, Plus(cr, 1)) = Minus(ce, cr) - 1
  BY TakeIs DEF InputRing
<1>2. Minus(ce, cr) \in 0..INPUT_BUF /\ Minus(cw, cr) <= Minus(ce, cr) /\ INPUT_BUF \in Nat
  BY Distances, ConsoleAssumption DEF InputRing, RingOrdered
<1>3. RingOrdered' BY <1>1, <1>2 DEF RingOrdered, Minus
<1>4. FullRingReadable'
  <2>1. Minus(ce', cr') = Minus(ce, cr) - 1 BY <1>1
  <2> QED BY <1>2, <2>1 DEF FullRingReadable, Minus
<1>5. At(cr) \in Typed /\ Ring(cbuf, cr, cw) = <<At(cr)>> \o Ring(cbuf, Plus(cr, 1), cw)
  BY TakeFirst DEF InputRing
<1>6. LineHistory' BY <1>5 DEF LineHistory
<1>7. LinesIntact'
  <2> DEFINE c == At(cr)  R == Ring(cbuf, Plus(cr, 1), cw)
  <2>1. cw \in 0..UintRange - 1 /\ cbuf \in [0..INPUT_BUF - 1 -> Typed] BY DEF ConsTypeOK
  <2>2. R \in Seq(Typed) BY <1>1, <2>1, RingIs, Zenon
  <2>3. committed = consumed \o (<<c>> \o R)
    BY <1>5, BetweenIsRing DEF InputRing, LinesIntact
  <2>4. Between(cr, cw)' = R BY DEF Between, At, Ring, Minus, Plus
  <2>5. consumed' = Append(consumed, c) /\ c \in Typed /\ consumed \in Seq(Typed)
    BY <1>5 DEF LineHistory
  <2> HIDE DEF c, R
  <2>6. consumed \o (<<c>> \o R) = Append(consumed, c) \o R BY <2>2, <2>5
  <2> QED BY <2>3, <2>4, <2>5, <2>6 DEF LinesIntact
<1> QED BY <1>1, <1>3, <1>4, <1>6, <1>7 DEF InputRing

\* ReadTakes keeps ConsInv.
LEMMA ReadTakesInv ==
    ASSUME ConsInv, NEW p \in Reader, ReadOne(p) \/ ReadCopyoutFails(p)
    PROVE  ConsInv'
<1>0. /\ rpc \in [Reader -> {"idle", "read", "sleep", "killed"}]
      /\ rneed \in [Reader -> Nat] /\ rtarget \in [Reader -> Nat] /\ rresult \in [Reader -> Int]
      /\ \A q \in Reader : rpc[q] # "idle" => rneed[q] \in 1..rtarget[q]
      /\ \A q \in Reader : rneed[q] \in 0..rtarget[q]
      /\ cr # cw /\ rpc[p] \in {"read", "killed"}
      /\ UNCHANGED <<cbuf, cw, ce, committed>>
  BY DEF ConsInv, ConsTypeOK, Calls, ReadOne, ReadCopyoutFails
<1>1. \/ \E n \in Int : ReadReturns(p, n)
      \/ /\ rneed[p] > 1 /\ rneed' = [rneed EXCEPT ![p] = rneed[p] - 1]
         /\ UNCHANGED <<rpc, rtarget, rresult>>
  <2>1. /\ rtarget[p] - rneed[p] \in Int /\ rtarget[p] - (rneed[p] - 1) \in Int
        /\ rneed[p] \in Nat \ {0}
    BY <1>0
  <2>2. CASE ReadCopyoutFails(p) BY <2>1, <2>2 DEF ReadCopyoutFails
  <2>3. CASE ReadOne(p)
    <3>1. CASE EofSaved(p) BY <2>1, <2>3, <3>1 DEF ReadOne
    <3>2. CASE ~EofSaved(p) BY <2>1, <2>3, <3>2 DEF ReadOne, LastTurn
    <3> QED BY <3>1, <3>2
  <2> QED BY <2>2, <2>3
<1>2. /\ rpc' \in [Reader -> {"idle", "read", "sleep", "killed"}]
      /\ rneed' \in [Reader -> Nat] /\ rtarget' \in [Reader -> Nat] /\ rresult' \in [Reader -> Int]
  BY <1>0, <1>1 DEF ReadReturns
<1>3. Calls'
  <2>1. \A q \in Reader : rpc'[q] # "idle" => rneed'[q] \in 1..rtarget'[q]
    BY <1>0, <1>1 DEF ReadReturns
  <2> QED BY <1>2, <2>1 DEF Calls
<1>4. \A q \in Reader : rneed'[q] \in 0..rtarget'[q]
  BY <1>0, <1>1 DEF ReadReturns
<1>5. NoSleepOnInput'
  <2>1. \A q \in Reader : rpc[q] # "sleep" BY <1>0 DEF ConsInv, NoSleepOnInput
  <2>2. \A q \in Reader : rpc'[q] # "sleep" BY <1>0, <1>1, <2>1 DEF ReadReturns
  <2> QED BY <2>2 DEF NoSleepOnInput
<1>6. InputRing' /\ LineHistory' /\ cr' \in 0..UintRange - 1
  <2>1. CASE cr' = Plus(cr, 1) /\ consumed' = Append(consumed, At(cr)) BY <1>0, <2>1, TakeInv
  <2>2. CASE UNCHANGED <<cr, consumed>>
    BY <1>0, <2>2, RingKept DEF ConsInv, LineHistory, ConsTypeOK
  <2> QED BY <2>1, <2>2 DEF ReadOne, ReadCopyoutFails
<1>7. ConsTypeOK'
  <2>1. \A q \in Reader : rresult'[q] \in Int BY <1>2
  <2> QED BY <1>0, <1>2, <1>4, <1>6, <2>1 DEF ConsInv, ConsTypeOK
<1> QED BY <1>3, <1>5, <1>6, <1>7 DEF ConsInv

\* Every step keeps ConsInv.
LEMMA StepConsInv == ASSUME ConsInv, [ConsNext]_consVars PROVE ConsInv'
<1>1. CASE UNCHANGED consVars
  <2>1. InputRing' BY <1>1, RingKept DEF ConsInv, consVars
  <2>2. ConsTypeOK' BY <1>1 DEF ConsInv, consVars, ConsTypeOK
  <2> QED BY <1>1, <2>1, <2>2 DEF ConsInv, consVars, Calls, LineHistory, NoSleepOnInput
<1>2. CASE ConsNext
  BY <1>2, ConsoleintrInv, ReadIdleInv, ReadTakesInv DEF ConsNext, ReadStep
<1> QED BY <1>1, <1>2

\* The invariant of the console.
THEOREM ConsoleInvariant == ConsSpec => []ConsInv
<1>1. ConsInit => ConsInv BY InitConsInv
<1>2. ConsInv /\ [ConsNext]_consVars => ConsInv' BY StepConsInv
<1> QED BY <1>1, <1>2, PTL DEF ConsSpec

\* The indices stay below the width of a uint and a call never has more left than it
\* asked for.
THEOREM ConsoleTypeCorrect == ConsSpec => []ConsTypeOK
<1>1. ConsInv => ConsTypeOK BY DEF ConsInv
<1> QED BY <1>1, ConsoleInvariant, PTL

\* Whatever the sizes of the ring and of the indices, the readers get the completed
\* lines, each character once and in order, and a full ring can be read.
THEOREM ConsoleInputRing == ConsSpec => []InputRing
<1>1. ConsInv => InputRing BY DEF ConsInv
<1> QED BY <1>1, ConsoleInvariant, PTL

\* consoleread() never sleeps while there is input.
THEOREM ConsoleNoSleepOnInput == ConsSpec => []NoSleepOnInput
<1>1. ConsInv => NoSleepOnInput BY DEF ConsInv
<1> QED BY <1>1, ConsoleInvariant, PTL

\* A call that takes an end-of-file returns 0: consoleread() leaves a ^D that follows
\* other characters to the next call.
THEOREM ConsoleEofGetsZero == ConsSpec => EofGetsZero
<1> DEFINE A(p) == rpc[p] # "idle" /\ rpc'[p] = "idle" /\ Len(consumed') > Len(consumed)
                     /\ consumed'[Len(consumed')] = "eof" => rresult'[p] = 0
<1>1. ConsInv /\ [ConsNext]_consVars => [\A p \in Reader : A(p)]_consVars
  <2> SUFFICES ASSUME ConsInv, ConsNext, NEW p \in Reader, rpc[p] # "idle", rpc'[p] = "idle",
                      Len(consumed') > Len(consumed), consumed'[Len(consumed')] = "eof"
               PROVE  rresult'[p] = 0
    OBVIOUS
  <2>1. consumed \in Seq(Typed) /\ Len(consumed) \in Nat BY DEF ConsInv, LineHistory
  <2>2. consumed' # consumed BY <2>1
  <2>3. PICK q \in Reader : ReadOne(q) \/ ReadCopyoutFails(q)
    <3>1. \A c \in Typed : ~consoleintr(c) BY <2>2 DEF consoleintr
    <3>2. \A q \in Reader : /\ \A n \in ReadSizes : ~ConsReadCall(q, n)
                            /\ ~ReadSleeps(q) /\ ~ReadKilled(q) /\ ~KillReader(q)
      BY <2>2 DEF ConsReadCall, ReadSleeps, ReadKilled, KillReader
    <3> QED BY <3>1, <3>2 DEF ConsNext, ReadStep
  <2>4. cr # cw /\ consumed' = Append(consumed, At(cr))
    BY <2>2, <2>3 DEF ReadOne, ReadCopyoutFails
  <2>5. At(cr) = "eof"
    <3>1. At(cr) \in Typed BY <2>4, TakeFirst DEF ConsInv, InputRing
    <3> QED BY <2>1, <2>4, <3>1
  <2>6. ReadOne(q) BY <2>3, <2>5 DEF ReadCopyoutFails
  <2>7. ~EofSaved(q) /\ ReadReturns(q, rtarget[q] - rneed[q])
    BY <2>2, <2>5, <2>6 DEF ReadOne
  <2>8. p = q /\ rresult'[p] = rtarget[p] - rneed[p]
    BY <2>7 DEF ReadReturns, ConsInv, ConsTypeOK, Calls
  <2>9. rneed[p] \in 0..rtarget[p] /\ rtarget[p] \in Nat /\ ~(rneed[p] < rtarget[p])
    BY <2>5, <2>7, <2>8 DEF EofSaved, ConsInv, ConsTypeOK, Calls
  <2> QED BY <2>8, <2>9
<1> QED BY <1>1, ConsoleInvariant, PTL DEF ConsSpec, EofGetsZero
-----------------------------------------------------------------------------
(* The serial port: uartputc(), uartputc_sync() and uartstart(). *)
\* A character on its way out: who wrote it and its number.
Char == (Writer \cup {Sync}) \X Nat

\* The characters of ring f from index r up to w.
TxRing(f, r, w) == [k \in 1..w - r |-> f[(r + k - 1) % UART_TX_BUF_SIZE]]

TxTypes ==
    /\ uart_tx_r \in Nat /\ uart_tx_w \in Nat
    /\ uart_tx_buf \in [0..UART_TX_BUF_SIZE - 1 -> Char \cup {<<>>}]
    /\ TxRing(uart_tx_buf, uart_tx_r, uart_tx_w) \in Seq(Char)
    /\ thr \in Seq(Char) /\ sent \in Seq(Char)
    /\ nput \in [Writer -> Nat] /\ nsync \in Nat
    /\ \A p \in Writer : wpc[p] # "idle" => nput[p] > 0

UartInv == UartTypeOK /\ TxTypes /\ SerialOutput
-----------------------------------------------------------------------------
\* The next character of p goes to the end of the output.
LEMMA NextInOrder ==
    ASSUME NEW s \in Seq(Char), NEW p \in Writer, NEW n \in Nat \ {0}, HasInOrder(s, p, n - 1)
    PROVE  HasInOrder(s \o << <<p, n>> >>, p, n)
<1> DEFINE t == s \o << <<p, n>> >>  m == Len(s)
<1>0. <<p, n>> \in Char /\ << <<p, n>> >> \in Seq(Char) BY DEF Char
<1>1. /\ m \in Nat /\ Len(t) = m + 1 /\ t[m + 1] = <<p, n>>
      /\ \A i \in 1..m : t[i] = s[i]
  BY <1>0
<1> HIDE DEF t, m
<1>2. /\ \A k \in 1..n - 1 : \E i \in 1..m : s[i] = <<p, k>>
      /\ \A i \in 1..m : s[i][1] = p => s[i][2] \in 1..n - 1
      /\ \A i, j \in 1..m : i < j /\ s[i][1] = p /\ s[j][1] = p => s[i][2] < s[j][2]
  BY DEF HasInOrder, m
<1>3. ASSUME NEW k \in 1..n PROVE \E i \in 1..m + 1 : t[i] = <<p, k>>
  <2>1. CASE k = n
    <3>1. m + 1 \in 1..m + 1 BY <1>1
    <3> QED BY <1>1, <2>1, <3>1
  <2>2. CASE k # n
    <3>1. k \in 1..n - 1 BY <2>2
    <3>2. PICK i \in 1..m : s[i] = <<p, k>> BY <1>2, <3>1
    <3>3. i \in 1..m + 1 BY <1>1
    <3> QED BY <1>1, <3>2, <3>3
  <2> QED BY <2>1, <2>2
<1>4. ASSUME NEW i \in 1..m + 1, t[i][1] = p PROVE t[i][2] \in 1..n
  <2>1. CASE i = m + 1 BY <1>1, <2>1
  <2>2. CASE i # m + 1
    <3>1. i \in 1..m BY <1>1, <2>2
    <3>2. s[i][2] \in 1..n - 1 BY <1>1, <1>2, <1>4, <3>1
    <3> QED BY <1>1, <3>1, <3>2
  <2> QED BY <2>1, <2>2
<1>5. ASSUME NEW i \in 1..m + 1, NEW j \in 1..m + 1, i < j, t[i][1] = p, t[j][1] = p
      PROVE  t[i][2] < t[j][2]
  <2>1. i \in 1..m BY <1>1, <1>5
  <2>2. t[i] = s[i] BY <1>1, <2>1
  <2>3. CASE j = m + 1
    <3>1. s[i][2] \in 1..n - 1 BY <1>2, <1>5, <2>1, <2>2
    <3> QED BY <1>1, <2>2, <2>3, <3>1
  <2>4. CASE j # m + 1
    <3>1. j \in 1..m BY <1>1, <2>4
    <3>2. t[j] = s[j] BY <1>1, <3>1
    <3> QED BY <1>2, <1>5, <2>1, <2>2, <3>1, <3>2
  <2> QED BY <2>3, <2>4
<1>6. HasInOrder(t, p, n) BY <1>1, <1>3, <1>4, <1>5 DEF HasInOrder
<1> QED BY <1>6 DEF t

\* A character of another writer changes nothing for p, wherever it goes.
LEMMA OthersInOrder ==
    ASSUME NEW u \in Seq(Char), NEW v \in Seq(Char), NEW x \in Char, NEW p \in Writer, x[1] # p,
           NEW n \in Nat, HasInOrder(u \o v, p, n)
    PROVE  HasInOrder(u \o <<x>> \o v, p, n)
<1> DEFINE s == u \o v  t == u \o <<x>> \o v  a == Len(u)  m == Len(s)
           f(i) == IF i <= a THEN i ELSE i + 1
           g(i) == IF i <= a THEN i ELSE i - 1
<1>1. /\ a \in Nat /\ m \in Nat /\ a <= m /\ Len(t) = m + 1 /\ t[a + 1] = x
      /\ \A i \in 1..m : t[f(i)] = s[i]
      /\ \A i \in 1..m + 1 : i # a + 1 => t[i] = s[g(i)] /\ g(i) \in 1..m
  <2>1. Len(u) \in Nat /\ Len(v) \in Nat /\ <<x>> \in Seq(Char) OBVIOUS
  <2>2. /\ s \in Seq(Char) /\ m = Len(u) + Len(v)
        /\ \A i \in 1..m : s[i] = IF i <= Len(u) THEN u[i] ELSE v[i - Len(u)]
    OBVIOUS
  <2>3. /\ t \in Seq(Char) /\ Len(t) = Len(u) + 1 + Len(v)
        /\ \A i \in 1..Len(t) : t[i] = IF i <= Len(u) THEN u[i]
                                       ELSE IF i = Len(u) + 1 THEN x ELSE v[i - Len(u) - 1]
    OBVIOUS
  <2> HIDE DEF s, t, m
  <2>4. a \in Nat /\ m \in Nat /\ a <= m /\ Len(t) = m + 1 BY <2>1, <2>2, <2>3
  <2>5. t[a + 1] = x BY <2>1, <2>3
  <2>6. \A i \in 1..m : t[f(i)] = s[i]
    <3> SUFFICES ASSUME NEW i \in 1..m PROVE t[f(i)] = s[i] OBVIOUS
    <3>1. CASE i <= a BY <2>1, <2>2, <2>3, <3>1
    <3>2. CASE i > a
      <4>1. i + 1 \in 1..Len(t) /\ (i + 1) - Len(u) - 1 = i - Len(u) /\ f(i) = i + 1
        BY <2>1, <2>2, <2>3, <3>2
      <4>2. t[i + 1] = v[i - Len(u)] BY <2>1, <2>3, <3>2, <4>1
      <4> QED BY <2>1, <2>2, <3>2, <4>1, <4>2
    <3> QED BY <2>1, <3>1, <3>2
  <2>7. \A i \in 1..m + 1 : i # a + 1 => t[i] = s[g(i)] /\ g(i) \in 1..m
    <3> SUFFICES ASSUME NEW i \in 1..m + 1, i # a + 1 PROVE t[i] = s[g(i)] /\ g(i) \in 1..m OBVIOUS
    <3>1. CASE i <= a BY <2>1, <2>2, <2>3, <3>1
    <3>2. CASE i > a
      <4>1. i - 1 \in 1..m /\ (i - 1) - Len(u) = i - Len(u) - 1 /\ g(i) = i - 1 /\ i - 1 > a
        <5>1. i \in Int /\ i > a + 1 /\ i - 1 <= m BY <2>4, <3>2
        <5> QED BY <2>1, <2>4, <3>2, <5>1
      <4>2. s[i - 1] = v[i - Len(u) - 1] BY SMTT(30), <2>1, <2>2, <4>1
      <4> QED BY <2>1, <2>2, <2>3, <3>2, <4>1, <4>2
    <3> QED BY <2>1, <3>1, <3>2
  <2> QED BY <2>4, <2>5, <2>6, <2>7
<1> HIDE DEF s, t, m, a
<1>2. /\ \A k \in 1..n : \E i \in 1..m : s[i] = <<p, k>>
      /\ \A i \in 1..m : s[i][1] = p => s[i][2] \in 1..n
      /\ \A i, j \in 1..m : i < j /\ s[i][1] = p /\ s[j][1] = p => s[i][2] < s[j][2]
  BY DEF HasInOrder, m, s
<1>3. ASSUME NEW k \in 1..n PROVE \E i \in 1..m + 1 : t[i] = <<p, k>>
  <2>1. PICK i \in 1..m : s[i] = <<p, k>> BY <1>2
  <2>2. f(i) \in 1..m + 1 BY <1>1
  <2> QED BY <1>1, <2>1, <2>2
<1>4. ASSUME NEW i \in 1..m + 1, t[i][1] = p PROVE t[i][2] \in 1..n
  <2>1. i # a + 1 BY <1>1, <1>4
  <2>2. t[i] = s[g(i)] /\ g(i) \in 1..m BY <1>1, <2>1
  <2> HIDE DEF g
  <2> QED BY <1>2, <1>4, <2>2
<1>5. ASSUME NEW i \in 1..m + 1, NEW j \in 1..m + 1, i < j, t[i][1] = p, t[j][1] = p
      PROVE  t[i][2] < t[j][2]
  <2>1. i # a + 1 /\ j # a + 1 BY <1>1, <1>5
  <2>2. /\ t[i] = s[g(i)] /\ g(i) \in 1..m
        /\ t[j] = s[g(j)] /\ g(j) \in 1..m
    BY <1>1, <2>1
  <2>3. g(i) < g(j) BY <1>1, <1>5, <2>1
  <2> HIDE DEF g
  <2> QED BY <1>2, <1>5, <2>2, <2>3
<1>6. HasInOrder(t, p, n) BY <1>1, <1>3, <1>4, <1>5 DEF HasInOrder
<1> QED BY <1>6 DEF t

\* A function on 1..n is a sequence.
LEMMA SeqIsFunction ==
    ASSUME NEW S, NEW s \in Seq(S)
    PROVE  s = [k \in 1..Len(s) |-> s[k]]
BY LenProperties

\* uartstart() on a ring that has been added to, or not, takes nothing away.
LEMMA StartKeeps ==
    ASSUME UartInv, NEW f \in [0..UART_TX_BUF_SIZE - 1 -> Char \cup {<<>>}], NEW w \in Nat, NEW pcs,
           uart_tx_r <= w, w <= uart_tx_r + UART_TX_BUF_SIZE,
           TxRing(f, uart_tx_r, w) \in Seq(Char),
           uartstart(f, w, pcs), sent' = sent
    PROVE  /\ sent' \o thr' \o Pending' = sent \o thr \o TxRing(f, uart_tx_r, w)
           /\ thr' \in Seq(Char) /\ uart_tx_r' \in Nat
           /\ TxRing(uart_tx_buf', uart_tx_r', uart_tx_w') \in Seq(Char)
           /\ uart_tx_r' <= w /\ w <= uart_tx_r' + UART_TX_BUF_SIZE
<1> USE UartAssumption
<1> DEFINE r == uart_tx_r  P == TxRing(f, r, w)
<1>0. /\ r \in Nat /\ sent \in Seq(Char) /\ thr \in Seq(Char) /\ P \in Seq(Char)
      /\ uart_tx_buf' = f /\ uart_tx_w' = w
  BY DEF UartInv, TxTypes, uartstart
<1>1. Pending' = TxRing(f, uart_tx_r', w) BY <1>0 DEF Pending, TxRing
<1>2. CASE w # r /\ thr = <<>>
  <2>1. uart_tx_r' = r + 1 /\ thr' = <<f[r % UART_TX_BUF_SIZE]>> BY <1>2 DEF uartstart
  <2>2. Len(P) = w - r /\ w - r \in Nat \ {0}
    <3>1. w - r \in Nat \ {0} BY <1>0, <1>2
    <3> QED BY <3>1 DEF TxRing
  <2>3. Head(P) = f[r % UART_TX_BUF_SIZE]
    <3>1. 1 \in 1..w - r /\ r + 1 - 1 = r BY <1>0, <2>2
    <3> QED BY <1>0, <2>2, <3>1 DEF TxRing
  <2>4. Tail(P) = TxRing(f, r + 1, w)
    <3> DEFINE Q == TxRing(f, r + 1, w)  n == w - r - 1
    <3>1. n \in Nat /\ w - (r + 1) = n BY <1>0, <2>2
    <3>2. Q = [k \in 1..n |-> f[(r + 1 + k - 1) % UART_TX_BUF_SIZE]] BY <3>1 DEF TxRing
    <3>3. Tail(P) \in Seq(Char) /\ Len(Tail(P)) = n /\ \A k \in 1..n : Tail(P)[k] = P[k + 1]
      BY <1>0, <2>2
    <3>4. \A k \in 1..n : P[k + 1] = f[(r + 1 + k - 1) % UART_TX_BUF_SIZE]
      <4> SUFFICES ASSUME NEW k \in 1..n PROVE P[k + 1] = f[(r + 1 + k - 1) % UART_TX_BUF_SIZE]
        OBVIOUS
      <4>1. k + 1 \in 1..w - r /\ r + (k + 1) - 1 = r + 1 + k - 1 BY <1>0, <2>2
      <4>2. P[k + 1] = f[(r + (k + 1) - 1) % UART_TX_BUF_SIZE] BY <4>1 DEF TxRing
      <4> QED BY <4>1, <4>2
    <3> HIDE DEF P, Q, n
    <3>5. Tail(P) = [k \in 1..n |-> Tail(P)[k]]
      <4>1. Tail(P) = [k \in 1..Len(Tail(P)) |-> Tail(P)[k]] BY <3>3, SeqIsFunction, Zenon
      <4> QED BY <3>3, <4>1
    <3> QED BY SMTT(30), <3>2, <3>3, <3>4, <3>5 DEF Q
  <2> HIDE DEF P
  <2>5. P = <<Head(P)>> \o Tail(P) /\ Head(P) \in Char /\ Tail(P) \in Seq(Char)
    BY <1>0, <2>2
  <2>6. sent \o <<Head(P)>> \o Tail(P) = sent \o (<<Head(P)>> \o Tail(P))
    <3>1. <<Head(P)>> \in Seq(Char) BY <2>5
    <3> QED BY SMTT(30), <1>0, <2>5, <3>1
  <2>7. sent \o <<>> = sent BY <1>0
  <2>8. sent' \o thr' \o Pending' = sent \o <<Head(P)>> \o Tail(P)
    BY <1>1, <2>1, <2>3, <2>4
  <2>9. sent \o thr \o P = sent \o P BY <1>2, <2>7
  <2>10. thr' \in Seq(Char) BY <2>1, <2>3, <2>5
  <2>11. uart_tx_r' \in Nat /\ uart_tx_r' <= w /\ w <= uart_tx_r' + UART_TX_BUF_SIZE
    BY <1>0, <2>1, <2>2
  <2> QED BY <1>0, <2>1, <2>4, <2>5, <2>6, <2>8, <2>9, <2>10, <2>11 DEF P
<1>3. CASE ~(w # r /\ thr = <<>>)
  <2>1. uart_tx_r' = r /\ thr' = thr BY <1>3 DEF uartstart
  <2> QED BY <1>0, <1>1, <2>1
<1> QED BY <1>2, <1>3

\* uartputc() puts its character behind those that wait.
LEMMA PutAppends ==
    ASSUME UartInv, ~TxFull, NEW c \in Char, NEW f,
           f = [uart_tx_buf EXCEPT ![uart_tx_w % UART_TX_BUF_SIZE] = c]
    PROVE  /\ f \in [0..UART_TX_BUF_SIZE - 1 -> Char \cup {<<>>}]
           /\ TxRing(f, uart_tx_r, uart_tx_w + 1) \in Seq(Char)
           /\ TxRing(f, uart_tx_r, uart_tx_w + 1) = Pending \o <<c>>
           /\ uart_tx_w + 1 <= uart_tx_r + UART_TX_BUF_SIZE
<1> USE UartAssumption
<1> DEFINE r == uart_tx_r  w == uart_tx_w  S == UART_TX_BUF_SIZE
           P == TxRing(uart_tx_buf, r, w)  Q == TxRing(f, r, w + 1)  n == w - r
<1>0. /\ r \in Nat /\ w \in Nat /\ n \in 0..S - 1 /\ S \in Nat \ {0}
      /\ uart_tx_buf \in [0..S - 1 -> Char \cup {<<>>}] /\ P \in Seq(Char) /\ P = Pending
  BY DEF UartInv, TxTypes, UartTypeOK, TxFull, TxRing, Pending
<1>1. w % S \in 0..S - 1 BY <1>0, ModRange
<1>2. f \in [0..S - 1 -> Char \cup {<<>>}] /\ f[w % S] = c BY <1>0, <1>1
<1>3. ASSUME NEW k \in 1..n PROVE f[(r + k - 1) % S] = uart_tx_buf[(r + k - 1) % S]
  <2>1. r + k - 1 \in Nat /\ w - (r + k - 1) \in 1..S - 1 BY <1>0
  <2>2. PICK a \in Nat : a = r + k - 1 BY <2>1
  <2>3. PICK d \in 1..S - 1 : w = a + d
    <3>1. w - a \in 1..S - 1 /\ w = a + (w - a) BY <1>0, <2>1, <2>2
    <3> QED BY <3>1
  <2>4. (a + d) % S # a % S BY <1>0, ModApart, Zenon
  <2>5. a % S \in 0..S - 1
    <3>1. a \in Int OBVIOUS
    <3> QED BY <1>0, <3>1, ModRange
  <2> QED BY <1>0, <2>2, <2>3, <2>4, <2>5
<1>4. w + 1 - r = n + 1 /\ r + (n + 1) - 1 = w BY <1>0
<1>5. Q = [k \in 1..n + 1 |-> f[(r + k - 1) % S]]
  <2>1. Q = [k \in 1..(w + 1) - r |-> f[(r + k - 1) % S]] BY Zenon DEF TxRing
  <2>2. (w + 1) - r = n + 1 BY <1>0
  <2> HIDE DEF n, Q
  <2> QED BY <2>1, <2>2, Zenon
<1>6. P = [k \in 1..n |-> uart_tx_buf[(r + k - 1) % S]] BY DEF TxRing
<1>7. Len(P) = n BY <1>0, <1>6
<1>8. P \o <<c>> = Q
  <2>0. P \in Seq(Char) /\ c \in Char /\ <<c>> \in Seq(Char) BY <1>0
  <2>1. P \o <<c>> \in Seq(Char) /\ Len(P \o <<c>>) = n + 1
    <3>1. \A u, v \in Seq(Char) : u \o v \in Seq(Char) /\ Len(u \o v) = Len(u) + Len(v)
      OBVIOUS
    <3>2. Len(<<c>>) = 1 OBVIOUS
    <3> HIDE DEF P
    <3> QED BY <2>0, <3>1, <3>2, <1>7
  <2>2. ASSUME NEW k \in 1..n + 1 PROVE (P \o <<c>>)[k] = f[(r + k - 1) % S]
    <3>1. CASE k = n + 1
      <4>1. (P \o <<c>>)[n + 1] = c BY <1>0, <1>7
      <4> QED BY <1>2, <1>4, <3>1, <4>1
    <3>2. CASE k # n + 1
      <4>1. k \in 1..n BY <1>0, <3>2
      <4>2. (P \o <<c>>)[k] = P[k] BY <1>0, <1>7, <4>1
      <4> QED BY <1>3, <1>6, <4>1, <4>2
    <3> QED BY <3>1, <3>2
  <2> HIDE DEF P, Q, n
  <2>3. P \o <<c>> = [k \in 1..n + 1 |-> (P \o <<c>>)[k]]
    <3>1. P \o <<c>> = [k \in 1..Len(P \o <<c>>) |-> (P \o <<c>>)[k]] BY <2>1, SeqIsFunction, Zenon
    <3> QED BY <2>1, <3>1
  <2> QED BY <1>5, <2>2, <2>3
<1>9. Q \in Seq(Char)
  <2>1. P \o <<c>> \in Seq(Char) BY <1>0
  <2> QED BY <1>8, <2>1
<1>10. w + 1 <= r + S BY <1>0
<1> QED BY <1>0, <1>2, <1>8, <1>9, <1>10

-----------------------------------------------------------------------------
\* The initial states satisfy UartInv.
LEMMA InitUartInv == UartInit => UartInv
<1> SUFFICES ASSUME UartInit PROVE UartInv OBVIOUS
<1> USE UartAssumption DEF UartInit
<1>1. UartTypeOK
  <2>1. txIntr \in BOOLEAN BY Zenon
  <2>2. wpc \in [Writer -> {"idle", "put", "sleep"}] OBVIOUS
  <2>3. uart_tx_r <= uart_tx_w /\ uart_tx_w <= uart_tx_r + UART_TX_BUF_SIZE OBVIOUS
  <2> QED BY <2>1, <2>2, <2>3, Zenon DEF UartTypeOK
<1>2. TxRing(uart_tx_buf, uart_tx_r, uart_tx_w) = <<>> /\ Pending = <<>>
  BY DEF TxRing, Pending
<1>3. TxTypes
  <2>1. uart_tx_buf \in [0..UART_TX_BUF_SIZE - 1 -> Char \cup {<<>>}] OBVIOUS
  <2>2. <<>> \in Seq(Char) BY EmptySeq
  <2>3. nput \in [Writer -> Nat] /\ nsync \in Nat /\ uart_tx_r \in Nat /\ uart_tx_w \in Nat OBVIOUS
  <2>4. \A p \in Writer : wpc[p] = "idle" OBVIOUS
  <2>5. thr = <<>> /\ sent = <<>> OBVIOUS
  <2> HIDE DEF UartInit
  <2> QED BY <1>2, <2>1, <2>2, <2>3, <2>4, <2>5 DEF TxTypes
<1>4. RingServed /\ SleepOnFull BY DEF RingServed, SleepOnFull
<1>5. OutputInOrder
  <2>1. sent \o thr \o Pending = <<>> BY <1>2
  <2>2. \A p \in Writer : Handed(p) = 0 BY DEF Handed
  <2>3. \A p \in Writer : HasInOrder(<<>>, p, 0)
    <3>1. Len(<<>>) = 0 /\ 1..0 = {} BY EmptySeq
    <3> QED BY <3>1, Zenon DEF HasInOrder
  <2> QED BY <2>1, <2>2, <2>3 DEF OutputInOrder
<1> QED BY <1>1, <1>3, <1>4, <1>5 DEF UartInv, SerialOutput

\* A step that neither moves a character nor hands one over.
LEMMA QuietInv ==
    ASSUME UartInv, UNCHANGED <<uart_tx_buf, uart_tx_r, uart_tx_w, thr, sent>>,
           wpc' \in [Writer -> {"idle", "put", "sleep"}], nput' \in [Writer -> Nat],
           nsync' \in Nat, txIntr' = txIntr,
           \A p \in Writer : Handed(p)' = Handed(p) /\ (wpc'[p] # "idle" => nput'[p] > 0),
           \A p \in Writer : wpc'[p] = "sleep" => TxFull
    PROVE  UartInv'
<1> USE DEF UartInv
<1>1. UartTypeOK' BY DEF UartTypeOK
<1>2. TxTypes' BY DEF TxTypes
<1>3. RingServed' /\ SleepOnFull' BY DEF SerialOutput, RingServed, SleepOnFull, TxFull
<1>4. OutputInOrder' BY DEF SerialOutput, OutputInOrder, Pending
<1> QED BY <1>1, <1>2, <1>3, <1>4 DEF SerialOutput

\* Uartputc keeps UartInv.
LEMMA UartputcInv ==
    ASSUME UartInv, NEW p \in Writer, uartputc(p)
    PROVE  UartInv'
<1> DEFINE c == <<p, nput[p]>>  w == uart_tx_w + 1
<1>1. PICK f : f = [uart_tx_buf EXCEPT ![uart_tx_w % UART_TX_BUF_SIZE] = c] OBVIOUS
<1>2. /\ wpc[p] = "put" /\ ~TxFull
      /\ uartstart(f, w, [wpc EXCEPT ![p] = "idle"])
      /\ UNCHANGED <<nput, nsync, syncSaw, txIntr, sent>>
  BY <1>1 DEF uartputc
<1>3. /\ uart_tx_r \in Nat /\ uart_tx_w \in Nat /\ uart_tx_r <= uart_tx_w
      /\ wpc \in [Writer -> {"idle", "put", "sleep"}] /\ nput \in [Writer -> Nat]
      /\ nput[p] \in Nat \ {0} /\ UART_TX_BUF_SIZE \in Nat \ {0}
      /\ sent \in Seq(Char) /\ thr \in Seq(Char) /\ nsync \in Nat
  BY <1>2, UartAssumption DEF UartInv, UartTypeOK, TxTypes
<1>4. c \in Char BY <1>3 DEF Char
<1> HIDE DEF c
<1>5. /\ f \in [0..UART_TX_BUF_SIZE - 1 -> Char \cup {<<>>}]
      /\ TxRing(f, uart_tx_r, w) \in Seq(Char)
      /\ TxRing(f, uart_tx_r, w) = Pending \o <<c>>
      /\ w <= uart_tx_r + UART_TX_BUF_SIZE
  BY <1>1, <1>2, <1>4, PutAppends
<1>6. w \in Nat /\ uart_tx_r <= w /\ uart_tx_r < w BY <1>3
<1> HIDE DEF w
<1>7. /\ sent' \o thr' \o Pending' = sent \o thr \o TxRing(f, uart_tx_r, w)
      /\ thr' \in Seq(Char) /\ uart_tx_r' \in Nat
      /\ TxRing(uart_tx_buf', uart_tx_r', uart_tx_w') \in Seq(Char)
      /\ uart_tx_r' <= w /\ w <= uart_tx_r' + UART_TX_BUF_SIZE
  BY <1>2, <1>5, <1>6, StartKeeps
<1>8. uart_tx_buf' = f /\ uart_tx_w' = w
      /\ \E moved \in BOOLEAN : wpc' = Woken([wpc EXCEPT ![p] = "idle"], moved)
  BY <1>2 DEF uartstart
<1>9. wpc' \in [Writer -> {"idle", "put", "sleep"}] BY <1>3, <1>8 DEF Woken
<1>10. UartTypeOK'
  <2>1. txIntr' \in BOOLEAN BY <1>2 DEF UartInv, UartTypeOK
  <2> QED BY <1>7, <1>8, <1>9, <2>1 DEF UartTypeOK
<1>11. \A q \in Writer : q # p => (wpc'[q] = "idle" <=> wpc[q] = "idle")
  BY <1>3, <1>8 DEF Woken
<1>12. wpc'[p] = "idle" BY <1>3, <1>8 DEF Woken
<1>13. \A q \in Writer : wpc'[q] # "sleep"
  <2>1. \A q \in Writer : wpc[q] # "sleep"
    BY <1>2 DEF UartInv, SerialOutput, SleepOnFull
  <2> QED BY <1>3, <1>8, <2>1 DEF Woken
<1>14. TxTypes'
  <2>1. \A q \in Writer : wpc'[q] # "idle" => nput'[q] > 0
    BY <1>2, <1>11, <1>12 DEF UartInv, TxTypes
  <2> QED BY <1>2, <1>3, <1>5, <1>6, <1>7, <1>8, <2>1 DEF TxTypes
<1>15. RingServed'
  <2>1. CASE thr = <<>>
    <3>1. thr' # <<>> BY <1>2, <1>6, <2>1 DEF uartstart
    <3> QED BY <3>1 DEF RingServed
  <2>2. CASE thr # <<>> BY <1>2, <2>2 DEF uartstart, RingServed
  <2> QED BY <2>1, <2>2
<1>16. SleepOnFull' BY <1>13 DEF SleepOnFull
<1>17. OutputInOrder'
  <2> DEFINE s == sent \o thr \o Pending
  <2>1. Pending \in Seq(Char) BY DEF UartInv, TxTypes, TxRing, Pending
  <2>2. s \in Seq(Char) /\ <<c>> \in Seq(Char) /\ sent \o thr \in Seq(Char)
    BY <1>3, <1>4, <2>1
  <2>3. (sent \o thr \o Pending)' = s \o <<c>>
    <3>1. (sent \o thr) \o (Pending \o <<c>>) = (sent \o thr \o Pending) \o <<c>>
      BY <2>1, <2>2
    <3> QED BY <1>5, <1>7, <3>1
  <2>4. \A q \in Writer : HasInOrder(s, q, Handed(q))
    BY DEF UartInv, SerialOutput, OutputInOrder
  <2> HIDE DEF s
  <2>5. ASSUME NEW q \in Writer PROVE HasInOrder(s \o <<c>>, q, Handed(q)')
    <3>1. CASE q = p
      <4>1. Handed(p) = nput[p] - 1 /\ Handed(p)' = nput[p] BY <1>2, <1>12 DEF Handed
      <4>2. HasInOrder(s, p, nput[p] - 1) BY <2>4, <4>1
      <4>3. HasInOrder(s \o << <<p, nput[p]>> >>, p, nput[p])
        BY <1>3, <2>2, <4>2, NextInOrder, Zenon
      <4> QED BY <3>1, <4>1, <4>3 DEF c
    <3>2. CASE q # p
      <4>1. Handed(q)' = Handed(q) BY <1>2, <1>11, <3>2 DEF Handed
      <4>2. Handed(q) \in Nat BY <1>3 DEF Handed, UartInv, TxTypes
      <4>3. c[1] # q BY <3>2 DEF c
      <4>4. s \o <<>> = s /\ s \o <<c>> \o <<>> = s \o <<c>> /\ <<>> \in Seq(Char) BY <2>2
      <4>5. HasInOrder(s \o <<>>, q, Handed(q)) BY <2>4, <4>4
      <4>6. HasInOrder(s \o <<c>> \o <<>>, q, Handed(q))
        BY <1>4, <2>2, <4>2, <4>3, <4>4, <4>5, OthersInOrder, Zenon
      <4> QED BY <4>1, <4>4, <4>6
    <3> QED BY <3>1, <3>2
  <2> QED BY <2>3, <2>5 DEF OutputInOrder
<1> QED BY <1>10, <1>14, <1>15, <1>16, <1>17 DEF UartInv, SerialOutput

\* uartputc_sync() may come between: its character is of no process.
LEMMA SyncWritesInv == ASSUME UartInv, SyncWrites PROVE UartInv'
<1> USE DEF SyncWrites
<1> DEFINE c == <<Sync, nsync + 1>>
<1>1. /\ sent \in Seq(Char) /\ thr \in Seq(Char) /\ nsync \in Nat /\ nput \in [Writer -> Nat]
      /\ Pending \in Seq(Char) /\ thr' = Append(thr, c)
  BY DEF UartInv, TxTypes, Pending, TxRing
<1>2. c \in Char /\ c[1] = Sync BY <1>1 DEF Char
<1> HIDE DEF c
<1>3. thr' \in Seq(Char) /\ thr' # <<>>
  <2>1. Append(thr, c) \in Seq(Char) /\ Append(thr, c) # <<>> BY <1>1, <1>2, AppendProperties, ZenonT(40)
  <2> QED BY <1>1, <2>1, Zenon
<1>4. UartTypeOK' /\ TxTypes' BY <1>1, <1>3 DEF UartInv, UartTypeOK, TxTypes
<1>5. RingServed' /\ SleepOnFull'
  BY <1>3 DEF UartInv, SerialOutput, RingServed, SleepOnFull, TxFull
<1>6. OutputInOrder'
  <2>1. (sent \o thr \o Pending)' = (sent \o thr) \o <<c>> \o Pending
    <3>1. sent \o Append(thr, c) = (sent \o thr) \o <<c>> BY <1>1, <1>2
    <3>2. Pending' = Pending BY DEF Pending
    <3> QED BY <1>1, <3>1, <3>2
  <2>2. sent \o thr \in Seq(Char) BY <1>1
  <2>3. ASSUME NEW p \in Writer
        PROVE  HasInOrder((sent \o thr) \o <<c>> \o Pending, p, Handed(p)')
    <3>1. Handed(p)' = Handed(p) BY DEF Handed
    <3>2. Handed(p) \in Nat BY <1>1 DEF Handed, UartInv, TxTypes
    <3>3. c[1] # p BY <1>2, UartAssumption
    <3>4. HasInOrder((sent \o thr) \o Pending, p, Handed(p))
      BY DEF UartInv, SerialOutput, OutputInOrder
    <3>5. HasInOrder((sent \o thr) \o <<c>> \o Pending, p, Handed(p))
      BY <1>1, <1>2, <2>2, <3>2, <3>3, <3>4, OthersInOrder, Zenon
    <3> QED BY <3>1, <3>5
  <2> QED BY <2>1, <2>3 DEF OutputInOrder
<1> QED BY <1>4, <1>5, <1>6 DEF UartInv, SerialOutput

\* UartSends keeps UartInv.
LEMMA UartSendsInv == ASSUME UartInv, UartSends PROVE UartInv'
<1> USE DEF UartSends
<1>1. /\ sent \in Seq(Char) /\ thr \in Seq(Char) /\ Pending \in Seq(Char) /\ thr # <<>>
      /\ nput \in [Writer -> Nat]
  BY DEF UartInv, TxTypes, Pending, TxRing
<1>2. Head(thr) \in Char /\ Tail(thr) \in Seq(Char) /\ sent' \in Seq(Char) BY <1>1
<1>3. UartTypeOK' BY Zenon DEF UartInv, UartTypeOK
<1>4. TxTypes' BY <1>2 DEF UartInv, TxTypes
<1>5. RingServed'
  <2>1. thr' = <<>> => Len(thr) = 1
    <3>1. Len(Tail(thr)) = Len(thr) - 1 /\ Len(thr) \in Nat /\ Len(<<>>) = 0
      BY <1>1, HeadTailProperties, EmptySeq
    <3> QED BY <3>1
  <2>2. thr' = <<>> => txIntr' BY <2>1, Zenon
  <2> QED BY <2>2 DEF RingServed
<1>6. SleepOnFull' BY DEF UartInv, SerialOutput, SleepOnFull, TxFull
<1>7. OutputInOrder'
  <2>1. Append(sent, Head(thr)) \o Tail(thr) = sent \o thr BY <1>1, <1>2
  <2>2. Pending' = Pending BY DEF Pending
  <2>3. (sent \o thr \o Pending)' = sent \o thr \o Pending BY <2>1, <2>2
  <2>4. \A p \in Writer : Handed(p)' = Handed(p) BY DEF Handed
  <2> QED BY <2>3, <2>4 DEF UartInv, SerialOutput, OutputInOrder
<1> QED BY <1>3, <1>4, <1>5, <1>6, <1>7 DEF UartInv, SerialOutput

\* Uartintr keeps UartInv.
LEMMA UartintrInv == ASSUME UartInv, uartintr PROVE UartInv'
<1>1. /\ uartstart(uart_tx_buf, uart_tx_w, wpc) /\ txIntr' = FALSE
      /\ UNCHANGED <<nput, nsync, syncSaw, sent>>
  BY DEF uartintr
<1>2. /\ uart_tx_r \in Nat /\ uart_tx_w \in Nat /\ uart_tx_r <= uart_tx_w
      /\ uart_tx_w <= uart_tx_r + UART_TX_BUF_SIZE
      /\ wpc \in [Writer -> {"idle", "put", "sleep"}] /\ nput \in [Writer -> Nat]
      /\ uart_tx_buf \in [0..UART_TX_BUF_SIZE - 1 -> Char \cup {<<>>}]
      /\ TxRing(uart_tx_buf, uart_tx_r, uart_tx_w) \in Seq(Char)
      /\ UART_TX_BUF_SIZE \in Nat \ {0}
  BY UartAssumption DEF UartInv, UartTypeOK, TxTypes
<1>3. /\ sent' \o thr' \o Pending' = sent \o thr \o TxRing(uart_tx_buf, uart_tx_r, uart_tx_w)
      /\ thr' \in Seq(Char) /\ uart_tx_r' \in Nat
      /\ TxRing(uart_tx_buf', uart_tx_r', uart_tx_w') \in Seq(Char)
      /\ uart_tx_r' <= uart_tx_w /\ uart_tx_w <= uart_tx_r' + UART_TX_BUF_SIZE
  BY <1>1, <1>2, StartKeeps
<1>4. /\ uart_tx_buf' = uart_tx_buf /\ uart_tx_w' = uart_tx_w
      /\ wpc' = Woken(wpc, uart_tx_w # uart_tx_r /\ thr = <<>>)
  BY <1>1 DEF uartstart
<1>5. wpc' \in [Writer -> {"idle", "put", "sleep"}] BY <1>2, <1>4 DEF Woken
<1>6. \A q \in Writer : wpc'[q] = "idle" <=> wpc[q] = "idle" BY <1>2, <1>4 DEF Woken
<1>7. UartTypeOK'
  <2>1. txIntr' \in BOOLEAN BY <1>1
  <2> QED BY <1>3, <1>4, <1>5, <2>1 DEF UartTypeOK
<1>8. TxTypes' BY <1>1, <1>3, <1>4, <1>6 DEF UartInv, TxTypes
<1>9. RingServed' BY <1>1 DEF uartstart, RingServed
<1>10. SleepOnFull'
  <2>1. CASE uart_tx_w # uart_tx_r /\ thr = <<>>
    <3>1. \A q \in Writer : wpc'[q] # "sleep" BY <1>2, <1>4, <2>1 DEF Woken
    <3> QED BY <3>1 DEF SleepOnFull
  <2>2. CASE ~(uart_tx_w # uart_tx_r /\ thr = <<>>)
    <3>1. wpc' = wpc /\ uart_tx_r' = uart_tx_r BY <1>1, <1>2, <1>4, <2>2 DEF Woken, uartstart
    <3> QED BY <1>4, <3>1 DEF UartInv, SerialOutput, SleepOnFull, TxFull
  <2> QED BY <2>1, <2>2
<1>11. OutputInOrder'
  <2>1. Pending = TxRing(uart_tx_buf, uart_tx_r, uart_tx_w) BY DEF Pending, TxRing
  <2>2. (sent \o thr \o Pending)' = sent \o thr \o Pending BY <1>3, <2>1
  <2>3. \A p \in Writer : Handed(p)' = Handed(p) BY <1>1, <1>6 DEF Handed
  <2> QED BY <2>2, <2>3 DEF UartInv, SerialOutput, OutputInOrder
<1> QED BY <1>7, <1>8, <1>9, <1>10, <1>11 DEF UartInv, SerialOutput

\* Every step keeps UartInv.
LEMMA StepUartInv == ASSUME UartInv, [UartNext]_uartVars PROVE UartInv'
<1>0. /\ wpc \in [Writer -> {"idle", "put", "sleep"}] /\ nput \in [Writer -> Nat] /\ nsync \in Nat
      /\ \A p \in Writer : wpc[p] # "idle" => nput[p] > 0
      /\ \A p \in Writer : wpc[p] = "sleep" => TxFull
  BY DEF UartInv, UartTypeOK, TxTypes, SerialOutput, SleepOnFull
<1>1. CASE UNCHANGED uartVars BY <1>0, <1>1, QuietInv DEF uartVars, Handed
<1>2. ASSUME NEW p \in Writer, PutCall(p) PROVE UartInv'
  <2> USE <1>2 DEF PutCall
  <2>1. \A q \in Writer : Handed(q)' = Handed(q) /\ (wpc'[q] # "idle" => nput'[q] > 0)
    BY <1>0 DEF Handed
  <2>2. wpc' \in [Writer -> {"idle", "put", "sleep"}] /\ nput' \in [Writer -> Nat] BY <1>0
  <2>3. \A q \in Writer : wpc'[q] = "sleep" => TxFull BY <1>0
  <2> QED BY <1>0, <2>1, <2>2, <2>3, QuietInv
<1>3. ASSUME NEW p \in Writer, PutSleeps(p) PROVE UartInv'
  <2> USE <1>3 DEF PutSleeps
  <2>1. \A q \in Writer : Handed(q)' = Handed(q) /\ (wpc'[q] # "idle" => nput'[q] > 0)
    BY <1>0 DEF Handed
  <2>2. wpc' \in [Writer -> {"idle", "put", "sleep"}] /\ nput' \in [Writer -> Nat] BY <1>0
  <2>3. \A q \in Writer : wpc'[q] = "sleep" => TxFull BY <1>0
  <2> QED BY <1>0, <2>1, <2>2, <2>3, QuietInv
<1>4. CASE SyncSees BY <1>0, <1>4, QuietInv DEF SyncSees, Handed
<1> QED BY <1>1, <1>2, <1>3, <1>4, UartputcInv, SyncWritesInv, UartSendsInv, UartintrInv DEF UartNext

\* The invariant of the serial port.
THEOREM UartInvariant == UartSpec => []UartInv
<1>1. UartInit => UartInv BY InitUartInv
<1>2. UartInv /\ [UartNext]_uartVars => UartInv' BY StepUartInv
<1> QED BY <1>1, <1>2, PTL DEF UartSpec

\* The ring never holds more than it has room for.
THEOREM UartTypeCorrect == UartSpec => []UartTypeOK
<1>1. UartInv => UartTypeOK BY DEF UartInv
<1> QED BY <1>1, UartInvariant, PTL

\* The characters of each process leave once each and in order, nothing stays in the
\* ring for want of an interrupt, and whoever sleeps sleeps on a full ring, although
\* uartputc_sync() writes to the device without the lock.
THEOREM UartSerialOutput == UartSpec => []SerialOutput
<1>1. UartInv => SerialOutput BY DEF UartInv
<1> QED BY <1>1, UartInvariant, PTL
-----------------------------------------------------------------------------
(* The disk: virtio_disk_rw(), virtio_disk_intr() and the device. *)
\* A request in progress has one descriptor that heads its chain.
Heads ==
    /\ \A i \in Index : info[i] # Nil => info[i] \in InFlight
    /\ \A i, j \in Index : info[i] = info[j] /\ info[i] # Nil => i = j
    /\ \A p \in InFlight : \E i \in Index : info[i] = p

\* The second and the third descriptor of the chain that i heads.
Second(i) == desc[i].next
Third(i)  == desc[desc[i].next].next
Three(i)  == {i, Second(i), Third(i)}

ChainShape ==
    \A i \in Index : info[i] # Nil =>
        /\ i # Second(i) /\ i # Third(i) /\ Second(i) # Third(i)
        /\ ~free[i] /\ ~free[Second(i)] /\ ~free[Third(i)]
        /\ desc[i].more /\ desc[Second(i)].more /\ ~desc[Third(i)].more
        /\ desc[i].addr = Hdr(info[i]) /\ desc[Second(i)].addr = Data(info[i])

ChainsApart ==
    \A i, j \in Index : info[i] # Nil /\ info[j] # Nil /\ i # j => Three(i) \cap Three(j) = {}

TakenInChain ==
    \A m \in Index : ~free[m] => \E i \in Index : info[i] # Nil /\ m \in Three(i)

\* The slots of a ring from index a up to index b.
Window(a, b) == {k \in Index : (k - a) % NUM < (b - a) % NUM}

\* The heads that the device has still to fetch, has fetched and has completed
\* are those of different requests that wait.
Waits(i) == i \in Index /\ info[i] # Nil /\ busy[info[i]]

ToFetch ==
    /\ \A k \in Window(devIdx, availIdx) : Waits(avail[k]) /\ avail[k] \notin working
    /\ \A k, l \in Window(devIdx, availIdx) : avail[k] = avail[l] => k = l
    /\ \A k \in Window(devIdx, availIdx), l \in Window(used_idx, usedId) : avail[k] # used[l]

Fetched == \A i \in working : Waits(i)

Completed ==
    /\ \A k \in Window(used_idx, usedId) : Waits(used[k]) /\ used[k] \notin working
    /\ \A k, l \in Window(used_idx, usedId) : used[k] = used[l] => k = l

\* What descriptors and headers hold.
Requests ==
    /\ desc \in [Index -> [addr : {Nil} \cup ({"hdr", "data"} \X DiskProc) \cup ({"status"} \X Index),
                           next : Index, more : BOOLEAN, devWrites : BOOLEAN]]
    /\ hdr \in [DiskProc -> {NoRequest} \cup [type : {"read", "write"}, sector : DiskProc]]
    /\ \A p \in DiskProc : dpc[p] # "idle" => hdr[p].type \in {"read", "write"} /\ hdr[p].sector = p

DiskInv ==
    /\ DiskTypeOK /\ Requests /\ Heads /\ ChainShape /\ ChainsApart /\ TakenInChain
    /\ ToFetch /\ Fetched /\ Completed
-----------------------------------------------------------------------------
\* Facts about indices that many steps use.
LEMMA IndexFacts ==
    /\ NUM \in Nat \ {0} /\ NUM >= 3 /\ Index \subseteq Int
    /\ \A i \in Index : i % NUM = i
    /\ \A i \in Index : (i + 1) % NUM \in Index
    /\ Nil \notin DiskProc /\ Nil \notin Index
<1>1. NUM \in Nat \ {0} /\ NUM >= 3 /\ Index \subseteq Int BY DiskAssumption DEF Index
<1>2. \A i \in Index : i % NUM = i
  <2>1. \A i \in Index : i = 0 * NUM + i BY <1>1
  <2> QED BY <1>1, <2>1, ModUnique DEF Index
<1>3. \A i \in Index : (i + 1) % NUM \in Index BY <1>1, ModInc DEF Index
<1> QED BY <1>1, <1>2, <1>3, DiskAssumption DEF Index

\* Slots at the same distance from an index are the same slot, and the slots from
\* the next index on are one closer.
LEMMA SlotAt ==
    ASSUME NEW a \in Index, NEW b \in Index, NEW k \in Index
    PROVE  (k - a) % NUM = (b - a) % NUM <=> k = b
<1>0. NUM \in Nat \ {0} /\ a \in 0..NUM - 1 /\ b \in 0..NUM - 1 /\ k \in 0..NUM - 1
  BY IndexFacts DEF Index
<1>1. (b - a) % NUM = IF a <= b THEN b - a ELSE b - a + NUM BY <1>0, ModMinus, Zenon
<1>2. (k - a) % NUM = IF a <= k THEN k - a ELSE k - a + NUM BY <1>0, ModMinus, Zenon
<1> QED BY <1>0, <1>1, <1>2

LEMMA SlotNext ==
    ASSUME NEW a \in Index, NEW k \in Index, k # a
    PROVE  (k - ((a + 1) % NUM)) % NUM = ((k - a) % NUM) - 1
<1>0. NUM \in Nat \ {0} /\ a \in 0..NUM - 1 /\ k \in 0..NUM - 1 /\ a # k
  BY IndexFacts DEF Index
<1> QED BY <1>0, ModIncBehind, Zenon

\* A window of a ring grows at its end ...
LEMMA WindowGrows ==
    ASSUME NEW a \in Index, NEW b \in Index, (b - a) % NUM < NUM - 1
    PROVE  /\ Window(a, (b + 1) % NUM) = Window(a, b) \cup {b}
           /\ b \notin Window(a, b)
<1> DEFINE d == (b - a) % NUM
<1>0. NUM \in Nat \ {0} /\ d \in 0..NUM - 1 /\ a \in 0..NUM - 1 /\ b \in 0..NUM - 1
  <2>1. b - a \in Int BY IndexFacts
  <2> QED BY <2>1, IndexFacts, ModRange DEF Index
<1>1. (((b + 1) % NUM) - a) % NUM = d + 1 BY <1>0, ModIncAhead, Zenon
<1>2. \A k \in Index : (k - a) % NUM \in Int
  <2>1. \A k \in Index : k - a \in Int BY <1>0, IndexFacts
  <2> QED BY <1>0, <2>1, ModRange
<1>3. \A k \in Index : (k - a) % NUM = d <=> k = b BY SlotAt
<1> HIDE DEF d
<1>4. \A k \in Index : (k - a) % NUM < d + 1 <=> (k - a) % NUM < d \/ k = b
  <2> SUFFICES ASSUME NEW k \in Index
               PROVE  (k - a) % NUM < d + 1 <=> (k - a) % NUM < d \/ k = b
    OBVIOUS
  <2>1. PICK x \in Int : x = (k - a) % NUM BY <1>2
  <2>2. x < d + 1 <=> x < d \/ x = d BY <1>0
  <2> QED BY <1>3, <2>1, <2>2
<1>5. Window(a, b) = {k \in Index : (k - a) % NUM < d} BY DEF Window, d
<1>6. Window(a, (b + 1) % NUM) = {k \in Index : (k - a) % NUM < d + 1} BY <1>1 DEF Window
<1>7. ~((b - a) % NUM < d) BY <1>0 DEF d
<1> QED BY <1>4, <1>5, <1>6, <1>7

\* ... and shrinks at its start.
LEMMA WindowShrinks ==
    ASSUME NEW a \in Index, NEW b \in Index, a # b
    PROVE  /\ a \in Window(a, b)
           /\ Window((a + 1) % NUM, b) = Window(a, b) \ {a}
<1> DEFINE d == (b - a) % NUM
<1>0. NUM \in Nat \ {0} /\ d \in 0..NUM - 1 /\ a \in 0..NUM - 1 /\ b \in 0..NUM - 1
  <2>1. b - a \in Int BY IndexFacts
  <2> QED BY <2>1, IndexFacts, ModRange DEF Index
<1>1. d = IF a <= b THEN b - a ELSE b - a + NUM BY <1>0, ModMinus, Zenon
<1>2. (a - a) % NUM = 0
  <2>1. (a - a) % NUM = IF a <= a THEN a - a ELSE a - a + NUM BY <1>0, ModMinus, Zenon
  <2> QED BY <1>0, <2>1
<1>3. (b - ((a + 1) % NUM)) % NUM = d - 1 BY <1>0, ModIncBehind, Zenon
<1>4. ASSUME NEW k \in Index, k # a
      PROVE  (k - ((a + 1) % NUM)) % NUM = ((k - a) % NUM) - 1 /\ (k - a) % NUM \in Int
  <2>1. k \in 0..NUM - 1 /\ k - a \in Int BY <1>0 DEF Index
  <2>2. (k - a) % NUM \in 0..NUM - 1 BY <1>0, <2>1, ModRange
  <2>3. (k - a) % NUM \in Int
    <3>1. PICK z \in 0..NUM - 1 : z = (k - a) % NUM BY <2>2
    <3> QED BY <1>0, <3>1
  <2> QED BY <1>4, <2>3, SlotNext, Zenon
<1>5. (a - ((a + 1) % NUM)) % NUM = NUM - 1
  <2> DEFINE s == (a + 1) % NUM
  <2>1. s \in 0..NUM - 1 /\ s = IF a + 1 < NUM THEN a + 1 ELSE 0 BY <1>0, ModInc, Zenon
  <2> HIDE DEF s
  <2>2. (a - s) % NUM = IF s <= a THEN a - s ELSE a - s + NUM BY <1>0, <2>1, ModMinus, Zenon
  <2>3. (a - s) % NUM = NUM - 1 BY <1>0, <2>1, <2>2
  <2> QED BY <2>3 DEF s
<1>6. d > 0 BY <1>0, <1>1
<1>7. a \in Window(a, b) BY <1>2, <1>6 DEF Window
<1> HIDE DEF d
<1>8. Window((a + 1) % NUM, b) = {k \in Index : (k - ((a + 1) % NUM)) % NUM < d - 1}
  BY <1>3 DEF Window
<1>9. Window(a, b) = {k \in Index : (k - a) % NUM < d} BY DEF Window, d
<1>10. ASSUME NEW k \in Index
       PROVE  (k - ((a + 1) % NUM)) % NUM < d - 1 <=> (k - a) % NUM < d /\ k # a
  <2>1. CASE k = a
    <3>1. ~(NUM - 1 < d - 1) BY <1>0
    <3> QED BY <1>5, <2>1, <3>1
  <2>2. CASE k # a
    <3>1. PICK x \in Int : x = (k - a) % NUM /\ (k - ((a + 1) % NUM)) % NUM = x - 1
      BY <1>4, <2>2
    <3>2. x - 1 < d - 1 <=> x < d BY <1>0
    <3> QED BY <2>2, <3>1, <3>2
  <2> QED BY <2>1, <2>2
<1> QED BY <1>7, <1>8, <1>9, <1>10

\* A window whose slots hold different descriptors, all but x and y, is not full.
LEMMA WindowNotFull ==
    ASSUME NEW a \in Index, NEW b \in Index, NEW x \in Index, NEW y \in Index, x # y,
           NEW f, \A k \in Window(a, b) : f[k] \in Index \ {x, y},
           \A k, l \in Window(a, b) : f[k] = f[l] => k = l
    PROVE  (b - a) % NUM < NUM - 1
<1> DEFINE d == (b - a) % NUM
<1>0. NUM \in Nat \ {0} /\ NUM >= 3 /\ d \in 0..NUM - 1 /\ a \in 0..NUM - 1 /\ b \in 0..NUM - 1
  <2>1. b - a \in Int BY IndexFacts
  <2> QED BY <2>1, IndexFacts, ModRange DEF Index
<1> SUFFICES ASSUME d = NUM - 1 PROVE FALSE BY <1>0
<1>1. Index \ {b} \subseteq Window(a, b)
  <2> SUFFICES ASSUME NEW k \in Index, k # b PROVE (k - a) % NUM < d BY DEF Window
  <2>1. k \in 0..NUM - 1 /\ k - a \in Int BY <1>0 DEF Index
  <2>2. (k - a) % NUM \in 0..NUM - 1 BY <1>0, <2>1, ModRange
  <2>3. (k - a) % NUM # d BY SlotAt
  <2> HIDE DEF d
  <2>4. PICK z \in 0..NUM - 1 : z = (k - a) % NUM BY <2>2
  <2> QED BY <1>0, <2>3, <2>4
<1> DEFINE S == Index \ {b}  T == Index \ {x, y}  g == [k \in S |-> f[k]]
<1>2. IsFiniteSet(Index) /\ Cardinality(Index) = NUM
  <2>1. 0 \in Int /\ NUM - 1 \in Int BY <1>0
  <2>2. /\ IsFiniteSet(0..NUM - 1)
        /\ Cardinality(0..NUM - 1) = IF 0 > NUM - 1 THEN 0 ELSE (NUM - 1) - 0 + 1
    BY <2>1, FS_Interval, Zenon
  <2> QED BY <1>0, <2>2 DEF Index
<1>3. IsFiniteSet(S) /\ Cardinality(S) = NUM - 1 BY <1>2, FS_RemoveElement
<1>4. IsFiniteSet(T) /\ Cardinality(T) = NUM - 2
  <2>1. IsFiniteSet(Index \ {x}) /\ Cardinality(Index \ {x}) = NUM - 1
    BY <1>2, FS_RemoveElement
  <2>2. y \in Index \ {x} /\ (Index \ {x}) \ {y} = T OBVIOUS
  <2>3. IsFiniteSet((Index \ {x}) \ {y}) /\ Cardinality((Index \ {x}) \ {y}) = NUM - 1 - 1
    BY <2>1, <2>2, FS_RemoveElement
  <2>4. IsFiniteSet(T) /\ Cardinality(T) = NUM - 1 - 1 BY <2>2, <2>3, Zenon
  <2>5. NUM - 1 - 1 = NUM - 2 BY <1>0
  <2> HIDE DEF T
  <2> QED BY <2>4, <2>5
<1>5. g \in Injection(S, T)
  <2>1. g \in [S -> T] BY <1>1
  <2>2. \A k, l \in S : g[k] = g[l] => k = l BY <1>1
  <2> HIDE DEF g, S, T
  <2> QED BY <2>1, <2>2 DEF Injection, IsInjective
<1>6. Cardinality(S) <= Cardinality(T) BY <1>3, <1>4, <1>5, FS_Injection
<1> QED BY <1>0, <1>3, <1>4, <1>6

\* The three descriptors that alloc3_desc() takes are free and different.
SubmitAs(p, i0, i1, i2) ==
    /\ dpc[p] = "alloc"
    /\ free[i0] /\ free[i1] /\ free[i2] /\ i0 # i1 /\ i0 # i2 /\ i1 # i2
    /\ free' = [free EXCEPT ![i0] = FALSE, ![i1] = FALSE, ![i2] = FALSE]
    /\ desc' = [desc EXCEPT
         ![i0] = [addr |-> Hdr(p), next |-> i1, more |-> TRUE, devWrites |-> FALSE],
         ![i1] = [addr |-> Data(p), next |-> i2, more |-> TRUE,
                  devWrites |-> hdr[p].type = "read"],
         ![i2] = [addr |-> Status(i0), next |-> 0, more |-> FALSE, devWrites |-> TRUE]]
    /\ busy' = [busy EXCEPT ![p] = TRUE]
    /\ info' = [info EXCEPT ![i0] = p]
    /\ avail' = [avail EXCEPT ![availIdx % NUM] = i0]
    /\ availIdx' = (availIdx + 1) % NUM
    /\ dpc' = [dpc EXCEPT ![p] = "iosleep"]
    /\ UNCHANGED <<used_idx, hdr, deviceVars, nrw, bufData>>

\* alloc_desc() returns one of the descriptors it chooses from.
LEMMA AllocDesc ==
    ASSUME NEW S \in SUBSET Index, S # {}
    PROVE  alloc_desc(S) \in S
<1>1. S \in SUBSET Nat BY DEF Index
<1> QED BY <1>1, Least, Zenon DEF alloc_desc

\* A set of more than n elements keeps n when one is taken away.
LEMMA RemoveOne ==
    ASSUME NEW S, IsFiniteSet(S), NEW n \in Nat, Cardinality(S) >= n + 1, NEW x \in S
    PROVE  IsFiniteSet(S \ {x}) /\ Cardinality(S \ {x}) >= n /\ S # {}
<1>1. IsFiniteSet(S \ {x}) /\ Cardinality(S \ {x}) = Cardinality(S) - 1 BY FS_RemoveElement
<1>2. Cardinality(S) \in Nat BY FS_CardinalityType
<1> QED BY <1>1, <1>2

\* A step of Submit is one of SubmitAs.
LEMMA SubmitChoice ==
    ASSUME DiskTypeOK, NEW p \in DiskProc, Submit(p)
    PROVE  \E i0, i1, i2 \in Index : SubmitAs(p, i0, i1, i2)
<1> DEFINE i0 == alloc_desc(FreeSet)  i1 == alloc_desc(FreeSet \ {i0})
           i2 == alloc_desc(FreeSet \ {i0, i1})
<1>1. FreeSet \in SUBSET Index /\ IsFiniteSet(FreeSet) /\ Cardinality(FreeSet) >= 3
  <2>1. 0 \in Int /\ NUM - 1 \in Int BY IndexFacts
  <2>2. IsFiniteSet(Index) BY <2>1, FS_Interval DEF Index
  <2>3. FreeSet \in SUBSET Index BY DEF FreeSet
  <2> QED BY <2>2, <2>3, FS_Subset, Zenon DEF Submit
<1>2. \A S : IsFiniteSet(S) /\ Cardinality(S) >= 1 => S # {} BY FS_EmptySet
<1>3. 2 \in Nat /\ 1 \in Nat /\ 3 = 2 + 1 /\ 2 = 1 + 1 OBVIOUS
<1>4. i0 \in FreeSet
  <2>1. FreeSet # {} BY <1>1, FS_EmptySet
  <2> QED BY <1>1, <2>1, AllocDesc, Zenon
<1> HIDE DEF i0
<1>5. IsFiniteSet(FreeSet \ {i0}) /\ Cardinality(FreeSet \ {i0}) >= 2
  BY <1>1, <1>3, <1>4, RemoveOne, Zenon
<1>6. i1 \in FreeSet \ {i0}
  <2>1. FreeSet \ {i0} # {} /\ FreeSet \ {i0} \in SUBSET Index BY <1>1, <1>5, FS_EmptySet
  <2> QED BY <2>1, AllocDesc, Zenon
<1> HIDE DEF i1
<1>7. IsFiniteSet((FreeSet \ {i0}) \ {i1}) /\ Cardinality((FreeSet \ {i0}) \ {i1}) >= 1
  BY <1>3, <1>5, <1>6, RemoveOne, Zenon
<1>8. i2 \in FreeSet \ {i0, i1}
  <2>1. (FreeSet \ {i0}) \ {i1} = FreeSet \ {i0, i1} OBVIOUS
  <2>2. FreeSet \ {i0, i1} # {} /\ FreeSet \ {i0, i1} \in SUBSET Index
    BY <1>1, <1>2, <1>7, <2>1
  <2> QED BY <2>2, AllocDesc, Zenon
<1> HIDE DEF i2
<1>9. free[i0] /\ free[i1] /\ free[i2] /\ i0 # i1 /\ i0 # i2 /\ i1 # i2
  BY <1>4, <1>6, <1>8 DEF FreeSet
<1>10. i0 \in Index /\ i1 \in Index /\ i2 \in Index BY <1>1, <1>4, <1>6, <1>8
<1>11. SubmitAs(p, i0, i1, i2) BY <1>9, Zenon DEF Submit, SubmitAs, i0, i1, i2
<1> QED BY <1>10, <1>11, Zenon

\* What DiskInv says of the chain of a request in progress.
LEMMA ChainOf ==
    ASSUME DiskInv, NEW p \in InFlight
    PROVE  LET h == HeadOf(p) IN
           /\ h \in Index /\ info[h] = p
           /\ \A i \in Index : info[i] = p => i = h
           /\ Chain(h) = Three(h)
<1> DEFINE h == HeadOf(p)
<1>1. p # Nil BY IndexFacts DEF InFlight
<1>2. h \in Index /\ info[h] = p BY Zenon DEF DiskInv, Heads, HeadOf
<1>3. \A i \in Index : info[i] = p => i = h BY <1>1, <1>2, Zenon DEF DiskInv, Heads
<1>4. Chain(h) = Three(h)
  <2> HIDE DEF h
  <2> QED BY <1>1, <1>2 DEF DiskInv, ChainShape, Chain, Three, Second, Third
<1> QED BY <1>2, <1>3, <1>4

\* What DiskInv says of a head.
LEMMA HeadFacts ==
    ASSUME DiskInv, NEW i \in Index, info[i] # Nil
    PROVE  /\ info[i] \in DiskProc /\ dpc[info[i]] \in {"io", "iosleep"}
           /\ Second(i) \in Index /\ Third(i) \in Index
           /\ i # Second(i) /\ i # Third(i) /\ Second(i) # Third(i)
           /\ ~free[i] /\ ~free[Second(i)] /\ ~free[Third(i)]
           /\ desc[i].addr = Hdr(info[i]) /\ desc[Second(i)].addr = Data(info[i])
           /\ \A j \in Index : info[j] # Nil /\ i # j =>
                  /\ info[i] # info[j]
                  /\ \A m \in Three(i) : m \notin Three(j)
<1>1. info[i] \in DiskProc /\ dpc[info[i]] \in {"io", "iosleep"}
  BY DEF DiskInv, Heads, InFlight
<1>2. Second(i) \in Index /\ Third(i) \in Index BY DEF DiskInv, DiskTypeOK, Second, Third
<1>3. /\ i # Second(i) /\ i # Third(i) /\ Second(i) # Third(i)
      /\ ~free[i] /\ ~free[Second(i)] /\ ~free[Third(i)]
      /\ desc[i].addr = Hdr(info[i]) /\ desc[Second(i)].addr = Data(info[i])
  BY Zenon DEF DiskInv, ChainShape
<1>4. \A j \in Index : info[j] # Nil /\ i # j => info[i] # info[j] BY Zenon DEF DiskInv, Heads
<1>5. \A j \in Index : info[j] # Nil /\ i # j => \A m \in Three(i) : m \notin Three(j)
  BY DEF DiskInv, ChainsApart
<1> QED BY <1>1, <1>2, <1>3, <1>4, <1>5, Zenon
-----------------------------------------------------------------------------
\* RwCall keeps DiskInv.
LEMMA RwCallInv ==
    ASSUME DiskInv, NEW p \in DiskProc, RwCall(p)
    PROVE  DiskInv'
<1> USE IndexFacts DEF RwCall, deviceVars
<1>1. DiskTypeOK'
  <2>1. nrw' \in [DiskProc -> 0..MaxRw]
    <3>1. nrw \in [DiskProc -> 0..MaxRw] /\ MaxRw \in Nat BY DiskAssumption DEF DiskInv, DiskTypeOK
    <3> QED BY <3>1
  <2>2. bufData' \in [DiskProc -> DiskWord] BY DEF DiskInv, DiskTypeOK
  <2>3. dpc' \in [DiskProc -> DiskPC] BY DEF DiskInv, DiskTypeOK, DiskPC
  <2> QED BY <2>1, <2>2, <2>3 DEF DiskInv, DiskTypeOK
<1>2. Requests'
  BY SMTT(30) DEF DiskInv, Requests, NoRequest, DiskTypeOK
<1>3. Heads'
  BY DEF DiskInv, Heads, InFlight, DiskTypeOK
<1>4. ChainShape'
  BY DEF DiskInv, ChainShape, Second, Third, DiskTypeOK
<1>5. ChainsApart'
  BY DEF DiskInv, ChainsApart, Three, Second, Third, DiskTypeOK
<1>6. TakenInChain'
  BY DEF DiskInv, TakenInChain, Three, Second, Third, DiskTypeOK
<1>7. ToFetch'
  BY DEF DiskInv, ToFetch, Waits, DiskTypeOK
<1>8. Fetched'
  BY DEF DiskInv, Fetched, Waits, DiskTypeOK
<1>9. Completed'
  BY DEF DiskInv, Completed, Waits, DiskTypeOK
<1> QED BY <1>1, <1>2, <1>3, <1>4, <1>5, <1>6, <1>7, <1>8, <1>9 DEF DiskInv

\* Alloc3Fails keeps DiskInv.
LEMMA Alloc3FailsInv ==
    ASSUME DiskInv, NEW p \in DiskProc, Alloc3Fails(p)
    PROVE  DiskInv'
<1> USE IndexFacts DEF Alloc3Fails, deviceVars, FreeWaiters
<1>1. DiskTypeOK'
  BY DEF DiskInv, DiskTypeOK, DiskPC, NoRequest
<1>2. Requests'
  BY SMTT(30) DEF DiskInv, Requests, NoRequest, DiskTypeOK
<1>3. Heads'
  BY DEF DiskInv, Heads, InFlight, DiskTypeOK
<1>4. ChainShape'
  BY DEF DiskInv, ChainShape, Second, Third, DiskTypeOK
<1>5. ChainsApart'
  BY DEF DiskInv, ChainsApart, Three, Second, Third, DiskTypeOK
<1>6. TakenInChain'
  BY DEF DiskInv, TakenInChain, Three, Second, Third, DiskTypeOK
<1>7. ToFetch'
  BY DEF DiskInv, ToFetch, Waits, DiskTypeOK
<1>8. Fetched'
  BY DEF DiskInv, Fetched, Waits, DiskTypeOK
<1>9. Completed'
  BY DEF DiskInv, Completed, Waits, DiskTypeOK
<1> QED BY <1>1, <1>2, <1>3, <1>4, <1>5, <1>6, <1>7, <1>8, <1>9 DEF DiskInv

\* IoAgain keeps DiskInv.
LEMMA IoAgainInv ==
    ASSUME DiskInv, NEW p \in DiskProc, IoAgain(p)
    PROVE  DiskInv'
<1> USE IndexFacts DEF IoAgain, deviceVars, driverVars
<1>1. DiskTypeOK'
  BY DEF DiskInv, DiskTypeOK, DiskPC, NoRequest
<1>2. Requests'
  BY DEF DiskInv, Requests, NoRequest, DiskTypeOK
<1>3. Heads'
  BY DEF DiskInv, Heads, InFlight, DiskTypeOK
<1>4. ChainShape'
  BY DEF DiskInv, ChainShape, Second, Third, DiskTypeOK
<1>5. ChainsApart'
  BY DEF DiskInv, ChainsApart, Three, Second, Third, DiskTypeOK
<1>6. TakenInChain'
  BY DEF DiskInv, TakenInChain, Three, Second, Third, DiskTypeOK
<1>7. ToFetch'
  BY DEF DiskInv, ToFetch, Waits, DiskTypeOK
<1>8. Fetched'
  BY DEF DiskInv, Fetched, Waits, DiskTypeOK
<1>9. Completed'
  BY DEF DiskInv, Completed, Waits, DiskTypeOK
<1> QED BY <1>1, <1>2, <1>3, <1>4, <1>5, <1>6, <1>7, <1>8, <1>9 DEF DiskInv

\* KillWakes keeps DiskInv.
LEMMA KillWakesInv ==
    ASSUME DiskInv, NEW p \in DiskProc, KillWakes(p)
    PROVE  DiskInv'
<1> USE IndexFacts DEF KillWakes, deviceVars, driverVars
<1>1. DiskTypeOK'
  BY DEF DiskInv, DiskTypeOK, DiskPC, NoRequest
<1>2. Requests'
  BY DEF DiskInv, Requests, NoRequest, DiskTypeOK
<1>3. Heads'
  <2>1. info' = info /\ dpc \in [DiskProc -> DiskPC] BY DEF DiskInv, DiskTypeOK
  <2>2. InFlight' = InFlight BY <2>1 DEF InFlight
  <2> QED BY <2>1, <2>2 DEF DiskInv, Heads
<1>4. ChainShape'
  BY DEF DiskInv, ChainShape, Second, Third, DiskTypeOK
<1>5. ChainsApart'
  BY DEF DiskInv, ChainsApart, Three, Second, Third, DiskTypeOK
<1>6. TakenInChain'
  BY DEF DiskInv, TakenInChain, Three, Second, Third, DiskTypeOK
<1>7. ToFetch'
  BY DEF DiskInv, ToFetch, Waits, DiskTypeOK
<1>8. Fetched'
  BY DEF DiskInv, Fetched, Waits, DiskTypeOK
<1>9. Completed'
  BY DEF DiskInv, Completed, Waits, DiskTypeOK
<1> QED BY <1>1, <1>2, <1>3, <1>4, <1>5, <1>6, <1>7, <1>8, <1>9 DEF DiskInv
\* Submit keeps DiskInv.
LEMMA SubmitInv ==
    ASSUME DiskInv, NEW p \in DiskProc, NEW i0 \in Index, NEW i1 \in Index, NEW i2 \in Index,
           SubmitAs(p, i0, i1, i2)
    PROVE  DiskInv'
<1>1. /\ NUM \in Nat \ {0} /\ NUM >= 3 /\ p # Nil /\ Nil \notin Index /\ 0 \in Index
      /\ availIdx % NUM = availIdx /\ (availIdx + 1) % NUM \in Index /\ availIdx \in Index
  <2>1. NUM \in Nat \ {0} /\ NUM >= 3 /\ p # Nil /\ Nil \notin Index BY IndexFacts
  <2>2. availIdx \in Index BY DEF DiskInv, DiskTypeOK
  <2>3. availIdx % NUM = availIdx /\ (availIdx + 1) % NUM \in Index BY <2>2, IndexFacts, Zenon
  <2>4. 0 \in Index BY <2>1 DEF Index
  <2> QED BY <2>1, <2>2, <2>3, <2>4, Zenon
<1>2. /\ info' = [info EXCEPT ![i0] = p] /\ free' = [free EXCEPT ![i0] = FALSE, ![i1] = FALSE, ![i2] = FALSE]
      /\ busy' = [busy EXCEPT ![p] = TRUE] /\ dpc' = [dpc EXCEPT ![p] = "iosleep"]
      /\ avail' = [avail EXCEPT ![availIdx] = i0] /\ availIdx' = (availIdx + 1) % NUM
      /\ UNCHANGED <<used_idx, hdr, used, usedId, devIdx, working, platter, nrw, bufData>>
  BY <1>1 DEF SubmitAs, deviceVars
<1>3. /\ dpc[p] = "alloc" /\ free[i0] /\ free[i1] /\ free[i2] /\ i0 # i1 /\ i0 # i2 /\ i1 # i2
  BY DEF SubmitAs
<1>4. desc' = [desc EXCEPT
         ![i0] = [addr |-> Hdr(p), next |-> i1, more |-> TRUE, devWrites |-> FALSE],
         ![i1] = [addr |-> Data(p), next |-> i2, more |-> TRUE,
                  devWrites |-> hdr[p].type = "read"],
         ![i2] = [addr |-> Status(i0), next |-> 0, more |-> FALSE, devWrites |-> TRUE]]
  BY DEF SubmitAs
<1>5. /\ info \in [Index -> DiskProc \cup {Nil}] /\ busy \in [DiskProc -> BOOLEAN]
      /\ free \in [Index -> BOOLEAN] /\ dpc \in [DiskProc -> DiskPC]
      /\ avail \in [Index -> Index \cup {Nil}] /\ DOMAIN desc = Index
  BY DEF DiskInv, DiskTypeOK, Requests
<1>6. DiskTypeOK'
  <2>1. free' \in [Index -> BOOLEAN] BY <1>2, <1>5
  <2>2. info' \in [Index -> DiskProc \cup {Nil}] BY <1>2, <1>5
  <2>3. avail' \in [Index -> Index \cup {Nil}] /\ availIdx' \in Index BY <1>1, <1>2, <1>5
  <2>4. busy' \in [DiskProc -> BOOLEAN] BY <1>2, <1>5
  <2>5. dpc' \in [DiskProc -> DiskPC] BY <1>2, <1>5 DEF DiskPC
  <2>6. \A i \in Index : desc'[i].next \in Index BY <1>1, <1>4, <1>5 DEF DiskInv, DiskTypeOK
  <2> QED BY <1>2, <2>1, <2>2, <2>3, <2>4, <2>5, <2>6 DEF DiskInv, DiskTypeOK
<1>7. Requests'
  <2>1. desc' \in [Index -> [addr : {Nil} \cup ({"hdr", "data"} \X DiskProc) \cup ({"status"} \X Index),
                           next : Index, more : BOOLEAN, devWrites : BOOLEAN]]
    <3> DEFINE D == [addr : {Nil} \cup ({"hdr", "data"} \X DiskProc) \cup ({"status"} \X Index),
                     next : Index, more : BOOLEAN, devWrites : BOOLEAN]
    <3>1. [addr |-> Hdr(p), next |-> i1, more |-> TRUE, devWrites |-> FALSE] \in D BY DEF Hdr
    <3>2. [addr |-> Data(p), next |-> i2, more |-> TRUE, devWrites |-> hdr[p].type = "read"] \in D
      BY DEF Data
    <3>3. [addr |-> Status(i0), next |-> 0, more |-> FALSE, devWrites |-> TRUE] \in D
      BY <1>1 DEF Status
    <3>4. desc \in [Index -> D] BY DEF DiskInv, Requests
    <3> HIDE DEF D
    <3>5. desc' \in [Index -> D] BY <1>4, <3>1, <3>2, <3>3, <3>4
    <3> QED BY <3>5 DEF D
  <2>2. \A q \in DiskProc : dpc'[q] # "idle" => dpc[q] # "idle" BY <1>2, <1>3, <1>5
  <2> QED BY <1>2, <2>1, <2>2 DEF DiskInv, Requests
<1>8. info[i0] = Nil /\ info[i1] = Nil /\ info[i2] = Nil
  BY <1>3 DEF DiskInv, ChainShape
<1>9. /\ info'[i0] = p /\ \A i \in Index \ {i0} : info'[i] = info[i]
      /\ \A i \in Index : info[i] # p
  <2>1. p \notin InFlight BY <1>3 DEF InFlight
  <2>2. \A i \in Index : info[i] # p BY <1>1, <2>1 DEF DiskInv, Heads
  <2> QED BY <1>2, <1>5, <2>2
<1>10. InFlight' = InFlight \cup {p} BY <1>2, <1>5 DEF InFlight
<1>11. Heads'
  <2>1. /\ \A i \in Index : info[i] # Nil => info[i] \in InFlight
        /\ \A i, j \in Index : info[i] = info[j] /\ info[i] # Nil => i = j
        /\ \A q \in InFlight : \E i \in Index : info[i] = q
    BY DEF DiskInv, Heads
  <2>2. \A i \in Index : info'[i] # Nil => info'[i] \in InFlight' BY <1>9, <1>10, <2>1
  <2>3. \A i, j \in Index : info'[i] = info'[j] /\ info'[i] # Nil => i = j
    BY <1>9, <2>1
  <2>4. ASSUME NEW q \in InFlight' PROVE \E i \in Index : info'[i] = q
    <3>1. CASE q = p BY <1>9, <3>1
    <3>2. CASE q # p
      <4>1. PICK i \in Index : info[i] = q BY <1>10, <2>1, <2>4, <3>2
      <4>2. q # Nil BY <1>1, IndexFacts, <1>10, <2>4 DEF InFlight
      <4>3. i # i0 BY <1>8, <4>1, <4>2
      <4> QED BY <1>9, <4>1, <4>3
    <3> QED BY <3>1, <3>2
  <2> QED BY <2>2, <2>3, <2>4 DEF Heads
<1>12. /\ Second(i0)' = i1 /\ Third(i0)' = i2
       /\ desc'[i0].more /\ desc'[i1].more /\ ~desc'[i2].more
       /\ desc'[i0].addr = Hdr(p) /\ desc'[i1].addr = Data(p)
  BY <1>3, <1>4, <1>5 DEF Second, Third
<1>13. \A i \in Index : ~free[i] => desc'[i] = desc[i] BY <1>3, <1>4, <1>5
<1>14. ASSUME NEW i \in Index, info[i] # Nil
       PROVE  Second(i)' = Second(i) /\ Third(i)' = Third(i) /\ Three(i)' = Three(i)
  <2>1. ~free[i] /\ ~free[desc[i].next] /\ desc[i].next \in Index
    BY <1>14 DEF DiskInv, ChainShape, Second, DiskTypeOK
  <2>2. desc'[i] = desc[i] /\ desc'[desc[i].next] = desc[desc[i].next] BY <1>13, <2>1
  <2> QED BY <2>2, Zenon DEF Second, Third, Three
<1>15. \A i \in Index : info'[i] # Nil => i = i0 \/ (i # i0 /\ info[i] # Nil /\ info'[i] = info[i])
  <2>1. ASSUME NEW i \in Index, info'[i] # Nil, i # i0
        PROVE  info[i] # Nil /\ info'[i] = info[i]
    BY <1>9, <2>1
  <2> QED BY <2>1
<1>16. \A i \in Index : free'[i] <=> free[i] /\ i # i0 /\ i # i1 /\ i # i2 BY <1>2, <1>5
<1>17. ChainShape'
  <2>1. ASSUME NEW i \in Index, i # i0, info[i] # Nil, info'[i] = info[i]
        PROVE  /\ i # Second(i)' /\ i # Third(i)' /\ (Second(i) # Third(i))'
               /\ ~free'[i] /\ ~free'[Second(i)'] /\ ~free'[Third(i)']
               /\ desc'[i].more /\ desc'[Second(i)'].more /\ ~desc'[Third(i)'].more
               /\ desc'[i].addr = Hdr(info[i]) /\ desc'[Second(i)'].addr = Data(info[i])
    <3>1. /\ i # Second(i) /\ i # Third(i) /\ Second(i) # Third(i)
          /\ ~free[i] /\ ~free[Second(i)] /\ ~free[Third(i)]
          /\ desc[i].more /\ desc[Second(i)].more /\ ~desc[Third(i)].more
          /\ desc[i].addr = Hdr(info[i]) /\ desc[Second(i)].addr = Data(info[i])
          /\ Second(i) \in Index /\ Third(i) \in Index
      BY <2>1, HeadFacts DEF DiskInv, ChainShape
    <3>2. /\ desc'[i] = desc[i] /\ desc'[Second(i)] = desc[Second(i)]
          /\ desc'[Third(i)] = desc[Third(i)]
      BY <1>13, <3>1
    <3>3. ~free'[i] /\ ~free'[Second(i)] /\ ~free'[Third(i)] BY <1>16, <3>1
    <3> QED BY <1>14, <2>1, <3>1, <3>2, <3>3
  <2>2. ~free'[i0] /\ ~free'[i1] /\ ~free'[i2] BY <1>16
  <2>3. ASSUME NEW i \in Index, info'[i] # Nil
        PROVE  /\ i # Second(i)' /\ i # Third(i)' /\ (Second(i) # Third(i))'
               /\ ~free'[i] /\ ~free'[Second(i)'] /\ ~free'[Third(i)']
               /\ desc'[i].more /\ desc'[Second(i)'].more /\ ~desc'[Third(i)'].more
               /\ desc'[i].addr = Hdr(info'[i]) /\ desc'[Second(i)'].addr = Data(info'[i])
    <3>1. CASE i = i0 BY <1>3, <1>9, <1>12, <2>2, <3>1
    <3>2. CASE i # i0
      <4>1. info[i] # Nil /\ info'[i] = info[i] BY <1>15, <2>3, <3>2
      <4> QED BY <2>1, <3>2, <4>1, Zenon
    <3> QED BY <3>1, <3>2
  <2> QED BY <2>3 DEF ChainShape
<1>18. Three(i0)' = {i0, i1, i2} BY <1>12 DEF Three
<1>19. ASSUME NEW i \in Index, info[i] # Nil
       PROVE  Three(i) \cap {i0, i1, i2} = {}
  BY <1>3, <1>19, HeadFacts DEF Three
<1>20. ChainsApart'
  <2>1. ASSUME NEW i \in Index, NEW j \in Index, info'[i] # Nil, info'[j] # Nil, i # j
        PROVE  (Three(i) \cap Three(j) = {})'
    <3>1. CASE i = i0
      <4>1. info[j] # Nil BY <1>15, <2>1, <3>1
      <4>2. Three(j) \cap {i0, i1, i2} = {} /\ Three(j)' = Three(j) BY <1>14, <1>19, <4>1
      <4> QED BY <1>18, <3>1, <4>2
    <3>2. CASE j = i0
      <4>1. info[i] # Nil BY <1>15, <2>1, <3>2
      <4>2. Three(i) \cap {i0, i1, i2} = {} /\ Three(i)' = Three(i) BY <1>14, <1>19, <4>1
      <4> QED BY <1>18, <3>2, <4>2
    <3>3. CASE i # i0 /\ j # i0
      <4>1. info[i] # Nil /\ info[j] # Nil BY <1>15, <2>1, <3>3
      <4>2. Three(i)' = Three(i) /\ Three(j)' = Three(j) BY <1>14, <4>1
      <4>3. Three(i) \cap Three(j) = {} BY <2>1, <4>1 DEF DiskInv, ChainsApart
      <4> QED BY <4>2, <4>3
    <3> QED BY <3>1, <3>2, <3>3
  <2> QED BY <2>1 DEF ChainsApart
<1>21. TakenInChain'
  <2>1. ASSUME NEW m \in Index, ~free'[m]
        PROVE  \E i \in Index : info'[i] # Nil /\ m \in Three(i)'
    <3>1. CASE m \in {i0, i1, i2} BY <1>1, <1>9, <1>18, <3>1
    <3>2. CASE m \notin {i0, i1, i2}
      <4>1. ~free[m] BY <1>16, <2>1, <3>2
      <4>2. PICK i \in Index : info[i] # Nil /\ m \in Three(i)
        BY <4>1 DEF DiskInv, TakenInChain
      <4>3. i # i0 /\ Three(i)' = Three(i) BY <1>8, <1>14, <4>2
      <4> QED BY <1>9, <4>2, <4>3
    <3> QED BY <3>1, <3>2
  <2> QED BY <2>1 DEF TakenInChain
<1>22. \A i \in Index : Waits(i) => i # i0 /\ i # i1 /\ Waits(i)'
  <2>1. ASSUME NEW i \in Index, Waits(i) PROVE i # i0 /\ i # i1 /\ Waits(i)'
    <3>1. info[i] # Nil /\ busy[info[i]] BY <2>1 DEF Waits
    <3>2. i # i0 /\ i # i1 /\ info[i] \in DiskProc BY <1>5, <1>8, <3>1
    <3>3. info'[i] = info[i] /\ busy'[info[i]] BY <1>2, <1>5, <1>9, <3>1, <3>2
    <3> QED BY <3>1, <3>2, <3>3 DEF Waits
  <2> QED BY <2>1
<1>23. Waits(i0)' BY <1>1, <1>2, <1>5, <1>9 DEF Waits
<1>24. /\ \A k \in Window(devIdx, availIdx) : Waits(avail[k]) /\ avail[k] \notin working
       /\ \A k, l \in Window(devIdx, availIdx) : avail[k] = avail[l] => k = l
       /\ \A k \in Window(devIdx, availIdx), l \in Window(used_idx, usedId) : avail[k] # used[l]
  BY DEF DiskInv, ToFetch
<1>25. /\ Window(devIdx, (availIdx + 1) % NUM) = Window(devIdx, availIdx) \cup {availIdx}
       /\ availIdx \notin Window(devIdx, availIdx)
  <2>1. \A k \in Window(devIdx, availIdx) : avail[k] \in Index \ {i0, i1}
    <3>1. \A k \in Window(devIdx, availIdx) : avail[k] \in Index BY <1>24 DEF Waits
    <3> QED BY <1>22, <1>24, <3>1
  <2>2. devIdx \in Index BY DEF DiskInv, DiskTypeOK
  <2>3. (availIdx - devIdx) % NUM < NUM - 1
    BY <1>1, <1>3, <1>24, <2>1, <2>2, WindowNotFull, Zenon
  <2> QED BY <1>1, <2>2, <2>3, WindowGrows, Zenon
<1>26. /\ avail'[availIdx] = i0
       /\ \A k \in Window(devIdx, availIdx) : avail'[k] = avail[k]
  BY <1>1, <1>2, <1>5, <1>25 DEF Window
<1>27. /\ Window(devIdx, availIdx)' = Window(devIdx, availIdx) \cup {availIdx}
       /\ Window(used_idx, usedId)' = Window(used_idx, usedId)
  <2>1. Window(devIdx, availIdx)' = Window(devIdx, (availIdx + 1) % NUM) BY <1>2 DEF Window
  <2> QED BY <1>2, <1>25, <2>1 DEF Window
<1>28. i0 \notin working /\ \A l \in Window(used_idx, usedId) : used[l] # i0
  <2>1. \A i \in working : Waits(i) /\ i \in Index BY DEF DiskInv, Fetched, Waits
  <2>2. \A l \in Window(used_idx, usedId) : Waits(used[l]) /\ used[l] \in Index
    BY DEF DiskInv, Completed, Waits
  <2> QED BY <1>22, <2>1, <2>2
<1>29. ToFetch'
  <2>1. \A k \in Window(devIdx, availIdx) : avail[k] \in Index BY <1>24 DEF Waits
  <2>2. ASSUME NEW k \in Window(devIdx, availIdx)'
        PROVE  (Waits(avail[k]) /\ avail[k] \notin working)'
    <3>1. CASE k = availIdx
      <4>1. Waits(avail[k])' BY <1>23, <1>26, <3>1 DEF Waits
      <4> QED BY <1>2, <1>26, <1>28, <3>1, <4>1
    <3>2. CASE k \in Window(devIdx, availIdx)
      <4>1. Waits(avail[k]) /\ avail[k] \in Index /\ avail[k] \notin working BY <1>24, <2>1, <3>2
      <4>2. Waits(avail[k])'
        <5>1. PICK i \in Index : i = avail[k] BY <4>1
        <5>2. Waits(i)' BY <1>22, <4>1, <5>1
        <5>3. avail'[k] = i BY <1>26, <3>2, <5>1
        <5> QED BY <5>2, <5>3 DEF Waits
      <4> QED BY <1>2, <1>26, <3>2, <4>1, <4>2
    <3> QED BY <1>27, <2>2, <3>1, <3>2
  <2>3. \A k \in Window(devIdx, availIdx) : avail[k] # i0 BY <1>22, <1>24, <2>1
  <2>4. \A k, l \in Window(devIdx, availIdx)' : avail'[k] = avail'[l] => k = l
    BY <1>24, <1>26, <1>27, <2>3
  <2>5. \A k \in Window(devIdx, availIdx)', l \in Window(used_idx, usedId)' : avail'[k] # used'[l]
    BY <1>2, <1>24, <1>26, <1>27, <1>28
  <2> QED BY <2>2, <2>4, <2>5, Zenon DEF ToFetch
<1>30. Fetched'
  <2>1. \A i \in working : Waits(i) /\ i \in Index BY DEF DiskInv, Fetched, Waits
  <2> QED BY <1>2, <1>22, <2>1, Zenon DEF Fetched
<1>31. Completed'
  <2>1. \A l \in Window(used_idx, usedId) : Waits(used[l]) /\ used[l] \in Index /\ used[l] \notin working
    BY DEF DiskInv, Completed, Waits
  <2>2. ASSUME NEW l \in Window(used_idx, usedId) PROVE (Waits(used[l]))'
    <3>1. PICK i \in Index : i = used[l] BY <2>1
    <3>2. Waits(i)' BY <1>22, <2>1, <3>1
    <3> QED BY <1>2, <3>1, <3>2 DEF Waits
  <2>3. \A k, l \in Window(used_idx, usedId) : used[k] = used[l] => k = l BY DEF DiskInv, Completed
  <2> QED BY <1>2, <1>27, <2>1, <2>2, <2>3 DEF Completed
<1> QED BY <1>6, <1>7, <1>11, <1>17, <1>20, <1>21, <1>29, <1>30, <1>31, Zenon DEF DiskInv

\* RwReturn keeps DiskInv.
LEMMA RwReturnInv ==
    ASSUME DiskInv, NEW p \in DiskProc, RwReturn(p)
    PROVE  DiskInv'
<1> DEFINE h == HeadOf(p)
<1>1. p \in InFlight /\ p # Nil /\ dpc[p] = "io" /\ ~busy[p]
  BY IndexFacts DEF RwReturn, InFlight
<1>2. h \in Index /\ info[h] = p /\ Chain(h) = Three(h) /\ \A i \in Index : info[i] = p => i = h
  BY <1>1, ChainOf
<1>3. /\ free' = [i \in Index |-> free[i] \/ i \in Three(h)]
      /\ desc' = [i \in Index |-> IF i \in Three(h) THEN [desc[i] EXCEPT !.addr = Nil] ELSE desc[i]]
      /\ info' = [info EXCEPT ![h] = Nil]
      /\ dpc' = [[q \in DiskProc |-> IF dpc[q] = "allocsleep" THEN "alloc" ELSE dpc[q]]
                      EXCEPT ![p] = "idle"]
      /\ hdr' = [hdr EXCEPT ![p] = NoRequest]
      /\ UNCHANGED <<avail, availIdx, used_idx, busy, used, usedId, devIdx, working, platter, nrw, bufData>>
  BY <1>2 DEF RwReturn, deviceVars, FreeWaiters
<1> HIDE DEF h
<1>4. /\ info \in [Index -> DiskProc \cup {Nil}] /\ busy \in [DiskProc -> BOOLEAN]
      /\ free \in [Index -> BOOLEAN] /\ dpc \in [DiskProc -> DiskPC]
  BY DEF DiskInv, DiskTypeOK
<1>5. DiskTypeOK'
  <2>1. free' \in [Index -> BOOLEAN] BY <1>3, <1>4
  <2>2. info' \in [Index -> DiskProc \cup {Nil}] BY <1>3, <1>4
  <2>3. dpc' \in [DiskProc -> DiskPC] BY <1>3, <1>4 DEF DiskPC
  <2>4. \A i \in Index : desc'[i].next = desc[i].next BY <1>3 DEF DiskInv, Requests
  <2> QED BY <1>3, <2>1, <2>2, <2>3, <2>4 DEF DiskInv, DiskTypeOK
<1>6. Requests'
  <2> DEFINE D == [addr : {Nil} \cup ({"hdr", "data"} \X DiskProc) \cup ({"status"} \X Index),
                   next : Index, more : BOOLEAN, devWrites : BOOLEAN]
  <2>1. desc \in [Index -> D] BY DEF DiskInv, Requests
  <2>2. \A i \in Index : [desc[i] EXCEPT !.addr = Nil] \in D BY <2>1
  <2>3. desc' \in [Index -> D]
    <3> HIDE DEF D
    <3> QED BY <1>3, <2>1, <2>2
  <2>4. hdr' \in [DiskProc -> {NoRequest} \cup [type : {"read", "write"}, sector : DiskProc]]
    BY <1>3 DEF DiskInv, Requests
  <2>5. \A q \in DiskProc : dpc'[q] # "idle" => q # p /\ dpc[q] # "idle" BY <1>3, <1>4
  <2>6. \A q \in DiskProc : q # p => hdr'[q] = hdr[q] BY <1>3 DEF DiskInv, Requests
  <2>7. \A q \in DiskProc : dpc'[q] # "idle" =>
                hdr'[q].type \in {"read", "write"} /\ hdr'[q].sector = q
    BY <2>5, <2>6 DEF DiskInv, Requests
  <2> QED BY <2>3, <2>4, <2>7 DEF Requests
<1>7. info'[h] = Nil /\ \A i \in Index : i # h => info'[i] = info[i] BY <1>2, <1>3, <1>4
<1>8. InFlight' = InFlight \ {p} BY <1>1, <1>3, <1>4 DEF InFlight
<1>9. Heads'
  <2>1. /\ \A i \in Index : info[i] # Nil => info[i] \in InFlight
        /\ \A i, j \in Index : info[i] = info[j] /\ info[i] # Nil => i = j
        /\ \A q \in InFlight : \E i \in Index : info[i] = q
    BY DEF DiskInv, Heads
  <2>2. ASSUME NEW i \in Index, info'[i] # Nil PROVE info'[i] \in InFlight'
    BY <1>2, <1>7, <1>8, <2>1, <2>2
  <2>3. ASSUME NEW i \in Index, NEW j \in Index, info'[i] = info'[j], info'[i] # Nil PROVE i = j
    BY <1>7, <2>1, <2>3
  <2>4. ASSUME NEW q \in InFlight' PROVE \E i \in Index : info'[i] = q
    <3>1. q \in InFlight /\ q # p BY <1>8, <2>4
    <3>2. PICK i \in Index : info[i] = q BY <2>1, <3>1
    <3> QED BY <1>2, <1>7, <3>1, <3>2
  <2> QED BY <2>2, <2>3, <2>4 DEF Heads
<1>10. ASSUME NEW i \in Index, info'[i] # Nil
       PROVE  i # h /\ info[i] # Nil /\ info'[i] = info[i]
  BY <1>7, <1>10
<1>11. ASSUME NEW i \in Index, info'[i] # Nil
       PROVE  \A m \in Three(i) : m \notin Three(h)
  BY <1>1, <1>2, <1>10, <1>11, HeadFacts
<1>12. \A m \in Index : m \notin Three(h) => desc'[m] = desc[m] /\ free'[m] = free[m]
  BY <1>3, <1>4
<1>13. ASSUME NEW i \in Index, info'[i] # Nil
       PROVE  /\ Second(i)' = Second(i) /\ Third(i)' = Third(i) /\ Three(i)' = Three(i)
              /\ \A m \in Three(i) : desc'[m] = desc[m] /\ free'[m] = free[m]
  <2>1. Second(i) \in Index /\ Third(i) \in Index BY <1>10, <1>13, HeadFacts
  <2>2. \A m \in Three(i) : desc'[m] = desc[m] /\ free'[m] = free[m]
    BY <1>11, <1>12, <1>13, <2>1 DEF Three
  <2>3. desc'[i] = desc[i] /\ desc'[desc[i].next] = desc[desc[i].next]
    BY <2>2 DEF Three, Second
  <2> QED BY <2>2, <2>3, Zenon DEF Second, Third, Three
<1>14. ChainShape'
  <2>1. ASSUME NEW i \in Index, info'[i] # Nil
        PROVE  /\ i # Second(i)' /\ i # Third(i)' /\ (Second(i) # Third(i))'
               /\ ~free'[i] /\ ~free'[Second(i)'] /\ ~free'[Third(i)']
               /\ desc'[i].more /\ desc'[Second(i)'].more /\ ~desc'[Third(i)'].more
               /\ desc'[i].addr = Hdr(info'[i]) /\ desc'[Second(i)'].addr = Data(info'[i])
    <3>1. info[i] # Nil /\ info'[i] = info[i] BY <1>10, <2>1
    <3>2. /\ i # Second(i) /\ i # Third(i) /\ Second(i) # Third(i)
          /\ ~free[i] /\ ~free[Second(i)] /\ ~free[Third(i)]
          /\ desc[i].more /\ desc[Second(i)].more /\ ~desc[Third(i)].more
          /\ desc[i].addr = Hdr(info[i]) /\ desc[Second(i)].addr = Data(info[i])
      BY <3>1 DEF DiskInv, ChainShape
    <3>3. i \in Three(i) /\ Second(i) \in Three(i) /\ Third(i) \in Three(i) BY DEF Three
    <3>4. /\ desc'[i] = desc[i] /\ desc'[Second(i)] = desc[Second(i)]
          /\ desc'[Third(i)] = desc[Third(i)]
          /\ ~free'[i] /\ ~free'[Second(i)] /\ ~free'[Third(i)]
      BY <1>13, <2>1, <3>2, <3>3
    <3> QED BY <1>13, <2>1, <3>1, <3>2, <3>4
  <2> QED BY <2>1 DEF ChainShape
<1>15. ChainsApart'
  <2>1. ASSUME NEW i \in Index, NEW j \in Index, info'[i] # Nil, info'[j] # Nil, i # j
        PROVE  (Three(i) \cap Three(j) = {})'
    <3>1. Three(i)' = Three(i) /\ Three(j)' = Three(j) BY <1>13, <2>1
    <3>2. Three(i) \cap Three(j) = {} BY <1>10, <2>1 DEF DiskInv, ChainsApart
    <3> QED BY <3>1, <3>2
  <2> QED BY <2>1 DEF ChainsApart
<1>16. TakenInChain'
  <2>1. ASSUME NEW m \in Index, ~free'[m]
        PROVE  \E i \in Index : info'[i] # Nil /\ m \in Three(i)'
    <3>1. ~free[m] /\ m \notin Three(h) BY <1>3, <1>4, <2>1
    <3>2. PICK i \in Index : info[i] # Nil /\ m \in Three(i)
      BY <3>1 DEF DiskInv, TakenInChain
    <3>3. info'[i] # Nil BY <1>7, <3>1, <3>2
    <3> QED BY <1>13, <3>2, <3>3
  <2> QED BY <2>1 DEF TakenInChain
<1>17. \A i \in Index : Waits(i) => Waits(i)'
  <2>1. ASSUME NEW i \in Index, Waits(i) PROVE Waits(i)'
    <3>1. info[i] # Nil /\ busy[info[i]] BY <2>1 DEF Waits
    <3>2. i # h BY <1>1, <1>2, <3>1
    <3> QED BY <1>3, <1>7, <3>1, <3>2 DEF Waits
  <2> QED BY <2>1
<1>18. /\ Window(devIdx, availIdx)' = Window(devIdx, availIdx)
       /\ Window(used_idx, usedId)' = Window(used_idx, usedId)
  BY <1>3 DEF Window
<1>19. \A x \in Index : avail'[x] = avail[x] /\ used'[x] = used[x] /\ working' = working BY <1>3
<1>20. ToFetch'
  <2>1. ASSUME NEW k \in Window(devIdx, availIdx) PROVE Waits(avail[k])' /\ avail[k] \notin working
    <3>1. PICK i \in Index : i = avail[k] /\ Waits(i) /\ i \notin working
      BY DEF DiskInv, ToFetch, Waits
    <3>2. Waits(i)' BY <1>17, <3>1
    <3> QED BY <1>3, <3>1, <3>2 DEF Waits
  <2> QED BY <1>3, <1>18, <2>1 DEF DiskInv, ToFetch
<1>21. Fetched'
  <2>1. \A i \in working : Waits(i) /\ i \in Index BY DEF DiskInv, Fetched, Waits
  <2> QED BY <1>3, <1>17, <2>1, Zenon DEF Fetched
<1>22. Completed'
  <2>1. ASSUME NEW k \in Window(used_idx, usedId) PROVE Waits(used[k])' /\ used[k] \notin working
    <3>1. PICK i \in Index : i = used[k] /\ Waits(i) /\ i \notin working
      BY DEF DiskInv, Completed, Waits
    <3>2. Waits(i)' BY <1>17, <3>1
    <3> QED BY <1>3, <3>1, <3>2 DEF Waits
  <2> QED BY <1>3, <1>18, <2>1 DEF DiskInv, Completed
<1> QED BY <1>5, <1>6, <1>9, <1>14, <1>15, <1>16, <1>20, <1>21, <1>22, Zenon DEF DiskInv

\* What only the descriptors, their owners and their requests say.
DriverInv == Requests /\ Heads /\ ChainShape /\ ChainsApart /\ TakenInChain

\* A step that touches neither descriptors nor requests keeps DriverInv.
LEMMA DriverFrame ==
    ASSUME DriverInv, UNCHANGED <<desc, free, info, hdr>>, InFlight' = InFlight,
           \A p \in DiskProc : dpc'[p] # "idle" => dpc[p] # "idle"
    PROVE  DriverInv'
<1>1. Requests' BY DEF DriverInv, Requests
<1>2. Heads' BY DEF DriverInv, Heads
<1>3. ChainShape' BY DEF DriverInv, ChainShape, Second, Third
<1>4. ChainsApart' BY DEF DriverInv, ChainsApart, Three, Second, Third
<1>5. TakenInChain' BY DEF DriverInv, TakenInChain, Three, Second, Third
<1> QED BY <1>1, <1>2, <1>3, <1>4, <1>5 DEF DriverInv

\* Intr keeps DiskInv.
LEMMA IntrInv ==
    ASSUME DiskInv, Intr
    PROVE  DiskInv'
<1> DEFINE u == used[used_idx]  b == info[u]
<1>1. used_idx \in Index /\ usedId \in Index /\ used_idx # usedId /\ (used_idx + 1) % NUM \in Index
  <2>1. used_idx \in Index /\ usedId \in Index BY DEF DiskInv, DiskTypeOK
  <2> QED BY <2>1, IndexFacts DEF Intr
<1>2. /\ used_idx \in Window(used_idx, usedId)
      /\ Window((used_idx + 1) % NUM, usedId) = Window(used_idx, usedId) \ {used_idx}
  BY <1>1, WindowShrinks, Zenon
<1>3. /\ \A k \in Window(used_idx, usedId) : Waits(used[k]) /\ used[k] \notin working
      /\ \A k, l \in Window(used_idx, usedId) : used[k] = used[l] => k = l
      /\ \A i \in working : Waits(i)
      /\ \A k \in Window(devIdx, availIdx) : Waits(avail[k]) /\ avail[k] \notin working
      /\ \A k, l \in Window(devIdx, availIdx) : avail[k] = avail[l] => k = l
      /\ \A k \in Window(devIdx, availIdx), l \in Window(used_idx, usedId) : avail[k] # used[l]
  BY DEF DiskInv, Completed, Fetched, ToFetch
<1>4. u \in Index /\ info[u] # Nil /\ busy[b] BY <1>2, <1>3 DEF Waits
<1>5. b \in DiskProc /\ dpc[b] \in {"io", "iosleep"} BY <1>4, HeadFacts
<1>6. /\ busy' = [busy EXCEPT ![b] = FALSE]
      /\ dpc' = [dpc EXCEPT ![b] = IF @ = "iosleep" THEN "io" ELSE @]
      /\ used_idx' = (used_idx + 1) % NUM
      /\ used' = [used EXCEPT ![used_idx] = Nil]
      /\ UNCHANGED <<desc, free, info, avail, availIdx, hdr, usedId, devIdx, working, platter, nrw, bufData>>
  BY DEF Intr
<1>7. /\ busy \in [DiskProc -> BOOLEAN] /\ dpc \in [DiskProc -> DiskPC]
      /\ used \in [Index -> Index \cup {Nil}]
  BY DEF DiskInv, DiskTypeOK
<1>8. \A i \in Index : Waits(i) /\ i # u => Waits(i)'
  <2>1. ASSUME NEW i \in Index, Waits(i), i # u PROVE Waits(i)'
    <3>1. info[i] # Nil /\ busy[info[i]] BY <2>1 DEF Waits
    <3>2. info[i] # b /\ info[i] \in DiskProc BY <1>4, <2>1, <3>1, HeadFacts
    <3> HIDE DEF b
    <3>3. busy'[info[i]] BY <1>6, <1>7, <3>1, <3>2
    <3> QED BY <1>6, <3>1, <3>3 DEF Waits
  <2> QED BY <2>1, Zenon
<1> HIDE DEF b, u
<1>9. DiskTypeOK'
  <2>1. busy' \in [DiskProc -> BOOLEAN] BY <1>6, <1>7
  <2>2. dpc' \in [DiskProc -> DiskPC] BY <1>6, <1>7 DEF DiskPC
  <2>3. used' \in [Index -> Index \cup {Nil}] BY <1>6, <1>7
  <2> QED BY <1>1, <1>6, <2>1, <2>2, <2>3 DEF DiskInv, DiskTypeOK
<1>10. DriverInv'
  <2>1. DriverInv BY DEF DiskInv, DriverInv
  <2>2. InFlight' = InFlight BY <1>5, <1>6, <1>7 DEF InFlight
  <2>3. \A p \in DiskProc : dpc'[p] # "idle" => dpc[p] # "idle" BY <1>5, <1>6, <1>7
  <2> QED BY <1>6, <2>1, <2>2, <2>3, DriverFrame
<1>11. Window(used_idx, usedId)' = Window(used_idx, usedId) \ {used_idx}
  <2>1. Window(used_idx, usedId)' = Window((used_idx + 1) % NUM, usedId) BY <1>6 DEF Window
  <2> QED BY <1>2, <2>1
<1>12. \A k \in Window(used_idx, usedId)' :
           k \in Window(used_idx, usedId) /\ used'[k] = used[k] /\ used[k] # u
  <2>1. \A k \in Window(used_idx, usedId) : k \in Index BY DEF Window
  <2> QED BY <1>1, <1>2, <1>3, <1>6, <1>7, <1>11, <2>1 DEF u
<1>13. Window(devIdx, availIdx)' = Window(devIdx, availIdx) BY <1>6 DEF Window
<1>14. ToFetch'
  <2>1. ASSUME NEW k \in Window(devIdx, availIdx) PROVE Waits(avail[k])'
    <3>1. PICK i \in Index : i = avail[k] /\ Waits(i) BY <1>3 DEF Waits
    <3>2. i # u BY <1>2, <1>3, <3>1 DEF u
    <3>3. Waits(i)' BY <1>8, <3>1, <3>2
    <3> QED BY <1>6, <3>1, <3>3 DEF Waits
  <2> QED BY <1>3, <1>6, <1>12, <1>13, <2>1 DEF ToFetch
<1>15. Fetched'
  <2>1. ASSUME NEW i \in working PROVE Waits(i)'
    <3>1. Waits(i) /\ i \in Index BY <1>3 DEF Waits
    <3>2. i # u BY <1>2, <1>3 DEF u
    <3> QED BY <1>8, <3>1, <3>2
  <2> QED BY <1>6, <2>1 DEF Fetched
<1>16. Completed'
  <2>1. ASSUME NEW k \in Window(used_idx, usedId)' PROVE Waits(used[k])'
    <3>1. PICK i \in Index : i = used[k] /\ Waits(i) /\ i # u BY <1>3, <1>12 DEF Waits
    <3>2. Waits(i)' /\ used'[k] = i BY <1>8, <1>12, <3>1
    <3> QED BY <3>2 DEF Waits
  <2> QED BY <1>3, <1>6, <1>12, <2>1 DEF Completed
<1> QED BY <1>9, <1>10, <1>14, <1>15, <1>16, Zenon DEF DiskInv, DriverInv

\* DevFetch keeps DiskInv.
LEMMA DevFetchInv ==
    ASSUME DiskInv, DevFetch
    PROVE  DiskInv'
<1> DEFINE i == avail[devIdx]
<1>1. devIdx \in Index /\ availIdx \in Index /\ devIdx # availIdx /\ (devIdx + 1) % NUM \in Index
  <2>1. devIdx \in Index /\ availIdx \in Index BY DEF DiskInv, DiskTypeOK
  <2> QED BY <2>1, IndexFacts DEF DevFetch
<1>2. /\ devIdx \in Window(devIdx, availIdx)
      /\ Window((devIdx + 1) % NUM, availIdx) = Window(devIdx, availIdx) \ {devIdx}
  BY <1>1, WindowShrinks, Zenon
<1>3. /\ \A k \in Window(used_idx, usedId) : Waits(used[k]) /\ used[k] \notin working
      /\ \A k, l \in Window(used_idx, usedId) : used[k] = used[l] => k = l
      /\ \A j \in working : Waits(j)
      /\ \A k \in Window(devIdx, availIdx) : Waits(avail[k]) /\ avail[k] \notin working
      /\ \A k, l \in Window(devIdx, availIdx) : avail[k] = avail[l] => k = l
      /\ \A k \in Window(devIdx, availIdx), l \in Window(used_idx, usedId) : avail[k] # used[l]
  BY DEF DiskInv, Completed, Fetched, ToFetch
<1>4. i \in Index /\ Waits(i) BY <1>2, <1>3 DEF Waits
<1>5. /\ working' = working \cup {i}
      /\ devIdx' = (devIdx + 1) % NUM
      /\ avail' = [avail EXCEPT ![devIdx] = Nil]
      /\ UNCHANGED <<desc, free, info, availIdx, used_idx, busy, hdr, used, usedId, platter, dpc, nrw, bufData>>
  BY DEF DevFetch
<1>6. avail \in [Index -> Index \cup {Nil}] /\ working \subseteq Index
  BY DEF DiskInv, DiskTypeOK
<1>7. \A j : Waits(j) => Waits(j)' BY <1>5 DEF Waits
<1>8. DiskTypeOK'
  <2>1. avail' \in [Index -> Index \cup {Nil}] BY <1>5, <1>6
  <2>2. working' \subseteq Index BY <1>4, <1>5, <1>6
  <2> QED BY <1>1, <1>5, <2>1, <2>2 DEF DiskInv, DiskTypeOK
<1>9. DriverInv'
  <2>1. DriverInv BY DEF DiskInv, DriverInv
  <2>2. InFlight' = InFlight BY <1>5 DEF InFlight
  <2> QED BY <1>5, <2>1, <2>2, DriverFrame
<1>10. Window(devIdx, availIdx)' = Window(devIdx, availIdx) \ {devIdx}
  <2>1. Window(devIdx, availIdx)' = Window((devIdx + 1) % NUM, availIdx) BY <1>5 DEF Window
  <2> QED BY <1>2, <2>1
<1>11. \A k \in Window(devIdx, availIdx)' :
           k \in Window(devIdx, availIdx) /\ avail'[k] = avail[k] /\ avail[k] # i
  <2>1. \A k \in Window(devIdx, availIdx) : k \in Index BY DEF Window
  <2> QED BY <1>1, <1>2, <1>3, <1>5, <1>6, <1>10, <2>1
<1>12. Window(used_idx, usedId)' = Window(used_idx, usedId) BY <1>5 DEF Window
<1>13. \A l \in Window(used_idx, usedId) : used[l] # i BY <1>2, <1>3
<1> HIDE DEF i
<1>14. ToFetch'
  <2>1. ASSUME NEW k \in Window(devIdx, availIdx)' PROVE Waits(avail[k])' /\ avail'[k] \notin working'
    <3>1. PICK j : j = avail[k] /\ Waits(j) /\ j \notin working /\ j # i BY <1>3, <1>11
    <3>2. Waits(j)' /\ avail'[k] = j BY <1>7, <1>11, <3>1
    <3> QED BY <1>5, <3>1, <3>2 DEF Waits
  <2> QED BY <1>3, <1>5, <1>11, <1>12, <2>1 DEF ToFetch
<1>15. Fetched'
  <2>1. \A j \in working' : Waits(j) BY <1>3, <1>4, <1>5
  <2> QED BY <1>7, <2>1, Zenon DEF Fetched
<1>16. Completed'
  <2>1. ASSUME NEW k \in Window(used_idx, usedId) PROVE Waits(used[k])' /\ used[k] \notin working'
    <3>1. PICK j : j = used[k] /\ Waits(j) /\ j \notin working /\ j # i BY <1>3, <1>13
    <3>2. Waits(j)' BY <1>7, <3>1
    <3> QED BY <1>5, <3>1, <3>2 DEF Waits
  <2> QED BY <1>3, <1>5, <1>12, <2>1 DEF Completed
<1> QED BY <1>8, <1>9, <1>14, <1>15, <1>16, Zenon DEF DiskInv, DriverInv

\* What the device finds through the descriptors of a chain.
LEMMA Found ==
    ASSUME DiskInv, NEW i \in Index, info[i] # Nil
    PROVE  LET p == info[i] IN
           /\ p \in DiskProc
           /\ desc[i].addr[2] = p /\ desc[desc[i].next].addr[2] = p
           /\ hdr[p].type \in {"read", "write"} /\ hdr[p].sector = p
<1>1. /\ info[i] \in DiskProc /\ dpc[info[i]] # "idle"
      /\ desc[i].addr = Hdr(info[i]) /\ desc[desc[i].next].addr = Data(info[i])
  BY HeadFacts DEF Second
<1> QED BY <1>1 DEF Hdr, Data, DiskInv, Requests

\* DevComplete keeps DiskInv.
LEMMA DevCompleteInv ==
    ASSUME DiskInv, NEW i \in Index, DevComplete(i)
    PROVE  DiskInv'
<1> DEFINE p == info[i]
<1>1. /\ \A k \in Window(used_idx, usedId) : Waits(used[k]) /\ used[k] \notin working
      /\ \A k, l \in Window(used_idx, usedId) : used[k] = used[l] => k = l
      /\ \A j \in working : Waits(j)
      /\ \A k \in Window(devIdx, availIdx) : Waits(avail[k]) /\ avail[k] \notin working
      /\ \A k, l \in Window(devIdx, availIdx) : avail[k] = avail[l] => k = l
      /\ \A k \in Window(devIdx, availIdx), l \in Window(used_idx, usedId) : avail[k] # used[l]
  BY DEF DiskInv, Completed, Fetched, ToFetch
<1>2. i \in working /\ Waits(i) /\ info[i] # Nil BY <1>1 DEF DevComplete, Waits
<1>3. usedId \in Index /\ used_idx \in Index /\ usedId % NUM = usedId /\ (usedId + 1) % NUM \in Index
  <2>1. usedId \in Index /\ used_idx \in Index BY DEF DiskInv, DiskTypeOK
  <2> QED BY <2>1, IndexFacts
<1>4. /\ p \in DiskProc
      /\ desc[i].addr[2] = p /\ desc[desc[i].next].addr[2] = p
      /\ hdr[p].type \in {"read", "write"} /\ hdr[p].sector = p
  BY <1>2, Found
<1>5. /\ working' = working \ {i}
      /\ \/ bufData' = [bufData EXCEPT ![p] = platter[p]] /\ platter' = platter
         \/ platter' = [platter EXCEPT ![p] = bufData[p]] /\ bufData' = bufData
      /\ used' = [used EXCEPT ![usedId] = i]
      /\ usedId' = (usedId + 1) % NUM
      /\ UNCHANGED <<desc, free, info, avail, availIdx, used_idx, busy, hdr, devIdx, dpc, nrw>>
  <2> HIDE DEF p
  <2> QED BY <1>3, <1>4 DEF DevComplete, driverVars
<1>6. DiskTypeOK'
  <2>1. /\ used \in [Index -> Index \cup {Nil}] /\ working \subseteq Index
        /\ bufData \in [DiskProc -> DiskWord] /\ platter \in [DiskProc -> DiskWord]
    BY DEF DiskInv, DiskTypeOK
  <2> HIDE DEF p
  <2>2. bufData' \in [DiskProc -> DiskWord] /\ platter' \in [DiskProc -> DiskWord]
    BY <1>4, <1>5, <2>1
  <2>3. used' \in [Index -> Index \cup {Nil}] /\ working' \subseteq Index BY <1>5, <2>1
  <2> QED BY <1>3, <1>5, <2>2, <2>3 DEF DiskInv, DiskTypeOK
<1>7. DriverInv'
  <2>1. DriverInv BY DEF DiskInv, DriverInv
  <2>2. InFlight' = InFlight BY <1>5 DEF InFlight
  <2> QED BY <1>5, <2>1, <2>2, DriverFrame
<1>8. \A j : Waits(j) => Waits(j)' BY <1>5 DEF Waits
<1>9. /\ Window(used_idx, (usedId + 1) % NUM) = Window(used_idx, usedId) \cup {usedId}
      /\ usedId \notin Window(used_idx, usedId)
  <2>1. Second(i) \in Index /\ i # Second(i) BY <1>2, HeadFacts
  <2>2. ASSUME NEW k \in Window(used_idx, usedId) PROVE used[k] \in Index \ {i, Second(i)}
    <3>1. PICK j \in Index : j = used[k] /\ info[j] # Nil /\ j # i BY <1>1, <1>2 DEF Waits
    <3>2. Second(i) \notin Three(j) BY <1>2, <3>1, HeadFacts DEF Three
    <3> QED BY <3>1, <3>2 DEF Three
  <2>3. (usedId - used_idx) % NUM < NUM - 1
    BY <1>1, <1>3, <2>1, <2>2, WindowNotFull, ZenonT(40)
  <2> QED BY <1>3, <2>3, WindowGrows, Zenon
<1>10. Window(used_idx, usedId)' = Window(used_idx, usedId) \cup {usedId}
  <2>1. Window(used_idx, usedId)' = Window(used_idx, (usedId + 1) % NUM) BY <1>5 DEF Window
  <2> QED BY <1>9, <2>1
<1>11. used'[usedId] = i /\ \A k \in Window(used_idx, usedId) : used'[k] = used[k]
  <2>1. used \in [Index -> Index \cup {Nil}] BY DEF DiskInv, DiskTypeOK
  <2>2. \A k \in Window(used_idx, usedId) : k \in Index BY DEF Window
  <2> QED BY <1>3, <1>5, <1>9, <2>1, <2>2
<1>12. Window(devIdx, availIdx)' = Window(devIdx, availIdx) BY <1>5 DEF Window
<1>13. ToFetch'
  <2>1. ASSUME NEW k \in Window(devIdx, availIdx) PROVE Waits(avail[k])'
    <3>1. PICK j : j = avail[k] /\ Waits(j) BY <1>1
    <3>2. Waits(j)' BY <1>8, <3>1
    <3> QED BY <1>5, <3>1, <3>2 DEF Waits
  <2> QED BY <1>1, <1>2, <1>5, <1>10, <1>11, <1>12, <2>1 DEF ToFetch
<1>14. Fetched' BY <1>1, <1>5, <1>8, Zenon DEF Fetched
<1>15. Completed'
  <2>1. ASSUME NEW k \in Window(used_idx, usedId)' PROVE Waits(used[k])' /\ used'[k] \notin working'
    <3>1. CASE k = usedId
      <4>1. Waits(i)' /\ used'[k] = i BY <1>2, <1>8, <1>11, <3>1
      <4> QED BY <1>5, <4>1 DEF Waits
    <3>2. CASE k \in Window(used_idx, usedId)
      <4>1. PICK j : j = used[k] /\ Waits(j) /\ j \notin working BY <1>1, <3>2
      <4>2. Waits(j)' /\ used'[k] = j BY <1>8, <1>11, <3>2, <4>1
      <4> QED BY <1>5, <4>1, <4>2 DEF Waits
    <3> QED BY <1>10, <2>1, <3>1, <3>2
  <2>2. ASSUME NEW k \in Window(used_idx, usedId)', NEW l \in Window(used_idx, usedId)',
               used'[k] = used'[l]
        PROVE  k = l
    <3>1. \A m \in Window(used_idx, usedId) : used'[m] # i BY <1>1, <1>2, <1>11
    <3> QED BY <1>1, <1>10, <1>11, <2>2, <3>1
  <2> QED BY <2>1, <2>2 DEF Completed
<1> QED BY <1>6, <1>7, <1>13, <1>14, <1>15, Zenon DEF DiskInv, DriverInv
-----------------------------------------------------------------------------
\* The initial states satisfy DiskInv.
LEMMA DiskInitInv ==
    ASSUME DiskInit
    PROVE  DiskInv
<1> USE IndexFacts
<1>1. DiskTypeOK
  <2>1. 0 \in Index /\ DiskStart \in Index BY DiskAssumption DEF Index
  <2>2. nrw \in [DiskProc -> 0..MaxRw] BY DiskAssumption DEF DiskInit
  <2>3. bufData \in [DiskProc -> DiskWord] /\ platter \in [DiskProc -> DiskWord]
    <3>1. (CHOOSE w \in DiskWord : TRUE) \in DiskWord BY DiskAssumption
    <3> QED BY <3>1, Zenon DEF DiskInit
  <2> QED BY <2>1, <2>2, <2>3 DEF DiskInit, DiskTypeOK, DiskPC
<1>2. Requests
  <2>1. 0 \in Index BY DEF Index
  <2> QED BY <2>1 DEF DiskInit, Requests
<1>3. Heads BY DEF DiskInit, Heads, InFlight
<1>4. ChainShape /\ ChainsApart /\ TakenInChain BY DEF DiskInit, ChainShape, ChainsApart, TakenInChain
<1>5. Window(devIdx, availIdx) = {} /\ Window(used_idx, usedId) = {}
  <2>1. DiskStart \in Index BY DiskAssumption DEF Index
  <2>2. \A a \in Index : Window(a, a) = {}
    <3>1. ASSUME NEW a \in Index PROVE Window(a, a) = {}
      <4>1. a - a = 0 * NUM + 0 /\ 0 \in Int /\ 0 \in 0..NUM - 1 /\ a - a \in Int
        BY DEF Index
      <4>2. (a - a) % NUM = 0 BY <4>1, ModUnique, Zenon
      <4>3. \A k \in Index : (k - a) % NUM \in 0..NUM - 1
        <5>1. \A k \in Index : k - a \in Int OBVIOUS
        <5> QED BY <5>1, ModRange
      <4>4. \A x \in 0..NUM - 1 : ~(x < 0) OBVIOUS
      <4> QED BY <4>2, <4>3, <4>4 DEF Window
    <3> QED BY <3>1
  <2>3. devIdx = availIdx /\ used_idx = usedId /\ devIdx \in Index /\ used_idx \in Index
    BY <2>1 DEF DiskInit
  <2> QED BY <2>2, <2>3, Zenon
<1>6. ToFetch /\ Fetched /\ Completed BY <1>5 DEF DiskInit, ToFetch, Fetched, Completed
<1> QED BY <1>1, <1>2, <1>3, <1>4, <1>6 DEF DiskInv

\* Every step keeps DiskInv.
LEMMA DiskNextInv ==
    ASSUME DiskInv, [DiskNext]_diskVars
    PROVE  DiskInv'
<1>1. ASSUME NEW p \in DiskProc, RwCall(p) PROVE DiskInv' BY <1>1, RwCallInv
<1>2. ASSUME NEW p \in DiskProc, Alloc3Fails(p) PROVE DiskInv' BY <1>2, Alloc3FailsInv
<1>3. ASSUME NEW p \in DiskProc, Submit(p) PROVE DiskInv'
  <2>1. PICK i0, i1, i2 \in Index : SubmitAs(p, i0, i1, i2) BY <1>3, SubmitChoice DEF DiskInv
  <2> QED BY <2>1, SubmitInv
<1>4. ASSUME NEW p \in DiskProc, RwReturn(p) PROVE DiskInv' BY <1>4, RwReturnInv
<1>5. ASSUME NEW p \in DiskProc, IoAgain(p) PROVE DiskInv' BY <1>5, IoAgainInv
<1>6. ASSUME NEW p \in DiskProc, KillWakes(p) PROVE DiskInv' BY <1>6, KillWakesInv
<1>7. CASE Intr BY <1>7, IntrInv
<1>8. CASE DevFetch BY <1>8, DevFetchInv
<1>9. ASSUME NEW i \in Index, DevComplete(i) PROVE DiskInv' BY <1>9, DevCompleteInv
<1>10. CASE UNCHANGED diskVars
  <2>1. DriverInv'
    <3>1. DriverInv BY DEF DiskInv, DriverInv
    <3>2. InFlight' = InFlight BY <1>10 DEF InFlight, diskVars
    <3> QED BY <1>10, <3>1, <3>2, DriverFrame DEF diskVars, driverVars
  <2>2. DiskTypeOK' BY <1>10 DEF DiskInv, DiskTypeOK, diskVars, driverVars, deviceVars
  <2>3. \A j : Waits(j)' <=> Waits(j) BY <1>10 DEF Waits, diskVars, driverVars, deviceVars
  <2>4. /\ Window(devIdx, availIdx)' = Window(devIdx, availIdx)
        /\ Window(used_idx, usedId)' = Window(used_idx, usedId)
    BY <1>10 DEF Window, diskVars, driverVars, deviceVars
  <2>5. ToFetch'
    BY <1>10, <2>4 DEF DiskInv, ToFetch, Waits, diskVars, driverVars, deviceVars
  <2>6. Fetched' BY <1>10 DEF DiskInv, Fetched, Waits, diskVars, driverVars, deviceVars
  <2>7. Completed' BY <1>10, <2>4 DEF DiskInv, Completed, Waits, diskVars, driverVars, deviceVars
  <2> QED BY <2>1, <2>2, <2>5, <2>6, <2>7, Zenon DEF DiskInv, DriverInv
<1> QED BY <1>1, <1>2, <1>3, <1>4, <1>5, <1>6, <1>7, <1>8, <1>9, <1>10, Zenon DEF DiskNext, Driver

\* The inductive invariant of the driver and the device.
THEOREM DiskInvariant == DiskSpec => []DiskInv
<1>1. DiskInit => DiskInv BY DiskInitInv
<1>2. DiskInv /\ [DiskNext]_diskVars => DiskInv' BY DiskNextInv
<1> QED BY <1>1, <1>2, PTL DEF DiskSpec

\* The fields of the driver and of the device keep their types.
THEOREM DiskTypeCorrect == DiskSpec => []DiskTypeOK
<1>1. DiskInv => DiskTypeOK BY DEF DiskInv
<1> QED BY <1>1, DiskInvariant, PTL

\* A chain of three different descriptors has three elements.
LEMMA ThreeDescriptors ==
    ASSUME NEW a, NEW b, NEW c, a # b, a # c, b # c
    PROVE  Cardinality({a, b, c}) = 3
<1>1. IsFiniteSet({c}) /\ Cardinality({c}) = 1 BY FS_Singleton
<1>2. IsFiniteSet({c} \cup {b}) /\ Cardinality({c} \cup {b}) = 1 + 1
  BY <1>1, FS_AddElement
<1>3. Cardinality(({c} \cup {b}) \cup {a}) = (1 + 1) + 1
  BY <1>2, FS_AddElement
<1>4. ({c} \cup {b}) \cup {a} = {a, b, c} OBVIOUS
<1> QED BY <1>3, <1>4

\* DiskInv says more than DriverSound.
LEMMA DriverSoundInv ==
    ASSUME DiskInv
    PROVE  DriverSound
<1>1. ASSUME NEW p \in InFlight
      PROVE  /\ HeadOf(p) \in Index /\ info[HeadOf(p)] = p /\ p # Nil
             /\ Chain(HeadOf(p)) = Three(HeadOf(p))
  BY ChainOf, IndexFacts DEF InFlight
<1>2. ASSUME NEW p \in InFlight PROVE Cardinality(Chain(HeadOf(p))) = 3
  <2>1. PICK h \in Index : h = HeadOf(p) /\ info[h] # Nil /\ Chain(h) = Three(h) BY <1>1
  <2>2. h # Second(h) /\ h # Third(h) /\ Second(h) # Third(h) BY <2>1, HeadFacts
  <2>3. Cardinality({h, Second(h), Third(h)}) = 3 BY <2>2, ThreeDescriptors
  <2> QED BY <2>1, <2>3 DEF Three
<1>3. ASSUME NEW p \in InFlight, NEW q \in InFlight, p # q
      PROVE  Chain(HeadOf(p)) \cap Chain(HeadOf(q)) = {}
  <2>1. HeadOf(p) # HeadOf(q) BY <1>1, <1>3
  <2> QED BY <1>1, <2>1 DEF DiskInv, ChainsApart
<1>4. \A m \in Index : ~free[m] => \E p \in InFlight : m \in Chain(HeadOf(p))
  <2>1. ASSUME NEW m \in Index, ~free[m] PROVE \E p \in InFlight : m \in Chain(HeadOf(p))
    <3>1. PICK i \in Index : info[i] # Nil /\ m \in Three(i)
      BY <2>1 DEF DiskInv, TakenInChain
    <3>2. info[i] \in InFlight BY <3>1 DEF DiskInv, Heads
    <3>3. HeadOf(info[i]) = i BY <3>2, ChainOf
    <3> QED BY <1>1, <3>1, <3>2, <3>3
  <2> QED BY <2>1
<1>5. \A p \in InFlight : \A m \in Chain(HeadOf(p)) : m \in Index /\ ~free[m]
  <2>1. ASSUME NEW p \in InFlight, NEW m \in Chain(HeadOf(p)) PROVE m \in Index /\ ~free[m]
    <3>1. PICK h \in Index : h = HeadOf(p) /\ info[h] # Nil /\ Chain(h) = Three(h) BY <1>1
    <3> QED BY <2>1, <3>1, HeadFacts DEF Three
  <2> QED BY <2>1
<1>6. {i \in Index : ~free[i]} = UNION {Chain(HeadOf(p)) : p \in InFlight}
  BY <1>4, <1>5
<1>7. DescriptorsAccounted
  <2>1. \A p \in InFlight : \E i \in Index : info[i] = p BY <1>1
  <2> QED BY <1>2, <1>3, <1>6, <2>1, Zenon DEF DescriptorsAccounted
<1>8. CompletionsFresh
  <2>1. Unseen = Window(used_idx, usedId) BY DEF Unseen, Window
  <2>2. \A k \in Unseen : Waits(used[k]) /\ used[k] \notin working
    BY <2>1 DEF DiskInv, Completed
  <2>3. \A i : Waits(i) => i \in Index /\ info[i] \in InFlight /\ busy[info[i]]
    BY DEF DiskInv, Heads, Waits
  <2>4. \A k, l \in Unseen : used[k] = used[l] => k = l BY <2>1 DEF DiskInv, Completed
  <2> QED BY <2>2, <2>3, <2>4, Zenon DEF CompletionsFresh
<1> QED BY <1>7, <1>8 DEF DriverSound

\* Every descriptor is free or in the chain of one request, and every completion that
\* the interrupt handler has still to see is of a request that waits for it.
THEOREM DiskDriverSound == DiskSpec => []DriverSound
<1>1. DiskInv => DriverSound BY DriverSoundInv
<1> QED BY <1>1, DiskInvariant, PTL
-----------------------------------------------------------------------------
\* What a process sees of its request, as the mapping to BlockDev has it.
Phases == [p \in DiskProc |-> DiskPhase(p)]

AnsweredOrSeen(p) ==
    \/ p \in InFlight /\ ~busy[p]
    \/ \E k \in Window(used_idx, usedId) : info[used[k]] = p

PerformedMeans == \A p \in DiskProc : Performed(p) <=> AnsweredOrSeen(p)

\* Performed() in terms of the window of the used ring.
LEMMA PerformedIf == DiskInv => PerformedMeans
<1> SUFFICES ASSUME DiskInv, NEW p \in DiskProc PROVE Performed(p) <=> AnsweredOrSeen(p)
  BY DEF PerformedMeans
<1>1. Unseen = Window(used_idx, usedId) BY DEF Unseen, Window
<1>2. \A k \in Unseen : used[k] # Nil
  <2>1. \A k \in Unseen : used[k] \in Index BY <1>1 DEF DiskInv, Completed, Waits
  <2> QED BY <2>1, IndexFacts
<1> QED BY <1>1, <1>2 DEF Performed, InFlight, AnsweredOrSeen

\* The same in the next state.
LEMMA PerformedIfNext == DiskInv' => PerformedMeans'
BY PerformedIf, PTL

\* A request that is performed is in progress.
LEMMA PerformedInFlight ==
    ASSUME DiskInv, NEW p \in DiskProc, Performed(p)
    PROVE  p \in InFlight
<1>1. \A k \in Window(used_idx, usedId) : info[used[k]] \in InFlight
  BY DEF DiskInv, Completed, Waits, Heads
<1> QED BY <1>1, PerformedIf DEF PerformedMeans, AnsweredOrSeen

\* A step that answers no request and shows none leaves BlockDev's variables alone.
LEMMA SamePhases ==
    ASSUME UNCHANGED <<hdr, platter, bufData>>,
           \A p \in DiskProc : dpc'[p] = "idle" <=> dpc[p] = "idle",
           \A p \in DiskProc : Performed(p)' <=> Performed(p)
    PROVE  UNCHANGED <<platter, bufData, Phases>>
<1>1. ASSUME NEW p \in DiskProc PROVE DiskPhase(p)' = DiskPhase(p) BY <1>1 DEF DiskPhase
<1>2. Phases' = Phases BY <1>1 DEF Phases
<1> QED BY <1>2

\* Submitting a request is invisible in BlockDev.
LEMMA SubmitStutters ==
    ASSUME DiskInv, DiskInv', NEW p \in DiskProc,
           NEW i0 \in Index, NEW i1 \in Index, NEW i2 \in Index, SubmitAs(p, i0, i1, i2)
    PROVE  UNCHANGED <<platter, bufData, Phases>>
<1>1. /\ info' = [info EXCEPT ![i0] = p] /\ dpc[p] = "alloc" /\ free[i0]
      /\ busy' = [busy EXCEPT ![p] = TRUE] /\ dpc' = [dpc EXCEPT ![p] = "iosleep"]
      /\ UNCHANGED <<used_idx, hdr, used, usedId, platter, bufData>>
  BY DEF SubmitAs, deviceVars
<1>2. /\ info \in [Index -> DiskProc \cup {Nil}] /\ busy \in [DiskProc -> BOOLEAN]
      /\ dpc \in [DiskProc -> DiskPC]
  BY DEF DiskInv, DiskTypeOK
<1>3. \A k \in Window(used_idx, usedId) : used[k] \in Index /\ used[k] # i0
  <2>1. \A i \in Index : info[i] # Nil => ~free[i] BY DEF DiskInv, ChainShape
  <2> QED BY <1>1, <2>1 DEF DiskInv, Completed, Waits
<1>4. Window(used_idx, usedId)' = Window(used_idx, usedId) BY <1>1 DEF Window
<1>5. \A k \in Window(used_idx, usedId) : info'[used'[k]] = info[used[k]] BY <1>1, <1>2, <1>3
<1>6. p \notin InFlight BY <1>1 DEF InFlight
<1>7. InFlight' = InFlight \cup {p} BY <1>1, <1>2 DEF InFlight
<1>8. \A q \in DiskProc : (q \in InFlight /\ ~busy[q])' <=> q \in InFlight /\ ~busy[q]
  BY <1>1, <1>2, <1>6, <1>7
<1>9. ASSUME NEW q \in DiskProc PROVE Performed(q)' <=> Performed(q)
  <2>1. AnsweredOrSeen(q)' <=> AnsweredOrSeen(q) BY <1>4, <1>5, <1>8 DEF AnsweredOrSeen
  <2> QED BY <2>1, PerformedIf, PerformedIfNext DEF PerformedMeans
<1>10. \A q \in DiskProc : dpc'[q] = "idle" <=> dpc[q] = "idle" BY <1>1, <1>2
<1> QED BY <1>1, <1>9, <1>10, SamePhases

\* So is the interrupt: the transfer was done when the device completed it.
LEMMA IntrStutters ==
    ASSUME DiskInv, DiskInv', Intr
    PROVE  UNCHANGED <<platter, bufData, Phases>>
<1> DEFINE b == info[used[used_idx]]
<1>1. used_idx \in Index /\ usedId \in Index /\ used_idx # usedId
  <2>1. used_idx \in Index /\ usedId \in Index BY DEF DiskInv, DiskTypeOK
  <2> QED BY <2>1, IndexFacts DEF Intr
<1>2. /\ used_idx \in Window(used_idx, usedId)
      /\ Window((used_idx + 1) % NUM, usedId) = Window(used_idx, usedId) \ {used_idx}
  BY <1>1, WindowShrinks, Zenon
<1>3. b \in InFlight BY <1>2 DEF DiskInv, Completed, Waits, Heads
<1>4. /\ busy' = [busy EXCEPT ![b] = FALSE]
      /\ dpc' = [dpc EXCEPT ![b] = IF @ = "iosleep" THEN "io" ELSE @]
      /\ used_idx' = (used_idx + 1) % NUM /\ used' = [used EXCEPT ![used_idx] = Nil]
      /\ UNCHANGED <<info, hdr, usedId, platter, bufData>>
  BY DEF Intr
<1>5. /\ busy \in [DiskProc -> BOOLEAN] /\ dpc \in [DiskProc -> DiskPC]
      /\ used \in [Index -> Index \cup {Nil}]
  BY DEF DiskInv, DiskTypeOK
<1>6. Window(used_idx, usedId)' = Window(used_idx, usedId) \ {used_idx}
  <2>1. Window(used_idx, usedId)' = Window((used_idx + 1) % NUM, usedId) BY <1>4 DEF Window
  <2> QED BY <1>2, <2>1
<1>7. \A k \in Window(used_idx, usedId) \ {used_idx} : used'[k] = used[k]
  BY <1>4, <1>5 DEF Window
<1>8. info[used[used_idx]] = b OBVIOUS
<1> HIDE DEF b
<1>9. InFlight' = InFlight /\ b \in DiskProc BY <1>3, <1>4, <1>5 DEF InFlight
<1>10. ASSUME NEW q \in DiskProc PROVE Performed(q)' <=> Performed(q)
  <2>1. CASE q = b
    <3>1. AnsweredOrSeen(q) BY <1>2, <1>8, <2>1 DEF AnsweredOrSeen
    <3>2. AnsweredOrSeen(q)' BY <1>3, <1>4, <1>5, <1>9, <2>1 DEF AnsweredOrSeen
    <3> QED BY <3>1, <3>2, PerformedIf, PerformedIfNext DEF PerformedMeans
  <2>2. CASE q # b
    <3>1. (q \in InFlight /\ ~busy[q])' <=> q \in InFlight /\ ~busy[q] BY <1>4, <1>5, <1>9, <2>2
    <3>2. (\E k \in Window(used_idx, usedId) : info[used[k]] = q)'
             <=> \E k \in Window(used_idx, usedId) : info[used[k]] = q
      BY <1>4, <1>6, <1>7, <1>8, <2>2
    <3>3. AnsweredOrSeen(q)' <=> AnsweredOrSeen(q) BY <3>1, <3>2 DEF AnsweredOrSeen
    <3> QED BY <3>3, PerformedIf, PerformedIfNext DEF PerformedMeans
  <2> QED BY <2>1, <2>2
<1>11. \A q \in DiskProc : dpc'[q] = "idle" <=> dpc[q] = "idle"
  BY <1>3, <1>4, <1>5 DEF InFlight
<1> QED BY <1>4, <1>10, <1>11, SamePhases

\* Steps that neither submit, complete nor return.
LEMMA Stutters ==
    ASSUME DiskInv, DiskInv', InFlight' = InFlight,
           UNCHANGED <<info, used, used_idx, usedId, busy, hdr, platter, bufData>>,
           \A p \in DiskProc : dpc'[p] = "idle" <=> dpc[p] = "idle"
    PROVE  UNCHANGED <<platter, bufData, Phases>>
<1>1. Window(used_idx, usedId)' = Window(used_idx, usedId) BY DEF Window
<1>2. ASSUME NEW q \in DiskProc PROVE Performed(q)' <=> Performed(q)
  <2>1. AnsweredOrSeen(q)' <=> AnsweredOrSeen(q) BY <1>1 DEF AnsweredOrSeen
  <2> QED BY <2>1, PerformedIf, PerformedIfNext DEF PerformedMeans
<1> QED BY <1>2, SamePhases

\* Calling virtio_disk_rw() is BlockDevCall.
LEMMA RwCallMaps ==
    ASSUME DiskInv, DiskInv', NEW p \in DiskProc, RwCall(p)
    PROVE  \E op \in {"read", "write"}, w \in DiskWord : BD!BlockDevCall(p, op, w)
<1>1. /\ dpc[p] = "idle" /\ dpc' = [dpc EXCEPT ![p] = "alloc"]
      /\ UNCHANGED <<info, used, used_idx, usedId, busy, platter>>
  BY DEF RwCall, deviceVars
<1>2. /\ dpc \in [DiskProc -> DiskPC] /\ DOMAIN hdr = DiskProc
      /\ bufData \in [DiskProc -> DiskWord]
  BY DEF DiskInv, DiskTypeOK, Requests
<1>3. PICK op \in {"read", "write"}, w \in DiskWord :
          hdr' = [hdr EXCEPT ![p] = [type |-> op, sector |-> p]] /\ bufData' = [bufData EXCEPT ![p] = w]
  <2>1. bufData = [bufData EXCEPT ![p] = bufData[p]] /\ bufData[p] \in DiskWord BY <1>2
  <2> QED BY <2>1 DEF RwCall
<1>4. p \notin InFlight /\ p \notin InFlight' BY <1>1, <1>2 DEF InFlight
<1>5. ~Performed(p) /\ ~Performed(p)'
  <2>1. ~Performed(p) BY <1>4, PerformedInFlight
  <2>2. \A q \in DiskProc : Performed(q) => q \in InFlight BY PerformedInFlight
  <2>3. InFlight' = InFlight BY <1>1, <1>2 DEF InFlight
  <2>4. Window(used_idx, usedId)' = Window(used_idx, usedId) BY <1>1 DEF Window
  <2>5. AnsweredOrSeen(p)' <=> AnsweredOrSeen(p) BY <1>1, <2>3, <2>4 DEF AnsweredOrSeen
  <2> QED BY <2>1, <2>5, PerformedIf, PerformedIfNext DEF PerformedMeans
<1>6. DiskPhase(p) = "none" /\ DiskPhase(p)' = op BY <1>1, <1>2, <1>3, <1>5 DEF DiskPhase
<1>7. ASSUME NEW q \in DiskProc, q # p PROVE DiskPhase(q)' = DiskPhase(q)
  <2>1. dpc'[q] = dpc[q] /\ hdr'[q] = hdr[q] BY <1>1, <1>2, <1>3, <1>7
  <2>2. Performed(q)' <=> Performed(q)
    <3>1. Window(used_idx, usedId)' = Window(used_idx, usedId) BY <1>1 DEF Window
    <3>2. q \in InFlight' <=> q \in InFlight BY <2>1 DEF InFlight
    <3>3. AnsweredOrSeen(q)' <=> AnsweredOrSeen(q) BY <1>1, <3>1, <3>2 DEF AnsweredOrSeen
    <3> QED BY <3>3, PerformedIf, PerformedIfNext DEF PerformedMeans
  <2> QED BY <2>1, <2>2 DEF DiskPhase
<1>8. Phases' = [Phases EXCEPT ![p] = op] BY <1>6, <1>7 DEF Phases
<1>9. Phases[p] = "none" BY <1>6 DEF Phases
<1>10. BD!BlockDevCall(p, op, w) BY <1>1, <1>3, <1>8, <1>9 DEF BD!BlockDevCall, Phases
<1> QED BY <1>10, Zenon

\* Its return is BlockDevReturn.
LEMMA RwReturnMaps ==
    ASSUME DiskInv, DiskInv', NEW p \in DiskProc, RwReturn(p)
    PROVE  BD!BlockDevReturn(p)
<1> DEFINE h == HeadOf(p)
<1>1. /\ dpc[p] = "io" /\ ~busy[p] /\ info' = [info EXCEPT ![h] = Nil]
      /\ dpc' = [[q \in DiskProc |-> IF dpc[q] = "allocsleep" THEN "alloc" ELSE dpc[q]]
                      EXCEPT ![p] = "idle"]
      /\ hdr' = [hdr EXCEPT ![p] = NoRequest]
      /\ UNCHANGED <<used, used_idx, usedId, busy, platter, bufData>>
  BY DEF RwReturn, deviceVars, FreeWaiters
<1>2. /\ dpc \in [DiskProc -> DiskPC] /\ DOMAIN hdr = DiskProc
      /\ info \in [Index -> DiskProc \cup {Nil}]
  BY DEF DiskInv, DiskTypeOK, Requests
<1>3. p \in InFlight BY <1>1 DEF InFlight
<1>4. h \in Index /\ info[h] = p BY <1>3, ChainOf
<1> HIDE DEF h
<1>5. DiskPhase(p) = "performed" /\ DiskPhase(p)' = "none"
  BY <1>1, <1>2 DEF DiskPhase, Performed
<1>6. \A k \in Window(used_idx, usedId) : used[k] \in Index /\ used[k] # h
  BY <1>1, <1>4 DEF DiskInv, Completed, Waits
<1>7. Window(used_idx, usedId)' = Window(used_idx, usedId) BY <1>1 DEF Window
<1>8. \A k \in Window(used_idx, usedId) : info'[used'[k]] = info[used[k]]
  BY <1>1, <1>2, <1>6
<1>9. ASSUME NEW q \in DiskProc, q # p PROVE DiskPhase(q)' = DiskPhase(q)
  <2>1. /\ hdr'[q] = hdr[q] /\ (dpc'[q] = "idle" <=> dpc[q] = "idle")
        /\ (q \in InFlight' <=> q \in InFlight)
    BY <1>1, <1>2, <1>9 DEF InFlight
  <2>2. AnsweredOrSeen(q)' <=> AnsweredOrSeen(q) BY <1>1, <1>7, <1>8, <2>1 DEF AnsweredOrSeen
  <2>3. Performed(q)' <=> Performed(q)
    BY <2>2, PerformedIf, PerformedIfNext DEF PerformedMeans
  <2> QED BY <2>1, <2>3 DEF DiskPhase
<1>10. Phases' = [Phases EXCEPT ![p] = "none"] BY <1>5, <1>9 DEF Phases
<1>11. Phases[p] = "performed" BY <1>5 DEF Phases
<1> QED BY <1>1, <1>10, <1>11 DEF BD!BlockDevReturn, Phases

\* The device's completion of a request is BlockDevPerform.
LEMMA DevCompleteMaps ==
    ASSUME DiskInv, DiskInv', NEW i \in Index, DevComplete(i)
    PROVE  \E p \in DiskProc : BD!BlockDevPerform(p)
<1>1. i \in working /\ info[i] # Nil /\ busy[info[i]] BY DEF DevComplete, DiskInv, Fetched, Waits
<1>2. usedId \in Index /\ used_idx \in Index /\ usedId % NUM = usedId
  <2>1. usedId \in Index /\ used_idx \in Index BY DEF DiskInv, DiskTypeOK
  <2> QED BY <2>1, IndexFacts
<1>3. PICK p \in DiskProc :
      /\ info[i] = p
      /\ desc[i].addr[2] = p /\ desc[desc[i].next].addr[2] = p
      /\ hdr[p].type \in {"read", "write"} /\ hdr[p].sector = p
  BY <1>1, Found, Zenon
<1>4. dpc[p] \in {"io", "iosleep"} /\ \A j \in Index : info[j] = p => j = i
  BY <1>1, <1>3, HeadFacts
<1>5. info[i] = p BY <1>3
<1>6. /\ used' = [used EXCEPT ![usedId] = i] /\ usedId' = (usedId + 1) % NUM
      /\ UNCHANGED <<info, used_idx, busy, hdr, dpc>>
      /\ \/ /\ hdr[p].type = "read"
            /\ bufData' = [bufData EXCEPT ![p] = platter[p]] /\ UNCHANGED platter
         \/ /\ hdr[p].type = "write"
            /\ platter' = [platter EXCEPT ![p] = bufData[p]] /\ UNCHANGED bufData
  BY <1>2, <1>3 DEF DevComplete, driverVars
<1>7. /\ Window(used_idx, usedId)' = Window(used_idx, usedId) \cup {usedId}
      /\ usedId \notin Window(used_idx, usedId)
  <2>1. \A k \in Window(used_idx, usedId) : used[k] \in Index \ {i, Second(i)}
    <3>1. ASSUME NEW k \in Window(used_idx, usedId) PROVE used[k] \in Index \ {i, Second(i)}
      <4>1. PICK j \in Index : j = used[k] /\ info[j] # Nil /\ j # i
        BY <1>1 DEF DiskInv, Completed, Waits
      <4>2. Second(i) \notin Three(j) BY <1>1, <4>1, HeadFacts DEF Three
      <4> QED BY <4>1, <4>2 DEF Three
    <3> QED BY <3>1
  <2>2. Second(i) \in Index /\ i # Second(i) BY <1>1, HeadFacts
  <2>3. \A k, l \in Window(used_idx, usedId) : used[k] = used[l] => k = l BY DEF DiskInv, Completed
  <2>4. (usedId - used_idx) % NUM < NUM - 1 BY <1>2, <2>1, <2>2, <2>3, WindowNotFull, Zenon
  <2>5. /\ Window(used_idx, (usedId + 1) % NUM) = Window(used_idx, usedId) \cup {usedId}
        /\ usedId \notin Window(used_idx, usedId)
    BY <1>2, <2>4, WindowGrows, Zenon
  <2>6. Window(used_idx, usedId)' = Window(used_idx, (usedId + 1) % NUM) BY <1>6 DEF Window
  <2> QED BY <2>5, <2>6
<1>8. used'[usedId] = i /\ \A k \in Window(used_idx, usedId) : used'[k] = used[k] /\ used[k] # i
  <2>1. used \in [Index -> Index \cup {Nil}] BY DEF DiskInv, DiskTypeOK
  <2>2. \A k \in Window(used_idx, usedId) : k \in Index BY DEF Window
  <2>3. \A k \in Window(used_idx, usedId) : used[k] # i BY <1>1 DEF DiskInv, Completed
  <2> QED BY <1>2, <1>6, <1>7, <2>1, <2>2, <2>3
<1>9. ~Performed(p)
  <2>1. \A k \in Window(used_idx, usedId) : info[used[k]] # p
    BY <1>4, <1>8 DEF DiskInv, Completed, Waits
  <2>2. busy[p] BY <1>1, <1>3
  <2>3. ~AnsweredOrSeen(p) BY <2>1, <2>2 DEF AnsweredOrSeen
  <2> QED BY <1>3, <2>3, PerformedIf DEF PerformedMeans
<1>10. Performed(p)'
  <2>1. AnsweredOrSeen(p)' BY <1>5, <1>6, <1>7, <1>8 DEF AnsweredOrSeen
  <2> QED BY <1>3, <2>1, PerformedIfNext DEF PerformedMeans
<1>11. DiskPhase(p) = hdr[p].type /\ DiskPhase(p)' = "performed"
  BY <1>4, <1>6, <1>9, <1>10 DEF DiskPhase
<1>12. ASSUME NEW q \in DiskProc, q # p PROVE DiskPhase(q)' = DiskPhase(q)
  <2>1. (q \in InFlight /\ ~busy[q])' <=> q \in InFlight /\ ~busy[q] BY <1>6 DEF InFlight
  <2>2. AnsweredOrSeen(q)' <=> AnsweredOrSeen(q)
    BY <1>5, <1>6, <1>7, <1>8, <1>12, <2>1 DEF AnsweredOrSeen
  <2>3. Performed(q)' <=> Performed(q)
    BY <2>2, PerformedIf, PerformedIfNext DEF PerformedMeans
  <2> QED BY <1>6, <2>3 DEF DiskPhase
<1>13. Phases' = [Phases EXCEPT ![p] = "performed"] BY <1>11, <1>12 DEF Phases
<1>14. Phases[p] = hdr[p].type BY <1>3, <1>11 DEF Phases
<1>15. BD!BlockDevPerform(p) BY <1>6, <1>13, <1>14 DEF BD!BlockDevPerform, Phases
<1> QED BY <1>3, <1>15, Zenon

\* The initial states map to initial states.
LEMMA DiskInitMaps ==
    ASSUME DiskInit
    PROVE  BD!BlockDevInit
<1>1. DiskInv BY DiskInitInv
<1>2. Phases = [p \in DiskProc |-> "none"] BY DEF DiskInit, Phases, DiskPhase
<1> QED BY <1>1, <1>2 DEF BD!BlockDevInit, Phases, DiskInv, DiskTypeOK

\* Every step maps to a step or a stutter.
LEMMA DiskStepMaps ==
    ASSUME DiskInv, DiskInv', [DiskNext]_diskVars
    PROVE  [BD!BlockDevNext]_(BD!blockDevVars)
<1>0. UNCHANGED <<platter, bufData, Phases>> => UNCHANGED BD!blockDevVars
  BY DEF BD!blockDevVars, Phases
<1>1. ASSUME NEW p \in DiskProc, RwCall(p) PROVE BD!BlockDevNext
  BY <1>1, RwCallMaps, Zenon DEF BD!BlockDevNext
<1>2. ASSUME NEW p \in DiskProc, Alloc3Fails(p) PROVE UNCHANGED BD!blockDevVars
  <2>1. /\ dpc[p] = "alloc"
        /\ \/ dpc' = [dpc EXCEPT ![p] = "allocsleep"]
           \/ dpc' = [FreeWaiters(dpc) EXCEPT ![p] = "allocsleep"]
        /\ UNCHANGED <<info, used, used_idx, usedId, busy, hdr, platter, bufData>>
    BY <1>2 DEF Alloc3Fails, deviceVars
  <2>2. dpc \in [DiskProc -> DiskPC] BY DEF DiskInv, DiskTypeOK
  <2>3. InFlight' = InFlight BY <2>1, <2>2 DEF InFlight, FreeWaiters
  <2>4. \A q \in DiskProc : dpc'[q] = "idle" <=> dpc[q] = "idle"
    BY <2>1, <2>2 DEF FreeWaiters
  <2> QED BY <1>0, <2>1, <2>3, <2>4, Stutters
<1>3. ASSUME NEW p \in DiskProc, Submit(p) PROVE UNCHANGED BD!blockDevVars
  <2>1. PICK i0, i1, i2 \in Index : SubmitAs(p, i0, i1, i2) BY <1>3, SubmitChoice DEF DiskInv
  <2> QED BY <1>0, <2>1, SubmitStutters
<1>4. ASSUME NEW p \in DiskProc, RwReturn(p) PROVE BD!BlockDevNext
  BY <1>4, RwReturnMaps, Zenon DEF BD!BlockDevNext
<1>5. ASSUME NEW p \in DiskProc, IoAgain(p) \/ KillWakes(p) PROVE UNCHANGED BD!blockDevVars
  <2>1. /\ \/ dpc[p] = "io" /\ dpc' = [dpc EXCEPT ![p] = "iosleep"]
           \/ dpc[p] = "allocsleep" /\ dpc' = [dpc EXCEPT ![p] = "alloc"]
           \/ dpc[p] = "iosleep" /\ dpc' = [dpc EXCEPT ![p] = "io"]
        /\ UNCHANGED <<info, used, used_idx, usedId, busy, hdr, platter, bufData>>
    BY <1>5 DEF IoAgain, KillWakes, deviceVars, driverVars
  <2>2. dpc \in [DiskProc -> DiskPC] BY DEF DiskInv, DiskTypeOK
  <2>3. InFlight' = InFlight BY <2>1, <2>2 DEF InFlight
  <2>4. \A q \in DiskProc : dpc'[q] = "idle" <=> dpc[q] = "idle" BY <2>1, <2>2
  <2> QED BY <1>0, <2>1, <2>3, <2>4, Stutters
<1>6. CASE Intr BY <1>0, <1>6, IntrStutters
<1>7. CASE DevFetch
  <2>1. UNCHANGED <<dpc, info, used, used_idx, usedId, busy, hdr, platter, bufData>>
    BY <1>7 DEF DevFetch
  <2>2. InFlight' = InFlight BY <2>1 DEF InFlight
  <2> QED BY <1>0, <2>1, <2>2, Stutters
<1>8. ASSUME NEW i \in Index, DevComplete(i) PROVE BD!BlockDevNext
  BY <1>8, DevCompleteMaps, Zenon DEF BD!BlockDevNext
<1>9. CASE UNCHANGED diskVars
  <2>1. UNCHANGED <<dpc, info, used, used_idx, usedId, busy, hdr, platter, bufData>>
    BY <1>9 DEF diskVars, driverVars, deviceVars
  <2>2. InFlight' = InFlight BY <2>1 DEF InFlight
  <2> QED BY <1>0, <2>1, <2>2, Stutters
<1> QED BY <1>1, <1>2, <1>3, <1>4, <1>5, <1>6, <1>7, <1>8, <1>9, Zenon DEF DiskNext, Driver

\* The driver and the device together implement BlockDev: each call transfers its own
\* block and buffer exactly once, before it returns.
THEOREM DiskImplementsBlockDev == DiskSpec => ImplementsBlockDev
<1>1. DiskInit => BD!BlockDevInit BY DiskInitMaps
<1>2. DiskInv /\ DiskInv' /\ [DiskNext]_diskVars => [BD!BlockDevNext]_(BD!blockDevVars)
  BY DiskStepMaps
<1> QED BY <1>1, <1>2, DiskInvariant, PTL DEF DiskSpec, ImplementsBlockDev, BD!BlockDevSpec

-----------------------------------------------------------------------------
(* Pipes and the disk driver, each on its own.                             *)

\* Pipes and the disk driver, of which the first state picks one, each behave as
\* their specifications say.
THEOREM DevicesSuite == SuiteSpec => PipeSpec /\ DiskSpec
<1>1. SuiteInit => PipeInit /\ DiskInit
  BY DEF SuiteInit
<1>2. [SuiteNext]_suiteVars => [PipeNext]_pipeSysVars /\ [DiskNext]_diskVars
  BY DEF SuiteNext, suiteVars
<1> QED BY <1>1, <1>2, PTL DEF SuiteSpec, PipeSpec, DiskSpec

\* The counters of a pipe and the rings of the driver keep their types.
THEOREM DevicesTypeCorrect == SuiteSpec => []DevicesTypeOK
<1>1. PipeTypeOK /\ DiskTypeOK => DevicesTypeOK
  BY DEF DevicesTypeOK
<1> QED BY <1>1, DevicesSuite, PipeTypeCorrect, DiskTypeCorrect, PTL
=============================================================================
