------------------------------ MODULE Console ------------------------------
(***************************************************************************)
(* Console input in xv7/kernel/console.c: the interrupt handler edits the  *)
(* line being typed at the end of a ring, and read() takes what has been   *)
(* completed from its start.                                               *)
(*                                                                         *)
(* cons.lock is held by both sides between two sleeps, so each turn of     *)
(* consoleread()'s loop and each character that uartintr() hands to        *)
(* consoleintr() is one step.  Echo goes to the serial port and leaves no  *)
(* state behind.                                                           *)
(***************************************************************************)
EXTENDS Integers, Sequences

CONSTANTS
    Reader,         \* processes that read the console
    INPUT_BUF,      \* size of the ring
    UintRange,      \* the indices are unsigned: they wrap at this value
    ConsStart,      \* the characters that came and went before the model starts
    ReadSizes,      \* the arguments n of read()
    MaxTyped        \* BOUND: characters typed

ASSUME ConsoleAssumption ==
    /\ INPUT_BUF \in Nat \ {0}
    /\ UintRange \in Nat /\ UintRange % INPUT_BUF = 0 /\ UintRange > 2 * INPUT_BUF
    /\ ConsStart \in 0..UintRange - 1
    /\ ReadSizes \subseteq Nat \ {0} /\ MaxTyped \in Nat

\* A letter, newline, end-of-file (^D), kill line (^U), erase (^H or DEL), ^P.
Typed == {"x", "nl", "eof", "kill", "erase", "ps"}

VARIABLES
    cbuf,               \* cons.buf
    cr, cw, ce,         \* cons.r, cons.w and cons.e
    rpc,                \* where a reader is: "idle", "read", "sleep" or "killed"
    rneed, rtarget,     \* n and target in consoleread()
    rresult,            \* history: what the last read() returned
    typed,              \* characters typed so far
    committed,          \* history: the characters of completed lines
    consumed            \* history: the characters readers have taken

consVars == <<cbuf, cr, cw, ce, rpc, rneed, rtarget, rresult, typed, committed, consumed>>

Plus(i, k) == (i + k) % UintRange
Minus(i, k) == (i - k + UintRange) % UintRange
At(i) == cbuf[i % INPUT_BUF]

ConsInit ==
    /\ cbuf = [i \in 0..INPUT_BUF - 1 |-> "x"]
    /\ cr = ConsStart /\ cw = ConsStart /\ ce = ConsStart
    /\ rpc = [p \in Reader |-> "idle"]
    /\ rneed = [p \in Reader |-> 0] /\ rtarget = [p \in Reader |-> 0]
    /\ rresult = [p \in Reader |-> 0]
    /\ typed = 0
    /\ committed = <<>> /\ consumed = <<>>

\* The characters of the ring from index i up to index j.
Between(i, j) == [k \in 1..Minus(j, i) |-> At(Plus(i, k - 1))]

-----------------------------------------------------------------------------
(* consoleintr(c)                                                           *)

\* Mutant: consoleintr() forgets wakeup(&cons.r).
WakeNoReader == UNCHANGED rpc

WakeReaders == rpc' = [p \in Reader |-> IF rpc[p] = "sleep" THEN "read" ELSE rpc[p]]

\* Mutant: erase goes back to what has been read, not to what is complete.
EditableAll == Between(cr, ce)

\* The part of the line that can still be edited.
Editable == Between(cw, ce)

\* ^U goes back to the last newline; a completed line is out of its reach.
KillLine ==
    LET n == Len(Editable)
        keep == {k \in 0..n : (k = 0 \/ Editable[k] = "nl") /\ \A j \in k + 1..n : Editable[j] # "nl"}
    IN  ce' = Minus(ce, n - (CHOOSE k \in keep : TRUE))

Erase == ce' = IF Editable = <<>> THEN ce ELSE Minus(ce, 1)

\* A line is complete at its end, and also when the ring is full.
Completes(c, e) == c \in {"nl", "eof"} \/ e = Plus(cr, INPUT_BUF)

\* The ring takes no more.
ConsFull == Minus(ce, cr) >= INPUT_BUF

\* Any other character: dropped if the ring is full, else appended.
Append1(c) ==
    IF ConsFull
    THEN UNCHANGED <<cbuf, cw, ce, rpc, committed>>
    ELSE /\ cbuf' = [cbuf EXCEPT ![ce % INPUT_BUF] = c]
         /\ ce' = Plus(ce, 1)
         /\ IF Completes(c, Plus(ce, 1))
            THEN /\ cw' = Plus(ce, 1)
                 /\ WakeReaders
                 /\ committed' = committed \o Between(cw, ce) \o <<c>>
            ELSE UNCHANGED <<cw, rpc, committed>>

consoleintr(c) ==
    /\ typed < MaxTyped
    /\ typed' = typed + 1
    /\ CASE c = "ps"    -> UNCHANGED <<cbuf, cw, ce, rpc, committed>>
         [] c = "kill"  -> KillLine /\ UNCHANGED <<cbuf, cw, rpc, committed>>
         [] c = "erase" -> Erase /\ UNCHANGED <<cbuf, cw, rpc, committed>>
         [] OTHER       -> Append1(c)
    /\ UNCHANGED <<cr, rneed, rtarget, rresult, consumed>>

-----------------------------------------------------------------------------
(* consoleread()                                                            *)

ConsReadCall(p, n) ==
    /\ rpc[p] = "idle"
    /\ rpc' = [rpc EXCEPT ![p] = "read"]
    /\ rneed' = [rneed EXCEPT ![p] = n]
    /\ rtarget' = [rtarget EXCEPT ![p] = n]
    /\ rresult' = [rresult EXCEPT ![p] = 0]
    /\ UNCHANGED <<cbuf, cr, cw, ce, typed, committed, consumed>>

ReadReturns(p, result) ==
    /\ rpc' = [rpc EXCEPT ![p] = "idle"]
    /\ rresult' = [rresult EXCEPT ![p] = result]
    /\ rneed' = [rneed EXCEPT ![p] = 0] /\ rtarget' = [rtarget EXCEPT ![p] = 0]

\* Nothing to read: sleep on &cons.r, or give up when killed.
ReadSleeps(p) ==
    /\ rpc[p] = "read" /\ cr = cw
    /\ rpc' = [rpc EXCEPT ![p] = "sleep"]
    /\ UNCHANGED <<cbuf, cr, cw, ce, rneed, rtarget, rresult, typed, committed, consumed>>

ReadKilled(p) ==
    /\ rpc[p] = "killed"
    /\ cr = cw
    /\ ReadReturns(p, -1)
    /\ UNCHANGED <<cbuf, cr, cw, ce, typed, committed, consumed>>

\* kill() makes the sleeper run; it tests killed only while there is no input.
KillReader(p) ==
    /\ rpc[p] = "sleep"
    /\ rpc' = [rpc EXCEPT ![p] = "killed"]
    /\ UNCHANGED <<cbuf, cr, cw, ce, rneed, rtarget, rresult, typed, committed, consumed>>

\* Mutant: ^D is taken with the line before it.
EofSavedNever(p) == FALSE

\* ^D after other characters is left for the next read().
EofSaved(p) == At(cr) = "eof" /\ rneed[p] < rtarget[p]

\* consoleread() stops at the end of a line or of the buffer.
LastTurn(ch, left) == ch = "nl" \/ left = 0

\* One character, then the next turn or the end of the call.
ReadOne(p) ==
    /\ rpc[p] \in {"read", "killed"} /\ cr # cw
    /\ LET c == At(cr)
           left == rneed[p] - 1
       IN  IF EofSaved(p)
           THEN ReadReturns(p, rtarget[p] - rneed[p]) /\ UNCHANGED <<cr, consumed>>
           ELSE /\ cr' = Plus(cr, 1)
                /\ consumed' = Append(consumed, c)
                /\ IF c = "eof" THEN ReadReturns(p, rtarget[p] - rneed[p])
                   ELSE IF LastTurn(c, left) THEN ReadReturns(p, rtarget[p] - left)
                   ELSE rneed' = [rneed EXCEPT ![p] = left] /\ UNCHANGED <<rpc, rtarget, rresult>>
    /\ UNCHANGED <<cbuf, cw, ce, typed, committed>>

\* either_copyout() fails: the character has been taken all the same.
ReadCopyoutFails(p) ==
    /\ rpc[p] \in {"read", "killed"} /\ cr # cw /\ At(cr) # "eof"
    /\ cr' = Plus(cr, 1)
    /\ consumed' = Append(consumed, At(cr))
    /\ ReadReturns(p, rtarget[p] - rneed[p])
    /\ UNCHANGED <<cbuf, cw, ce, typed, committed>>

ReadStep(p) == ReadSleeps(p) \/ ReadKilled(p) \/ ReadOne(p)

ConsNext ==
    \/ \E c \in Typed : consoleintr(c)
    \/ \E p \in Reader :
        \/ \E n \in ReadSizes : ConsReadCall(p, n)
        \/ ReadStep(p) \/ KillReader(p) \/ ReadCopyoutFails(p)

ConsSpec == ConsInit /\ [][ConsNext]_consVars

-----------------------------------------------------------------------------
\* The indices and the state of each reader.
ConsTypeOK ==
    /\ cbuf \in [0..INPUT_BUF - 1 -> Typed]
    /\ cr \in 0..UintRange - 1 /\ cw \in 0..UintRange - 1 /\ ce \in 0..UintRange - 1
    /\ rpc \in [Reader -> {"idle", "read", "sleep", "killed"}]
    /\ \A p \in Reader : rneed[p] \in 0..rtarget[p] /\ rresult[p] \in Int

\* r, w and e keep their order modulo the width of the indices, and never more
\* than the ring holds lies between them.
RingOrdered ==
    /\ Minus(cw, cr) <= Minus(ce, cr)
    /\ Minus(ce, cr) <= INPUT_BUF

\* Readers together get the completed lines, each character once and in order,
\* whatever is typed, erased or killed after a line was completed.
LinesIntact == committed = consumed \o Between(cr, cw)

\* No reader sleeps while there is input for it (consoleintr's wakeup).
NoSleepOnInput == \A p \in Reader : rpc[p] = "sleep" => cr = cw

\* The keyboard never locks up: a ring that takes no more characters has
\* something for a reader, which makes room.
FullRingReadable == Minus(ce, cr) = INPUT_BUF => cr # cw

\* The three wrapping indices delimit what was typed, nothing is lost or doubled,
\* and the keyboard cannot lock up (consoleintr against consoleread).
InputRing == RingOrdered /\ LinesIntact /\ FullRingReadable

\* "Save ^D for next time, to make sure caller gets a 0-byte result": a call
\* that takes an end-of-file returns 0.
EofGetsZero ==
    [][\A p \in Reader :
        rpc[p] # "idle" /\ rpc'[p] = "idle" /\ Len(consumed') > Len(consumed)
            /\ consumed'[Len(consumed')] = "eof" => rresult'[p] = 0]_consVars
=============================================================================
