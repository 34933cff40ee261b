-------------------------------- MODULE Uart --------------------------------
(***************************************************************************)
(* The transmit side of xv6/kernel/uart.c: processes put characters in a   *)
(* ring under uart_tx_lock, and uartstart(), called by them and by the     *)
(* interrupt handler, hands one to the device whenever it is idle.         *)
(* uartputc_sync() writes to the device without the lock.                  *)
(***************************************************************************)
EXTENDS Integers, Sequences

CONSTANTS
    Writer,             \* processes in write() to the console
    UART_TX_BUF_SIZE,   \* size of the ring
    MaxPut,             \* BOUND: characters each process writes
    MaxSync             \* BOUND: characters echoed or printed by the kernel

Sync == "sync"          \* who writes with uartputc_sync()

ASSUME UartAssumption ==
    /\ UART_TX_BUF_SIZE \in Nat \ {0} /\ MaxPut \in Nat /\ MaxSync \in Nat
    /\ Sync \notin Writer

VARIABLES
    uart_tx_buf, uart_tx_w, uart_tx_r,
    wpc,                \* "idle", "put" (about to test the ring) or "sleep"
    nput, nsync,        \* characters written so far
    syncSaw,            \* uartputc_sync() is past its loop
    thr,                \* the device's FIFO; the device is idle when it is empty
    txIntr,             \* the device has raised its interrupt
    sent                \* history: what has gone out on the line

uartVars == <<uart_tx_buf, uart_tx_w, uart_tx_r, wpc, nput, nsync, syncSaw, thr, txIntr, sent>>

UartInit ==
    /\ uart_tx_buf = [i \in 0..UART_TX_BUF_SIZE - 1 |-> <<>>]
    /\ uart_tx_w = 0 /\ uart_tx_r = 0
    /\ wpc = [p \in Writer |-> "idle"] /\ nput = [p \in Writer |-> 0]
    /\ nsync = 0 /\ syncSaw = FALSE
    /\ thr = <<>> /\ txIntr = FALSE
    /\ sent = <<>>

\* wakeup(&uart_tx_r), when a character has left the ring.
Woken(pcs, moved) ==
    [p \in Writer |-> IF moved /\ pcs[p] = "sleep" THEN "put" ELSE pcs[p]]

\* uartstart() on ring b with write index w: at most one character goes, since
\* the device is busy once it has one.
uartstart(b, w, pcs) ==
    LET send == w # uart_tx_r /\ thr = <<>> IN
    /\ uart_tx_buf' = b /\ uart_tx_w' = w
    /\ uart_tx_r' = IF send THEN uart_tx_r + 1 ELSE uart_tx_r
    /\ thr' = IF send THEN <<b[uart_tx_r % UART_TX_BUF_SIZE]>> ELSE thr
    /\ wpc' = Woken(pcs, send)

PutCall(p) ==
    /\ wpc[p] = "idle" /\ nput[p] < MaxPut
    /\ wpc' = [wpc EXCEPT ![p] = "put"]
    /\ nput' = [nput EXCEPT ![p] = @ + 1]
    /\ UNCHANGED <<uart_tx_buf, uart_tx_w, uart_tx_r, nsync, syncSaw, thr, txIntr, sent>>

\* The ring takes no more.
TxFull == uart_tx_w = uart_tx_r + UART_TX_BUF_SIZE

PutSleeps(p) ==
    /\ wpc[p] = "put" /\ TxFull
    /\ wpc' = [wpc EXCEPT ![p] = "sleep"]
    /\ UNCHANGED <<uart_tx_buf, uart_tx_w, uart_tx_r, nput, nsync, syncSaw, thr, txIntr, sent>>

\* Mutant: uartputc() does not call uartstart().
uartputcOnly(p) ==
    /\ wpc[p] = "put" /\ ~TxFull
    /\ uart_tx_buf' = [uart_tx_buf EXCEPT ![uart_tx_w % UART_TX_BUF_SIZE] = <<p, nput[p]>>]
    /\ uart_tx_w' = uart_tx_w + 1
    /\ wpc' = [wpc EXCEPT ![p] = "idle"]
    /\ UNCHANGED <<uart_tx_r, thr, nput, nsync, syncSaw, txIntr, sent>>

uartputc(p) ==
    /\ wpc[p] = "put" /\ ~TxFull
    /\ uartstart([uart_tx_buf EXCEPT ![uart_tx_w % UART_TX_BUF_SIZE] = <<p, nput[p]>>],
                 uart_tx_w + 1, [wpc EXCEPT ![p] = "idle"])
    /\ UNCHANGED <<nput, nsync, syncSaw, txIntr, sent>>

\* uartputc_sync() sees the device idle, and writes; uartstart() may write in
\* between, and the device's FIFO takes both.
SyncSees ==
    /\ nsync < MaxSync /\ ~syncSaw /\ thr = <<>>
    /\ syncSaw' = TRUE
    /\ UNCHANGED <<uart_tx_buf, uart_tx_w, uart_tx_r, wpc, nput, nsync, thr, txIntr, sent>>

SyncWrites ==
    /\ syncSaw
    /\ syncSaw' = FALSE
    /\ nsync' = nsync + 1
    /\ thr' = Append(thr, <<Sync, nsync + 1>>)
    /\ UNCHANGED <<uart_tx_buf, uart_tx_w, uart_tx_r, wpc, nput, txIntr, sent>>

\* The device sends a character, and interrupts when its FIFO is empty.
UartSends ==
    /\ thr # <<>>
    /\ sent' = Append(sent, Head(thr))
    /\ thr' = Tail(thr)
    /\ txIntr' = (txIntr \/ Len(thr) = 1)
    /\ UNCHANGED <<uart_tx_buf, uart_tx_w, uart_tx_r, wpc, nput, nsync, syncSaw>>

\* uartintr(), after the input (Console).
uartintr ==
    /\ txIntr
    /\ txIntr' = FALSE
    /\ uartstart(uart_tx_buf, uart_tx_w, wpc)
    /\ UNCHANGED <<nput, nsync, syncSaw, sent>>

UartNext ==
    \/ \E p \in Writer : PutCall(p) \/ PutSleeps(p) \/ uartputc(p)
    \/ SyncSees \/ SyncWrites \/ UartSends \/ uartintr

UartSpec == UartInit /\ [][UartNext]_uartVars

-----------------------------------------------------------------------------
\* The indices never move further apart than the ring is long.
UartTypeOK ==
    /\ uart_tx_r <= uart_tx_w /\ uart_tx_w <= uart_tx_r + UART_TX_BUF_SIZE
    /\ wpc \in [Writer -> {"idle", "put", "sleep"}]
    /\ txIntr \in BOOLEAN

\* What has been handed over is gone, with the device, or in the ring.
Pending == [k \in 1..uart_tx_w - uart_tx_r |-> uart_tx_buf[(uart_tx_r + k - 1) % UART_TX_BUF_SIZE]]
Handed(p) == IF wpc[p] = "idle" THEN nput[p] ELSE nput[p] - 1

\* Output out has the first n characters of p, once each and in order.
HasInOrder(out, p, n) ==
    /\ \A k \in 1..n : \E i \in 1..Len(out) : out[i] = <<p, k>>
    /\ \A i \in 1..Len(out) : out[i][1] = p => out[i][2] \in 1..n
    /\ \A i, j \in 1..Len(out) :
          i < j /\ out[i][1] = p /\ out[j][1] = p => out[i][2] < out[j][2]

\* The characters of each process leave once each and in the order it wrote
\* them, with kernel output in between or not.
OutputInOrder == \A p \in Writer : HasInOrder(sent \o thr \o Pending, p, Handed(p))

\* While characters wait in the ring, the device is busy or its interrupt is
\* on its way: nothing is left behind for want of an interrupt.
RingServed == uart_tx_w # uart_tx_r => thr # <<>> \/ txIntr

\* A process that sleeps sleeps on a full ring.
SleepOnFull == \A p \in Writer : wpc[p] = "sleep" => TxFull

\* Output leaves in order and keeps leaving, and whoever sleeps has a reason to,
\* although uartputc_sync() takes the register without the lock.
SerialOutput == OutputInOrder /\ RingServed /\ SleepOnFull
=============================================================================
