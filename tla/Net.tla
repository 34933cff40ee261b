-------------------------------- MODULE Net --------------------------------
(***************************************************************************)
(* The network of xv7: the socket table and its system calls (sysnet.c),   *)
(* the delivery of received frames (net.c) and the rings of the E1000      *)
(* driver (e1000.c).  Sockets and mbufs are pages of kalloc().  A step is  *)
(* what one lock covers; the interrupt handler is one more thread, since   *)
(* the PLIC gives the interrupt to one hart at a time.  A use of a freed   *)
(* socket finds the junk of kfree() and ends the behaviour: its lock word  *)
(* never becomes free, its next pointer is no address.                     *)
(***************************************************************************)
EXTENDS Integers, Sequences, FiniteSets, SequencesExt, FiniteSetsExt, Ordering

CONSTANTS
    NetProc,            \* processes
    Conn,               \* (raddr, lport, rport) triples
    NPage,              \* pages kalloc() has for sockets and mbufs
    RX_RING_SIZE, TX_RING_SIZE,
    MaxFrames,          \* BOUND: frames that arrive
    MaxNetCalls         \* BOUND: connects and writes

ASSUME NetAssumption ==
    /\ NPage \in Nat /\ RX_RING_SIZE \in 2..NPage /\ TX_RING_SIZE \in Nat \ {0}
    /\ MaxFrames \in Nat /\ MaxNetCalls \in Nat

NPages == 1..NPage
RxSlot == 0..RX_RING_SIZE - 1
TxSlot == 0..TX_RING_SIZE - 1
Junk == -1              \* a pointer field kalloc() has filled with fives
NoRxFrame == [seq |-> 0, to |-> "none"]

VARIABLES
    npage,              \* page -> "free", "sock", "mbuf" or "leaked"
    sock, sockets,      \* page -> struct sock; head of the list, 0 for null
    nfd,                \* process -> the socket it has open, 0 for none
    npc,                \* process -> "idle", "alloc", "close", "free", "read" or "sleep"
    rxMbuf, rxFrame,    \* rx_mbufs, and the frames of the descriptors with DD
    rdh, rdt, icr,      \* device registers; icr: the interrupt cause
    intr,               \* the handler: its step, the mbuf and frame it has, so
    txMbuf, txDone, tdh, tdt,
    nframe, ncall,      \* frames arrived, calls made
    got, due,           \* history: frames read; accepted while a socket is open
    dangled,            \* history: a socket was freed and left on the list
    halted

netVars == <<npage, sock, sockets, nfd, npc, rxMbuf, rxFrame, rdh, rdt, icr, intr,
             txMbuf, txDone, tdh, tdt, nframe, ncall, got, due, dangled, halted>>
tableVars == <<sock, sockets, nfd>>
rxVars == <<rxMbuf, rxFrame, rdh, rdt, icr>>
txVars == <<txMbuf, txDone, tdh, tdt>>

Quiet == [st |-> "off", m |-> 0, f |-> NoRxFrame, so |-> 0]
NoSock == [conn |-> "none", next |-> 0, rxq |-> <<>>]

\* e1000_init(): every receive descriptor has an mbuf, every transmit
\* descriptor has DD.
NetInit ==
    /\ npage = [q \in NPages |-> IF q <= RX_RING_SIZE THEN "mbuf" ELSE "free"]
    /\ sock = [q \in NPages |-> NoSock] /\ sockets = 0
    /\ nfd = [p \in NetProc |-> 0] /\ npc = [p \in NetProc |-> "idle"]
    /\ rxMbuf = [i \in RxSlot |-> i + 1] /\ rxFrame = [i \in RxSlot |-> NoRxFrame]
    /\ rdh = 0 /\ rdt = RX_RING_SIZE - 1 /\ icr = FALSE
    /\ intr = Quiet
    /\ txMbuf = [i \in TxSlot |-> 0] /\ txDone = [i \in TxSlot |-> TRUE]
    /\ tdh = 0 /\ tdt = 0
    /\ nframe = 0 /\ ncall = 0
    /\ got = [c \in Conn |-> <<>>] /\ due = [c \in Conn |-> {}]
    /\ dangled = FALSE /\ halted = FALSE

FreePages(pg) == {q \in NPages : pg[q] = "free"}
Kalloc(pg) == Min(FreePages(pg))

\* The sockets from s on, in list order; the walk stops at a freed one.
ListFrom(s) ==
    LET next(q) == IF q \in NPages /\ npage[q] = "sock" THEN sock[q].next ELSE 0
        walk[k \in 1..NPage] == IF k = 1 THEN s ELSE next(walk[k - 1])
        seen == Ordered({k \in 1..NPage : walk[k] # 0})
    IN  [k \in DOMAIN seen |-> walk[seen[k]]]

\* What a walk for c from s comes to: a socket, 0, or Junk when it meets a freed one.
Lookup(s, c) ==
    LET l == ListFrom(s)
        real == {k \in DOMAIN l : l[k] \in NPages /\ npage[l[k]] = "sock"}
        hit == {k \in real : sock[l[k]].conn = c}
        bad == DOMAIN l \ real
    IN  IF hit # {} /\ (bad = {} \/ Min(hit) < Min(bad)) THEN l[Min(hit)]
        ELSE IF bad # {} THEN Junk ELSE 0

Halt == halted' = TRUE /\ UNCHANGED <<npage, sock, sockets, nfd, npc, rxVars, intr, txVars,
                                      nframe, ncall, got, due, dangled>>

-----------------------------------------------------------------------------
(* System calls.                                                           *)

\* sockalloc() up to the lock of the table: the socket is not on the list yet.
SockAlloc(p, c) ==
    /\ npc[p] = "idle" /\ nfd[p] = 0 /\ ncall < MaxNetCalls
    /\ FreePages(npage) # {}
    /\ LET si == Kalloc(npage) IN
       /\ npage' = [npage EXCEPT ![si] = "sock"]
       /\ sock' = [sock EXCEPT ![si] = [conn |-> c, next |-> Junk, rxq |-> <<>>]]
       /\ nfd' = [nfd EXCEPT ![p] = si]
    /\ npc' = [npc EXCEPT ![p] = "alloc"]
    /\ ncall' = ncall + 1
    /\ UNCHANGED <<sockets, rxVars, intr, txVars, nframe, got, due, dangled, halted>>

\* Mutant: the new socket becomes the whole list.
SockInsertAlone(p) ==
    /\ npc[p] = "alloc" /\ Lookup(sockets, sock[nfd[p]].conn) = 0
    /\ sock' = [sock EXCEPT ![nfd[p]].next = 0]
    /\ sockets' = nfd[p]
    /\ npc' = [npc EXCEPT ![p] = "idle"]
    /\ UNCHANGED <<npage, nfd, rxVars, intr, txVars, nframe, ncall, got, due, dangled, halted>>

SockInsert(p) ==
    /\ npc[p] = "alloc" /\ Lookup(sockets, sock[nfd[p]].conn) = 0
    /\ sock' = [sock EXCEPT ![nfd[p]].next = sockets]
    /\ sockets' = nfd[p]
    /\ npc' = [npc EXCEPT ![p] = "idle"]
    /\ UNCHANGED <<npage, nfd, rxVars, intr, txVars, nframe, ncall, got, due, dangled, halted>>

\* The triple is taken: the code frees si, then fileclose() has sockclose() take
\* the lock of the freed socket.  Or the walk itself meets a freed socket.
SockInsertFails(p) ==
    /\ npc[p] = "alloc" /\ Lookup(sockets, sock[nfd[p]].conn) # 0
    /\ Halt

\* fork() or dup(): a second process has the same file.
SockShare(p, q) ==
    /\ npc[p] = "idle" /\ nfd[p] # 0 /\ npc[q] = "idle" /\ nfd[q] = 0
    /\ nfd' = [nfd EXCEPT ![q] = nfd[p]]
    /\ UNCHANGED <<npage, sock, sockets, npc, rxVars, intr, txVars, nframe, ncall, got, due, dangled, halted>>

\* fileclose(): only the last reference goes on to sockclose(), whose wakeup()
\* finds no one.
SockClose(p) ==
    /\ npc[p] = "idle" /\ nfd[p] # 0
    /\ IF \E q \in NetProc \ {p} : nfd[q] = nfd[p]
       THEN nfd' = [nfd EXCEPT ![p] = 0] /\ UNCHANGED npc
       ELSE npc' = [npc EXCEPT ![p] = "close"] /\ UNCHANGED nfd
    /\ UNCHANGED <<npage, sock, sockets, rxVars, intr, txVars, nframe, ncall, got, due, dangled, halted>>

\* The table after the loop of sockclose(): a list of one is emptied, and a
\* socket that has a predecessor is taken out; the first of several stays.
Unlinked(so) ==
    LET l == ListFrom(sockets)
        before == {k \in 1..Len(l) - 1 : l[k + 1] = so}
    IN  [head |-> IF sock[sockets].next = 0 THEN 0 ELSE sockets,
         socks |-> IF before = {} THEN sock
                   ELSE [sock EXCEPT ![l[Min(before)]].next = sock[so].next]]

SockUnlink(p) ==
    /\ npc[p] = "close" /\ Lookup(sockets, sock[nfd[p]].conn) > 0
    /\ sockets' = Unlinked(nfd[p]).head
    /\ sock' = Unlinked(nfd[p]).socks
    /\ npc' = [npc EXCEPT ![p] = "free"]
    /\ due' = [due EXCEPT ![sock[nfd[p]].conn] = {}]
    /\ UNCHANGED <<npage, nfd, rxVars, intr, txVars, nframe, ncall, got, dangled, halted>>

SockUnlinkFails(p) ==
    /\ npc[p] = "close" /\ Lookup(sockets, sock[nfd[p]].conn) <= 0
    /\ Halt

\* kfree(so): the mbufs still queued on it are lost.
SockFree(p) ==
    /\ npc[p] = "free"
    /\ LET so == nfd[p]
           queued == {sock[so].rxq[k].m : k \in DOMAIN sock[so].rxq} IN
       /\ npage' = [q \in NPages |-> IF q = so THEN "free"
                                     ELSE IF q \in queued THEN "leaked" ELSE npage[q]]
       /\ sock' = [sock EXCEPT ![so] = NoSock]
    /\ dangled' = (dangled \/ nfd[p] \in ToSet(ListFrom(sockets)))
    /\ nfd' = [nfd EXCEPT ![p] = 0]
    /\ npc' = [npc EXCEPT ![p] = "idle"]
    /\ UNCHANGED <<sockets, rxVars, intr, txVars, nframe, ncall, got, due, halted>>

SockReadCall(p) ==
    /\ npc[p] = "idle" /\ nfd[p] # 0
    /\ npc' = [npc EXCEPT ![p] = "read"]
    /\ UNCHANGED <<npage, sock, sockets, nfd, rxVars, intr, txVars, nframe, ncall, got, due, dangled, halted>>

SockReadSleeps(p) ==
    /\ npc[p] = "read" /\ sock[nfd[p]].rxq = <<>>
    /\ npc' = [npc EXCEPT ![p] = "sleep"]
    /\ UNCHANGED <<npage, sock, sockets, nfd, rxVars, intr, txVars, nframe, ncall, got, due, dangled, halted>>

\* Mutant: the mbuf that has been read is not freed.
ReadFreesNot(pg, m) == pg

ReadFrees(pg, m) == [pg EXCEPT ![m] = "free"]

\* A packet is taken, whether or not copyout() then fails.
SockReadTakes(p) ==
    /\ npc[p] = "read" /\ sock[nfd[p]].rxq # <<>>
    /\ LET so == nfd[p]
           b == Head(sock[so].rxq) IN
       /\ sock' = [sock EXCEPT ![so].rxq = Tail(@)]
       /\ npage' = ReadFrees(npage, b.m)
       /\ got' = [got EXCEPT ![sock[so].conn] = Append(@, b.f.seq)]
    /\ npc' = [npc EXCEPT ![p] = "idle"]
    /\ UNCHANGED <<sockets, nfd, rxVars, intr, txVars, nframe, ncall, due, dangled, halted>>

-----------------------------------------------------------------------------
(* Transmission.                                                           *)

\* e1000_transmit(m) and the mbuffree() of net_tx_eth(), on pages pg: the driver
\* tests DD and never clears it.
Transmit(pg, m) ==
    IF ~txDone[tdt]
    THEN npage' = [pg EXCEPT ![m] = "free"] /\ UNCHANGED txVars
    ELSE /\ npage' = [q \in NPages |-> IF q = txMbuf[tdt] THEN "free" ELSE pg[q]]
         /\ txMbuf' = [txMbuf EXCEPT ![tdt] = m]
         /\ tdt' = (tdt + 1) % TX_RING_SIZE
         /\ UNCHANGED <<txDone, tdh>>

\* sockwrite(): mbufalloc() is not tested, so without a page it takes a null
\* pointer, as with more than MBUF_SIZE bytes mbufput() panics.
SockWrite(p) ==
    /\ npc[p] = "idle" /\ nfd[p] # 0 /\ ncall < MaxNetCalls
    /\ FreePages(npage) # {}
    /\ LET m == Kalloc(npage) IN Transmit([npage EXCEPT ![m] = "mbuf"], m)
    /\ ncall' = ncall + 1
    /\ UNCHANGED <<tableVars, npc, rxVars, intr, nframe, got, due, dangled, halted>>

SockWriteFails(p) ==
    /\ npc[p] = "idle" /\ nfd[p] # 0 /\ ncall < MaxNetCalls
    /\ FreePages(npage) = {}
    /\ Halt

\* The device sends the frame at its head and sets DD.
DeviceSends ==
    /\ tdh # tdt
    /\ txDone' = [txDone EXCEPT ![tdh] = TRUE]
    /\ tdh' = (tdh + 1) % TX_RING_SIZE
    /\ UNCHANGED <<npage, tableVars, npc, rxVars, intr, txMbuf, tdt, nframe, ncall, got, due, dangled, halted>>

-----------------------------------------------------------------------------
(* Reception.                                                              *)

\* The socket of connection c, from its place on the list to its unlinking.
OpenOn(c) ==
    {nfd[p] : p \in {x \in NetProc : nfd[x] # 0 /\ npc[x] \notin {"alloc", "free"}
                                     /\ sock[nfd[x]].conn = c}}

\* The device puts a frame in the ring, when it owns a descriptor, and raises its
\* interrupt.
DeviceReceives(to) ==
    /\ nframe < MaxFrames /\ rdh # rdt
    /\ nframe' = nframe + 1
    /\ rxFrame' = [rxFrame EXCEPT ![rdh] = [seq |-> nframe + 1, to |-> to]]
    /\ rdh' = (rdh + 1) % RX_RING_SIZE
    /\ icr' = TRUE
    /\ due' = IF to \in Conn /\ OpenOn(to) # {}
              THEN [due EXCEPT ![to] = @ \union {nframe + 1}] ELSE due
    /\ UNCHANGED <<npage, tableVars, npc, rxMbuf, rdt, intr, txVars, ncall, got, dangled, halted>>

IntrEnter ==
    /\ intr.st = "off" /\ icr
    /\ intr' = [Quiet EXCEPT !.st = "recv"]
    /\ UNCHANGED <<npage, tableVars, npc, rxVars, txVars, nframe, ncall, got, due, dangled, halted>>

RxPos == (rdt + 1) % RX_RING_SIZE

\* One turn of the loop of e1000_recv(), with a fresh mbuf for the descriptor.
RecvTake ==
    /\ intr.st = "recv" /\ rxFrame[RxPos].seq # 0 /\ FreePages(npage) # {}
    /\ LET m == Kalloc(npage) IN
       /\ npage' = [npage EXCEPT ![m] = "mbuf"]
       /\ rxMbuf' = [rxMbuf EXCEPT ![RxPos] = m]
    /\ rxFrame' = [rxFrame EXCEPT ![RxPos] = NoRxFrame]
    /\ rdt' = RxPos
    /\ intr' = [st |-> "rx", m |-> rxMbuf[RxPos], f |-> rxFrame[RxPos], so |-> 0]
    /\ UNCHANGED <<tableVars, npc, rdh, icr, txVars, nframe, ncall, got, due, dangled, halted>>

RecvPanics ==
    /\ intr.st = "recv" /\ rxFrame[RxPos].seq # 0 /\ FreePages(npage) = {}
    /\ Halt

RecvNone ==
    /\ intr.st = "recv" /\ rxFrame[RxPos].seq = 0
    /\ intr' = [Quiet EXCEPT !.st = "ack"]
    /\ UNCHANGED <<npage, tableVars, npc, rxVars, txVars, nframe, ncall, got, due, dangled, halted>>

\* e1000_intr() reads ICR, which clears every cause.
IntrAck ==
    /\ intr.st = "ack"
    /\ icr' = FALSE
    /\ intr' = Quiet
    /\ UNCHANGED <<npage, tableVars, npc, rxMbuf, rxFrame, rdh, rdt, txVars, nframe, ncall, got, due, dangled, halted>>

Back == intr' = [Quiet EXCEPT !.st = "recv"]

\* net_rx() drops what is malformed or not for this host.
RxDrop ==
    /\ intr.st = "rx" /\ intr.f.to = "bad"
    /\ npage' = [npage EXCEPT ![intr.m] = "free"]
    /\ Back
    /\ UNCHANGED <<tableVars, npc, rxVars, txVars, nframe, ncall, got, due, dangled, halted>>

\* net_rx_arp() answers, when it gets an mbuf for the answer.
RxArp ==
    /\ intr.st = "rx" /\ intr.f.to = "arp"
    /\ IF FreePages(npage) = {}
       THEN npage' = [npage EXCEPT ![intr.m] = "free"] /\ UNCHANGED txVars
       ELSE LET m == Kalloc(npage) IN
            Transmit([npage EXCEPT ![m] = "mbuf", ![intr.m] = "free"], m)
    /\ Back
    /\ UNCHANGED <<tableVars, npc, rxVars, nframe, ncall, got, due, dangled, halted>>

\* net_rx_ip(), net_rx_udp() and sockrecvudp() up to its lock: the head of the
\* list is read before the lock is held.
RxUdp ==
    /\ intr.st = "rx" /\ intr.f.to \in Conn
    /\ intr' = [intr EXCEPT !.st = "find", !.so = sockets]
    /\ UNCHANGED <<npage, tableVars, npc, rxVars, txVars, nframe, ncall, got, due, dangled, halted>>

RecvFinds ==
    /\ intr.st = "find" /\ Lookup(intr.so, intr.f.to) > 0
    /\ intr' = [intr EXCEPT !.st = "push", !.so = Lookup(intr.so, intr.f.to)]
    /\ UNCHANGED <<npage, tableVars, npc, rxVars, txVars, nframe, ncall, got, due, dangled, halted>>

RecvNoSock ==
    /\ intr.st = "find" /\ Lookup(intr.so, intr.f.to) = 0
    /\ npage' = [npage EXCEPT ![intr.m] = "free"]
    /\ Back
    /\ UNCHANGED <<tableVars, npc, rxVars, txVars, nframe, ncall, got, due, dangled, halted>>

\* The walk meets a freed socket, or the socket found is freed before its lock
\* is taken.
RecvFreedSock ==
    /\ \/ intr.st = "find" /\ Lookup(intr.so, intr.f.to) = Junk
       \/ intr.st = "push" /\ npage[intr.so] # "sock"
    /\ Halt

\* mbufq_pushtail()
Pushed(q, b) == Append(q, b)

RecvPush ==
    /\ intr.st = "push" /\ npage[intr.so] = "sock"
    /\ sock' = [sock EXCEPT ![intr.so].rxq = Pushed(@, [m |-> intr.m, f |-> intr.f])]
    /\ intr' = [Quiet EXCEPT !.st = "wake", !.so = intr.so]
    /\ UNCHANGED <<npage, sockets, nfd, npc, rxVars, txVars, nframe, ncall, got, due, dangled, halted>>

\* Mutant: no process is woken.
RecvWokenNone(so) == npc

RecvWoken(so) == [p \in NetProc |-> IF npc[p] = "sleep" /\ nfd[p] = so THEN "read" ELSE npc[p]]

RecvWake ==
    /\ intr.st = "wake"
    /\ npc' = RecvWoken(intr.so)
    /\ Back
    /\ UNCHANGED <<npage, tableVars, rxVars, txVars, nframe, ncall, got, due, dangled, halted>>

UserStep(p) ==
    \/ \E c \in Conn : SockAlloc(p, c)
    \/ \E q \in NetProc : SockShare(p, q)
    \/ SockClose(p) \/ SockReadCall(p) \/ SockWrite(p) \/ SockWriteFails(p)

KernelStep(p) ==
    \/ SockInsert(p) \/ SockInsertFails(p) \/ SockUnlink(p) \/ SockUnlinkFails(p)
    \/ SockFree(p) \/ SockReadSleeps(p) \/ SockReadTakes(p)

IntrStep ==
    \/ IntrEnter \/ RecvTake \/ RecvPanics \/ RecvNone \/ IntrAck \/ RxDrop \/ RxArp \/ RxUdp
    \/ RecvFinds \/ RecvNoSock \/ RecvFreedSock \/ RecvPush \/ RecvWake

NetNext ==
    /\ ~halted
    /\ \/ \E p \in NetProc : UserStep(p) \/ KernelStep(p)
       \/ IntrStep \/ DeviceSends
       \/ \E to \in Conn \union {"arp", "bad"} : DeviceReceives(to)

NetSpec == NetInit /\ [][NetNext]_netVars

-----------------------------------------------------------------------------
\* Pages, rings and processes have the values the code allows, and the socket of
\* an open file is allocated, however many processes share it.
NetTypeOK ==
    /\ npage \in [NPages -> {"free", "sock", "mbuf", "leaked"}]
    /\ nfd \in [NetProc -> NPages \union {0}]
    /\ npc \in [NetProc -> {"idle", "alloc", "close", "free", "read", "sleep"}]
    /\ rxMbuf \in [RxSlot -> NPages] /\ txMbuf \in [TxSlot -> NPages \union {0}]
    /\ {rdh, rdt} \subseteq RxSlot /\ {tdh, tdt} \subseteq TxSlot
    /\ \A p \in NetProc : nfd[p] # 0 => npage[nfd[p]] = "sock"

\* The places that hold page q as an mbuf.
Holders(q) ==
    Cardinality({i \in RxSlot : rxMbuf[i] = q}) + Cardinality({i \in TxSlot : txMbuf[i] = q})
    + (IF intr.m = q THEN 1 ELSE 0)
    + Cardinality(UNION {{<<s, k>> : k \in {i \in DOMAIN sock[s].rxq : sock[s].rxq[i].m = q}} : s \in NPages})

\* Every mbuf in use is in one place, a ring, a queue or the handler's hands, and
\* no place has a page that is not an mbuf: none is freed twice or lost, but for
\* those sockclose() leaves on a queue.
MbufOwnedOnce == \A q \in NPages : Holders(q) = (IF npage[q] = "mbuf" THEN 1 ELSE 0)

Seqs(q) == [k \in DOMAIN q |-> q[k].f.seq]
QueueOf(c) == IF OpenOn(c) = {} THEN <<>> ELSE Seqs(sock[CHOOSE s \in OpenOn(c) : TRUE].rxq)

\* The packets of a connection are read, and queued, in the order of their
\* arrival, and none twice.
PacketsInOrder ==
    \A c \in Conn : LET s == got[c] \o QueueOf(c) IN
        \A i, j \in DOMAIN s : i < j => s[i] < s[j]

InRing == {rxFrame[i].seq : i \in RxSlot}
InHand == IF intr.m # 0 THEN {intr.f.seq} ELSE {}

\* What the device accepted for a connection that was open is read, queued, in
\* the ring or in the handler's hands until the socket is closed, as long as no
\* freed socket is on the list.
PacketsKept ==
    ~dangled => \A c \in Conn : due[c] \subseteq ToSet(got[c] \o QueueOf(c)) \union InRing \union InHand

\* UDP frames that were accepted reach their socket, in order and once each
\* (e1000_recv, sockrecvudp, sockread).
PacketsDelivered == PacketsInOrder /\ PacketsKept

\* A process that sleeps in sockread() while a packet is queued is about to be
\* woken.
NoSleepOnPacket ==
    \A p \in NetProc : npc[p] = "sleep" /\ sock[nfd[p]].rxq # <<>> =>
        intr.st = "wake" /\ intr.so = nfd[p]
=============================================================================
