---------------------------- MODULE BoundedFifo ----------------------------
(***************************************************************************)
(* What a pipe promises: bytes come out in the order they went in, none is *)
(* lost, repeated or invented, at most Capacity are in transit, none goes  *)
(* in once the write end is closed and none comes out once the read end is *)
(* closed.                                                                 *)
(***************************************************************************)
EXTENDS Naturals, Sequences

CONSTANTS Byte, Capacity

VARIABLES q, readopen, writeopen

vars == <<q, readopen, writeopen>>

Init == q = <<>> /\ readopen = TRUE /\ writeopen = TRUE

Put(b) ==
    /\ writeopen
    /\ Len(q) < Capacity
    /\ q' = Append(q, b)
    /\ UNCHANGED <<readopen, writeopen>>

Get ==
    /\ readopen
    /\ q # <<>>
    /\ q' = Tail(q)
    /\ UNCHANGED <<readopen, writeopen>>

CloseRead  == readopen /\ readopen' = FALSE /\ UNCHANGED <<q, writeopen>>

CloseWrite == writeopen /\ writeopen' = FALSE /\ UNCHANGED <<q, readopen>>

Next == (\E b \in Byte : Put(b)) \/ Get \/ CloseRead \/ CloseWrite

Spec == Init /\ [][Next]_vars
=============================================================================
