------------------------------ MODULE BlockDev ------------------------------
(***************************************************************************)
(* What the disk driver promises the buffer cache: a process hands in one  *)
(* read or write of its buffer's block, the transfer happens at one        *)
(* instant before the call returns, and transfers of different calls       *)
(* happen in any order.                                                    *)
(***************************************************************************)
CONSTANTS Caller, Word

VARIABLES
    store,      \* the block of each caller's buffer, as it is on the disk
    image,      \* the buffer's contents in memory
    phase       \* of the caller's request

blockDevVars == <<store, image, phase>>

BlockDevInit ==
    /\ store \in [Caller -> Word]
    /\ image \in [Caller -> Word]
    /\ phase = [p \in Caller |-> "none"]

\* A buffer is changed only while no transfer of it is under way.
BlockDevCall(p, op, w) ==
    /\ phase[p] = "none"
    /\ image' = [image EXCEPT ![p] = w]
    /\ phase' = [phase EXCEPT ![p] = op]
    /\ UNCHANGED store

BlockDevPerform(p) ==
    /\ \/ /\ phase[p] = "read"
          /\ image' = [image EXCEPT ![p] = store[p]]
          /\ UNCHANGED store
       \/ /\ phase[p] = "write"
          /\ store' = [store EXCEPT ![p] = image[p]]
          /\ UNCHANGED image
    /\ phase' = [phase EXCEPT ![p] = "performed"]

BlockDevReturn(p) ==
    /\ phase[p] = "performed"
    /\ phase' = [phase EXCEPT ![p] = "none"]
    /\ UNCHANGED <<store, image>>

BlockDevNext ==
    \E p \in Caller :
        \/ \E op \in {"read", "write"}, w \in Word : BlockDevCall(p, op, w)
        \/ BlockDevPerform(p)
        \/ BlockDevReturn(p)

BlockDevSpec == BlockDevInit /\ [][BlockDevNext]_blockDevVars
=============================================================================
