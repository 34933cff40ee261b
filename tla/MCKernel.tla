------------------------------ MODULE MCKernel ------------------------------
(***************************************************************************)
(* Inodes, file contents, virtual memory, the buddy allocator, the network,*)
(* the console, the serial port and the processes of xv6, each on its own: *)
(* the first state picks the one that runs, the others stay in an initial  *)
(* state.                                                                  *)
(***************************************************************************)
EXTENDS Inode, Bmap, Vm, Buddy, Net, Console, Uart, Xv6Proc, TLC

VARIABLE subject        \* the component that runs

suiteVars == <<subject, inodeVars, bmapVars, vmVars, bdVars, netVars, consVars, uartVars, xv6Vars>>

SuiteInit ==
    /\ subject \in {"inode", "bmap", "vm", "buddy", "net", "console", "uart", "xv6"}
    /\ FsInit
    /\ BmapInit
    /\ VmInit
    /\ IF subject = "buddy" THEN BdInit ELSE BdStart(1, 2^MAXSIZE - 1)
    /\ NetInit
    /\ ConsInit
    /\ UartInit
    /\ Xv6Init

SuiteNext ==
    /\ UNCHANGED subject
    /\ \/ subject = "inode" /\ FsNext /\ UNCHANGED <<bmapVars, vmVars, bdVars, netVars, consVars, uartVars, xv6Vars>>
       \/ subject = "bmap" /\ BmapNext /\ UNCHANGED <<inodeVars, vmVars, bdVars, netVars, consVars, uartVars, xv6Vars>>
       \/ subject = "vm" /\ VmNext /\ UNCHANGED <<inodeVars, bmapVars, bdVars, netVars, consVars, uartVars, xv6Vars>>
       \/ subject = "buddy" /\ BdNext /\ UNCHANGED <<inodeVars, bmapVars, vmVars, netVars, consVars, uartVars, xv6Vars>>
       \/ subject = "net" /\ NetNext /\ UNCHANGED <<inodeVars, bmapVars, vmVars, bdVars, consVars, uartVars, xv6Vars>>
       \/ subject = "console" /\ ConsNext /\ UNCHANGED <<inodeVars, bmapVars, vmVars, bdVars, netVars, uartVars, xv6Vars>>
       \/ subject = "uart" /\ UartNext /\ UNCHANGED <<inodeVars, bmapVars, vmVars, bdVars, netVars, consVars, xv6Vars>>
       \/ subject = "xv6" /\ Xv6Next /\ UNCHANGED <<inodeVars, bmapVars, vmVars, bdVars, netVars, consVars, uartVars>>

SuiteSpec == SuiteInit /\ [][SuiteNext]_suiteVars

\* The model values that stand for the processes of Inode and Net and for the files
\* of Bmap are interchangeable, and so are the connections.
KernelSymmetry == Permutations(FsProc) \cup Permutations(Conn)

\* The type invariants of the components.
KernelTypeOK ==
    /\ InodeTypeOK /\ BmapTypeOK /\ VmTypeOK /\ BdTypeOK
    /\ NetTypeOK /\ ConsTypeOK /\ UartTypeOK /\ Xv6TypeOK
=============================================================================
