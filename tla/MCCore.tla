------------------------------- MODULE MCCore -------------------------------
(***************************************************************************)
(* Processes, and the log with crashes, each on its own: the first state   *)
(* picks the one that runs, the other stays in its initial state.          *)
(***************************************************************************)
EXTENDS Proc, Log, TLC

VARIABLE subject        \* the component that runs

suiteVars == <<subject, vars, redoVars>>

SuiteInit ==
    /\ subject \in {"proc", "log"}
    /\ Init
    /\ LogInit

\* Processes may come to a stop when the pids of the instance are used up; the
\* log must not.
SuiteNext ==
    /\ UNCHANGED subject
    /\ \/ subject = "proc" /\ Next /\ UNCHANGED redoVars
       \/ subject = "log" /\ LogNext /\ UNCHANGED vars
       \/ subject = "proc" /\ UNCHANGED <<vars, redoVars>>

SuiteSpec == SuiteInit /\ [][SuiteNext]_suiteVars

\* CPUs are interchangeable, blocks are, and so are the processes of the log
\* other than the first.
CoreSymmetry == Permutations(CPU) \cup Permutations(Block) \cup Permutations(Process \ {InitProc})
=============================================================================
