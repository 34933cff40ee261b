------------------------------ MODULE MCCache -------------------------------
(***************************************************************************)
(* A log that never crashes and the buffer cache, each on its own: the first*)
(* state picks the one that runs, the other stays in its initial state.    *)
(***************************************************************************)
EXTENDS Log, Bcache, TLC

VARIABLE subject        \* the component that runs

suiteVars == <<subject, redoVars, bcacheVars>>

SuiteInit ==
    /\ subject \in {"log", "bcache"}
    /\ LogInit
    /\ BcacheInit

SuiteNext ==
    /\ UNCHANGED subject
    /\ \/ subject = "log" /\ LogNext /\ UNCHANGED <<bcacheVars>>
       \/ subject = "bcache" /\ BcacheNext /\ UNCHANGED <<redoVars>>

SuiteSpec == SuiteInit /\ [][SuiteNext]_suiteVars

\* Blocks are interchangeable, and so are the processes but for the one that boots.
CacheSymmetry == Permutations(Block) \cup Permutations(Process \ {InitProc})

\* The type invariants of the components: the log's header and counters, and the
\* list and locks of the buffers.
CacheTypeOK == LogTypeOK /\ BcacheTypeOK
=============================================================================
