----------------------------- MODULE MCDevices ------------------------------
(***************************************************************************)
(* Pipes and the disk driver, with their fairness, each on its own: the first*)
(* state picks the one that runs, the other stays in its initial state.    *)
(***************************************************************************)
EXTENDS Pipe, VirtioDisk

VARIABLE subject        \* the component that runs

suiteVars == <<subject, pipeSysVars, diskVars>>

SuiteInit ==
    /\ subject \in {"pipe", "disk"}
    /\ PipeInit
    /\ DiskInit

SuiteNext ==
    /\ UNCHANGED subject
    /\ \/ subject = "pipe" /\ PipeNext /\ UNCHANGED <<diskVars>>
       \/ subject = "disk" /\ DiskNext /\ UNCHANGED <<pipeSysVars>>

\* The fair actions of a component are disabled in its initial state, so those of
\* the one that does not run ask for nothing.
SuiteSpec ==
    /\ SuiteInit /\ [][SuiteNext]_suiteVars
    /\ PipeFairness
    /\ DiskFairness

\* The type invariants of the components: the counters of a pipe, the rings of the
\* driver and the places of their callers.
DevicesTypeOK == PipeTypeOK /\ DiskTypeOK
=============================================================================
