---------------------------- MODULE MCHeartbeat ----------------------------
(* Small instances for TLC of the modules that live by heartbeats:          *)
(* cancellation controls and the L0 runtime with its lease guards. They     *)
(* share no state; a behaviour belongs to one of them, "part", and its      *)
(* fairness is that of its module.                                          *)
EXTENDS CancellationControl, L0Runtime, TLC

CONSTANTS project, stage, child, r1, k1, k2,
    Parts   \* modules that are checked: "control", "runtime"

VARIABLE part

mcVars == <<part, controlVars, runtimeVars>>

\* A chain: the Project's control, a stage's and a child Case's.
MCParent == (project :> NoControl) @@ (stage :> project) @@ (child :> stage)

MCInit ==
    /\ part \in Parts
    /\ ControlInit /\ RuntimeInit
    /\ part # "control" => store = "sqlite"

ControlStep == part = "control" /\ ControlNext /\ UNCHANGED <<part, runtimeVars>>
RuntimeStep == part = "runtime" /\ RuntimeNext /\ UNCHANGED <<part, controlVars>>

MCNext == ControlStep \/ RuntimeStep

MCFairness ==
    /\ WF_controlVars(part = "control" /\ Tick)
    /\ \A c \in Control : /\ WF_controlVars(part = "control" /\ Beat(c))
                          /\ WF_controlVars(part = "control" /\ MarkRequested(c))
    /\ \A c \in CaseRun :
          /\ SF_runtimeVars(part = "runtime" /\ RunnerStep(c))
          /\ WF_runtimeVars(part = "runtime" /\ HeartbeatStep(c))
          /\ WF_runtimeVars(part = "runtime" /\ LeaseRunsOut(c) /\ beat[c] \in {"none", "ended"})

MCSpec == MCInit /\ [][MCNext]_mcVars /\ MCFairness
=============================================================================
