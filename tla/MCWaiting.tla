----------------------------- MODULE MCWaiting -----------------------------
(* Small instances for TLC of the modules in which threads of one process   *)
(* wait for each other: the local pool, the grant pool, the parallel slot   *)
(* and the stages of a Case. They share no state; a behaviour belongs to    *)
(* one of them, "part", and its fairness is that of its module.             *)
EXTENDS PoolExecutor, GrantPool, ParallelSlot, CaseStages

CONSTANTS v1, t1, t2, d1, g1, g2, g3,
    Parts   \* modules that are checked: "pool", "grant", "slot", "stage"

VARIABLE part

mcVars == <<part, poolVars, grantVars, slotVars, stageVars>>

\* Every view has one thread and the tasks are those of v1.
MCViewOf == [t \in Task |-> v1]
MCCount == [v \in View |-> 1]
MCPermits == [d \in Direct |-> 1]

\* Two workers for three calls, one of which runs until it is cancelled; a
\* call and two calls that publish the same name, one of them after the
\* artifact of the first; a call repeated under its own name.
MCCall(name, needs, gives, endless) ==
    [name |-> name, needs |-> needs, gives |-> gives, endless |-> endless]
MCStage(parallel, failFast, workers, calls) ==
    [parallel |-> parallel, failFast |-> failFast, workers |-> workers, calls |-> calls]
MCStagePlans ==
    {<<MCStage(TRUE, TRUE, 2, <<MCCall("a", {}, "x", FALSE), MCCall("b", {}, "", TRUE),
                                MCCall("c", {}, "x", FALSE)>>)>>,
     <<MCStage(FALSE, FALSE, 1, <<MCCall("a", {}, "x", FALSE)>>),
       MCStage(TRUE, FALSE, 2, <<MCCall("b", {}, "y", FALSE),
                                 MCCall("c", {<<"a", "x">>}, "y", FALSE)>>)>>,
     <<MCStage(FALSE, TRUE, 1, <<MCCall("a", {}, "x", FALSE), MCCall("b", {}, "y", FALSE)>>),
       MCStage(FALSE, TRUE, 1, <<MCCall("a", {<<"", "y">>}, "x", FALSE)>>)>>}

MCInit ==
    /\ part \in Parts
    /\ PoolInit /\ GrantPoolInit /\ SlotInit /\ StageInit
    /\ part # "grant" => tokens = {}
    /\ part # "slot" => policy = [strict |-> FALSE, cancelOnError |-> FALSE, deadline |-> FALSE]
    /\ part # "stage" => Len(stagePlan) = 1

PoolStep == part = "pool" /\ PoolNext /\ UNCHANGED <<part, grantVars, slotVars, stageVars>>
GrantStep == part = "grant" /\ GrantPoolNext /\ UNCHANGED <<part, poolVars, slotVars, stageVars>>
SlotStep == part = "slot" /\ SlotNext /\ UNCHANGED <<part, poolVars, grantVars, stageVars>>
StageStep ==
    part = "stage" /\ StageNext /\ UNCHANGED <<part, poolVars, grantVars, slotVars>>

MCNext == PoolStep \/ GrantStep \/ SlotStep \/ StageStep

MCFairness ==
    /\ WF_poolVars(part = "pool" /\ ThreadStep)
    /\ \A c \in Child : /\ WF_grantVars(part = "grant" /\ Grant(c))
                        /\ WF_grantVars(part = "grant" /\ GiveBack(c))
    /\ WF_slotVars(part = "slot" /\ CollectorStep)
    /\ WF_slotVars(part = "slot" /\ DeadlinePasses)
    /\ WF_stageVars(part = "stage" /\ RunnerThread)
    /\ \A c \in 1..MaxCalls : WF_stageVars(part = "stage" /\ CallThread(c))

MCSpec == MCInit /\ [][MCNext]_mcVars /\ MCFairness
=============================================================================
