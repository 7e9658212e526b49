--------------------------- MODULE MCPublication ---------------------------
(* Small instances for TLC of the modules between a Project's plan and its  *)
(* artifacts: the Project run, the end of a Case and the publication        *)
(* ledger. They share no state; a behaviour belongs to one of them, "part". *)
EXTENDS ProjectRun, ArtifactLedger, CaseFinalization, TLC

CONSTANTS ka, kb, kc, t1, t2, t3, n1, n2, h1, h2, x, y,
    Parts   \* modules that are checked: "project", "ledger", "case"

VARIABLE part

mcVars == <<part, vars, ledgerVars, finalizationVars>>

-----------------------------------------------------------------------------
(* Plans of one or two short stages: kb needs the artifact of ka, and kc   *)
(* depends on kb or on nothing.                                            *)

NoDeps == [n \in Case |-> {}]
MCStage(policy, failFast, cases, deps, needs) ==
    [policy |-> policy, failFast |-> failFast, cases |-> cases, deps |-> deps, needs |-> needs]

Distinct == (ka :> "oa") @@ (kb :> "ob") @@ (kc :> "oc")

BNeedsA == [NoDeps EXCEPT ![kb] = {ka}]
CAfterB == [NoDeps EXCEPT ![kc] = {kb}]

MCPlans ==
    {<<MCStage("serial", ff, <<ka, kb>>, NoDeps, BNeedsA)>> : ff \in BOOLEAN} \cup
    {<<MCStage(p, ff, <<ka, kb>>, NoDeps, NoDeps)>> : p \in {"parallel", "external"}, ff \in BOOLEAN} \cup
    {<<MCStage("dag", ff, <<kc, kb, ka>>, CAfterB, BNeedsA)>> : ff \in BOOLEAN} \cup
    {<<MCStage("dag", TRUE, <<kc, kb, ka>>, CAfterB, NoDeps)>>,
     <<MCStage("parallel", FALSE, <<ka, kc>>, NoDeps, NoDeps),
       MCStage("external", TRUE, <<kb>>, NoDeps, BNeedsA)>>,
     <<MCStage("serial", TRUE, <<ka, kc>>, NoDeps, NoDeps),
       MCStage("parallel", FALSE, <<kb>>, NoDeps, NoDeps)>>}

\* Two attempts share the first lease, as the retry of a broker task does.
MCLeaseOf == [t \in Attempt |-> IF t = t3 THEN 2 ELSE 1]

\* Only the first one publishes two artifacts.
MCPublishes == [t \in Attempt |-> IF t = t1 THEN ArtifactName ELSE {n1}]

Symmetry == Permutations(Thread) \cup Permutations(Artifact)

-----------------------------------------------------------------------------

MCInit ==
    /\ part \in Parts
    /\ ProjectInit /\ LedgerInit /\ FinalizationInit
    /\ part # "project" => plan = CHOOSE p \in Plans : PlanAccepted(p)

ProjectStep == part = "project" /\ ProjectNext /\ UNCHANGED <<part, ledgerVars, finalizationVars>>
LedgerStep == part = "ledger" /\ LedgerNext /\ UNCHANGED <<part, vars, finalizationVars>>
CaseStep == part = "case" /\ FinalizationNext /\ UNCHANGED <<part, vars, ledgerVars>>

MCNext == ProjectStep \/ LedgerStep \/ CaseStep

MCSpec == MCInit /\ [][MCNext]_mcVars
=============================================================================
