----------------------------- MODULE ProjectRun -----------------------------
(***************************************************************************)
(* The Project runner: execute_project with its serial, parallel, external *)
(* and DAG stages, the run manifest it writes, and the resume of a later   *)
(* attempt from the manifest of an earlier one.                            *)
(*                                                                         *)
(* One process at a time coordinates a run (pc); its Cases execute in      *)
(* worker processes or, in an external stage, as broker tasks that outlive *)
(* it. The process may die between any two durable writes. A run is known  *)
(* by its number, and the artifact a Case publishes under run r by the     *)
(* pair <<r, c>>. Failed, cancelled and timed out results are one status:  *)
(* nothing here tells them apart.                                          *)
(***************************************************************************)
EXTENDS Integers, Sequences, FiniteSets, SequencesExt

CONSTANTS
    Case,       \* the recovery keys of the Project: the Cases, each in its stage
    ArtifactOf, \* [Case -> artifact name]: the name each Case publishes under
    Plans,      \* the groups of stages that may be run: sequences of stages
    MaxRuns,    \* bound: attempts at the Project
    MaxWorkers, \* max_workers of a stage
    None        \* no artifact

ASSUME ProjectAssumption ==
    /\ MaxRuns \in Nat \ {0} /\ MaxWorkers \in Nat \ {0}
    /\ None \notin ((1..MaxRuns) \X Case)
    /\ \A c \in Case : ArtifactOf[c] \notin Case
    /\ \A p \in Plans :
          /\ Len(p) \in Nat /\ DOMAIN p = 1..Len(p)
          /\ \A i \in DOMAIN p :
                /\ Len(p[i].cases) \in Nat /\ DOMAIN p[i].cases = 1..Len(p[i].cases)
                /\ ToSet(p[i].cases) \subseteq Case
                /\ \A j \in DOMAIN p : i # j => ToSet(p[i].cases) \cap ToSet(p[j].cases) = {}

RunId == 1..MaxRuns
Key == Case \cup {ArtifactOf[c] : c \in Case}
Ref == (RunId \X Case) \cup {None}
Status == {"none", "submitted", "succeeded", "resumed", "failed", "skipped"}
Ok == {"succeeded", "resumed"}

NoRecord == [status |-> "none", ref |-> None, task |-> 0]

VARIABLES
    plan,      \* the group's stages
    pc,        \* where the coordinating process is
    runs,      \* attempts so far; the last one is the current one
    prior,     \* [RunId -> run resumed from, or 0]
    at,        \* index of the current stage
    results,   \* [Case -> [status, ref]]: case_results and results_by_index
    registry,  \* [Key -> Ref]: artifact_registry and its bindings
    prepared,  \* Cases prepared and not launched yet
    wave,      \* the Cases of the current call of _execute_parallel_stage
    running,   \* Cases with a pending future
    stopping,  \* stop_launching
    exitCode,
    holds,     \* [Case -> run whose lease the item holds, or 0]
    awaits,    \* [Case -> run whose broker task the item waits for, or 0]
    manifests, \* [RunId -> manifest]
    leases,    \* current L0 leases, as pairs <<run, case>>
    tasks      \* [RunId -> [Case -> status of the broker task]]

processVars == <<pc, at, results, registry, prepared, wave, running, stopping,
                 exitCode, holds, awaits>>
vars == <<plan, runs, prior, manifests, leases, tasks, processVars>>

Stage == plan[at]
StageCases == ToSet(Stage.cases)

-----------------------------------------------------------------------------
(* The dependency graph of a DAG stage.                                    *)

\* Explicit depends_on, and the producers of the artifacts a Case takes in.
Dependencies(stage) ==
    [c \in ToSet(stage.cases) |->
        stage.deps[c] \cup (stage.needs[c] \cap ToSet(stage.cases))]

\* _stable_topological_order: a Case is placed in the round that follows the
\* last of its dependencies ...
Layerings(stage) ==
    {L \in [ToSet(stage.cases) -> 1..Len(stage.cases)] :
        \A c \in ToSet(stage.cases) :
            /\ \A d \in Dependencies(stage)[c] : L[d] < L[c]
            /\ L[c] = 1 \/ \E d \in Dependencies(stage)[c] : L[d] = L[c] - 1}

Layer(stage) == CHOOSE L \in Layerings(stage) : TRUE

\* ... and the Cases of a round are in the declared order.
Position(stage, c) == CHOOSE i \in DOMAIN stage.cases : stage.cases[i] = c

DeclaredOrder ==
    {e \in StageCases \X StageCases : Position(Stage, e[1]) < Position(Stage, e[2])}

LaunchOrder ==
    IF Stage.policy # "dag" THEN DeclaredOrder
    ELSE LET L == Layer(Stage)
         IN  {e \in StageCases \X StageCases :
                 L[e[1]] < L[e[2]] \/ (L[e[1]] = L[e[2]] /\ e \in DeclaredOrder)}

\* The first Case of C in an order.
First(order, C) == CHOOSE c \in C : \A d \in C \ {c} : <<c, d>> \in order

\* from_stage accepts a stage: known Cases, none twice, no self-dependency and
\* no cycle, which is a round that places nothing.
DagAccepted(stage) ==
    /\ IsInjective(stage.cases)
    /\ \A c \in ToSet(stage.cases) : c \notin stage.deps[c] \cup stage.needs[c]
    /\ \A c \in ToSet(stage.cases) : stage.deps[c] \subseteq ToSet(stage.cases)
    /\ Layerings(stage) # {}

\* What execute_project checks of a group before anything runs.
PlanAccepted(p) ==
    /\ \A i \in DOMAIN p : IsInjective(p[i].cases)
    /\ \A i \in DOMAIN p : p[i].policy = "dag" => DagAccepted(p[i])
    /\ \A i \in DOMAIN p : p[i].policy \in {"serial", "parallel", "external", "dag"}

-----------------------------------------------------------------------------
(* The manifest.                                                           *)

\* case_order: the places of the plan, stage by stage.
Places == UNION {{i} \X DOMAIN plan[i].cases : i \in DOMAIN plan}
CaseAt(p) == plan[p[1]].cases[p[2]]
Planned == {CaseAt(p) : p \in Places}
InPlanOrder(p, q) == p[1] < q[1] \/ (p[1] = q[1] /\ p[2] <= q[2])

EmptyRegistry == [k \in Key |-> None]

\* _register_case_artifacts, and the same registration in record_case: the
\* qualified names are overwritten, the bare name goes to whoever came first.
Register(reg, c, ref) ==
    IF ref = None THEN reg
    ELSE [reg EXCEPT ![c] = ref, ![ArtifactOf[c]] = IF @ = None THEN ref ELSE @]

\* The registration of the Cases of C, one after the other.
RegisterAll(reg, C, order, refs) ==
    LET known(k) == {c \in C : refs[c] # None /\ k \in {c, ArtifactOf[c]}}
    IN  [k \in Key |-> IF known(k) = {} \/ (k \notin Case /\ reg[k] # None) THEN reg[k]
                       ELSE refs[First(order, known(k))]]

\* record_case: the broker link of an earlier record is kept.
RecordCase(m, c, result) ==
    [m EXCEPT !.cases[c] = [status |-> result.status, ref |-> result.ref, task |-> @.task],
              !.registry = IF result.status \in Ok THEN Register(@, c, result.ref) ELSE @]

RecordAll(m, C, order, res) ==
    LET published == [c \in Case |-> IF res[c].status \in Ok THEN res[c].ref ELSE None]
    IN  [m EXCEPT !.cases = [c \in Case |-> IF c \in C THEN RecordCase(m, c, res[c]).cases[c]
                                           ELSE m.cases[c]],
                  !.registry = RegisterAll(@, C, order, published)]

\* record_external_task: the link replaces whatever was recorded of the Case.
RecordExternalTask(m, c, task) ==
    [m EXCEPT !.cases[c] = [status |-> "submitted", ref |-> None, task |-> task]]

\* successful_cases of the manifest of run r.
Successful(r) ==
    IF r = 0 THEN {} ELSE {c \in Case : manifests[r].cases[c].status \in Ok}

Resumed == Successful(prior[runs])

\* _validated_resume_artifacts rebuilds the registry in manifest order.
Rebuilt(r) ==
    LET known(k) == {p \in Places : /\ CaseAt(p) \in Successful(r)
                                    /\ manifests[r].cases[CaseAt(p)].ref # None
                                    /\ k \in {CaseAt(p), ArtifactOf[CaseAt(p)]}}
        first(k) == CHOOSE p \in known(k) : \A q \in known(k) : InPlanOrder(p, q)
    IN  [k \in Key |-> IF known(k) = {} THEN None ELSE manifests[r].cases[CaseAt(first(k))].ref]

\* ... and refuses the manifest whose registry is another one.
Acceptable(r) == manifests[r].registry = Rebuilt(r)

Write(m) == manifests' = [manifests EXCEPT ![runs] = m]
Manifest == manifests[runs]

-----------------------------------------------------------------------------
NoResults == [c \in Case |-> [status |-> "none", ref |-> None]]
Result(s, ref) == [status |-> s, ref |-> ref]

ProjectInit ==
    /\ plan \in {p \in Plans : PlanAccepted(p)}
    /\ pc = "idle" /\ runs = 0 /\ at = 1
    /\ prior = [r \in RunId |-> 0]
    /\ results = NoResults /\ registry = EmptyRegistry
    /\ prepared = {} /\ wave = {} /\ running = {}
    /\ stopping = FALSE /\ exitCode = 0
    /\ holds = [c \in Case |-> 0] /\ awaits = [c \in Case |-> 0]
    /\ manifests = [r \in RunId |-> [cases |-> [c \in Case |-> NoRecord],
                                     registry |-> EmptyRegistry, status |-> "absent"]]
    /\ leases = {}
    /\ tasks = [r \in RunId |-> [c \in Case |-> "none"]]

\* execute_project up to its first stage, resuming run m unless m is 0.
StartRun(m) ==
    /\ pc = "idle" /\ runs < MaxRuns
    /\ m # 0 => Acceptable(m)
    /\ runs' = runs + 1
    /\ prior' = [prior EXCEPT ![runs + 1] = m]
    /\ registry' = IF m = 0 THEN EmptyRegistry ELSE Rebuilt(m)
    /\ manifests' = [manifests EXCEPT ![runs + 1].status = "running",
                                      ![runs + 1].registry = registry']
    /\ pc' = "stage" /\ at' = 1 /\ exitCode' = 0
    /\ results' = NoResults
    /\ prepared' = {} /\ wave' = {} /\ running' = {} /\ stopping' = FALSE
    /\ holds' = [c \in Case |-> 0] /\ awaits' = [c \in Case |-> 0]
    /\ UNCHANGED <<plan, leases, tasks>>

\* Mutant: the artifact of a resumed Case is forgotten.
WithResumedUnbacked ==
    [c \in Case |-> IF c \in StageCases \cap Resumed /\ results[c].status = "none"
                    THEN Result("resumed", None)
                    ELSE results[c]]

\* The results the stage ends with: the resumed ones join the others.
WithResumed ==
    [c \in Case |-> IF c \in StageCases \cap Resumed /\ results[c].status = "none"
                    THEN Result("resumed", manifests[prior[runs]].cases[c].ref)
                    ELSE results[c]]

Failed(c) == results[c].status \in {"failed", "skipped"}
StageFailed == \E c \in StageCases : Failed(c)

\* After a stage: the next one, or finish() under fail_fast.
GoOn ==
    /\ at' = at + 1
    /\ pc' = IF StageFailed /\ Stage.failFast THEN "finish" ELSE "stage"

\* End of a parallel, external or DAG stage: every result is retained in the
\* declared order, the artifacts of this run's Cases are registered in it.
EndStage ==
    /\ results' = WithResumed
    /\ Write(RecordAll(Manifest, StageCases, DeclaredOrder, WithResumed))
    /\ registry' = RegisterAll(registry, StageCases, DeclaredOrder,
                              [c \in Case |-> results[c].ref])
    /\ exitCode' = IF StageFailed THEN 1 ELSE exitCode
    /\ GoOn
    /\ UNCHANGED <<plan, runs, prior, prepared, wave, running, stopping, holds,
                   awaits, leases, tasks>>

-----------------------------------------------------------------------------
(* Preparation of a parallel wave.                                         *)

\* A Case whose input artifact is not registered cannot be prepared; under
\* fail_fast the Cases after the first such Case are skipped.
Preparable(c, reg) == \A k \in Stage.needs[c] : reg[k] # None

Prepare(C) ==
    LET bad == {c \in C : ~Preparable(c, registry)}
        late == {c \in C : Stage.failFast /\ \E b \in bad : <<b, c>> \in LaunchOrder}
        done == [c \in Case |-> IF c \in late THEN Result("skipped", None)
                               ELSE IF c \in bad THEN Result("failed", None) ELSE results[c]]
    IN  /\ results' = done
        /\ prepared' = C \ (bad \cup late)
        /\ wave' = C
        /\ stopping' = (bad # {} /\ Stage.failFast)
        /\ exitCode' = IF bad # {} THEN 1 ELSE exitCode
        /\ IF Stage.policy = "dag" THEN UNCHANGED manifests
           ELSE Write(RecordAll(Manifest, {c \in C : done[c].status # "none"}, DeclaredOrder,
                                done))
        /\ pc' = "parallel"
        /\ UNCHANGED <<plan, runs, prior, at, registry, running, holds, awaits, leases, tasks>>

EnterStage ==
    /\ pc = "stage" /\ at <= Len(plan)
    /\ \/ /\ Stage.policy = "serial"
          /\ pc' = "serial" /\ prepared' = StageCases
          /\ UNCHANGED <<plan, runs, prior, manifests, leases, tasks, at, results, registry,
                         wave, running, stopping, exitCode, holds, awaits>>
       \/ /\ Stage.policy \in {"parallel", "external"}
          /\ Prepare(StageCases \ Resumed)
       \/ /\ Stage.policy = "dag"
          /\ pc' = "dag"
          /\ UNCHANGED <<plan, runs, prior, manifests, leases, tasks, at, results, registry,
                         prepared, wave, running, stopping, exitCode, holds, awaits>>

-----------------------------------------------------------------------------
(* A serial stage.                                                         *)

Current == First(LaunchOrder, prepared)

SerialResumed ==
    /\ pc = "serial" /\ prepared # {} /\ running = {} /\ Current \in Resumed
    /\ LET res == Result("resumed", manifests[prior[runs]].cases[Current].ref)
       IN  /\ results' = [results EXCEPT ![Current] = res]
           /\ Write(RecordCase(Manifest, Current, res))
    /\ prepared' = prepared \ {Current}
    /\ UNCHANGED <<plan, runs, prior, leases, tasks, pc, at, registry, wave, running,
                   stopping, exitCode, holds, awaits>>

\* Inputs resolve and the allocator grants the lease.
SerialStart ==
    /\ pc = "serial" /\ prepared # {} /\ running = {} /\ Current \notin Resumed
    /\ Preparable(Current, registry)
    /\ leases' = leases \cup {<<runs, Current>>}
    /\ running' = {Current}
    /\ holds' = [holds EXCEPT ![Current] = runs]
    /\ UNCHANGED <<plan, runs, prior, manifests, tasks, pc, at, results, registry, prepared,
                   wave, stopping, exitCode, awaits>>

\* retain() of a serial Case, with the release of its lease in the finally.
SerialRetain(res) ==
    /\ results' = [results EXCEPT ![Current] = res]
    /\ registry' = Register(registry, Current, res.ref)
    /\ Write(RecordCase(Manifest, Current, res))
    /\ leases' = leases \ {<<holds[Current], Current>>}
    /\ holds' = [holds EXCEPT ![Current] = 0]
    /\ running' = {}
    /\ exitCode' = IF res.status \in Ok THEN exitCode ELSE 1
    /\ IF res.status \notin Ok /\ Stage.failFast
       THEN pc' = "finish" /\ prepared' = {}
       ELSE pc' = pc /\ prepared' = prepared \ {Current}
    /\ UNCHANGED <<plan, runs, prior, tasks, at, wave, stopping, awaits>>

\* Inputs are missing, or the lease or its guard is refused.
SerialRefused ==
    /\ pc = "serial" /\ prepared # {} /\ running = {} /\ Current \notin Resumed
    /\ SerialRetain(Result("failed", None))

\* The Case returns; a success counts only while the lease is still current.
SerialDone ==
    /\ pc = "serial" /\ running # {}
    /\ \/ /\ <<holds[Current], Current>> \in leases
          /\ SerialRetain(Result("succeeded", <<runs, Current>>))
       \/ SerialRetain(Result("failed", None))

SerialEnd ==
    /\ pc = "serial" /\ prepared = {}
    /\ at' = at + 1 /\ pc' = "stage"
    /\ UNCHANGED <<plan, runs, prior, manifests, leases, tasks, results, registry, prepared,
                   wave, running, stopping, exitCode, holds, awaits>>

-----------------------------------------------------------------------------
(* _execute_parallel_stage after its preparation.                          *)

External == Stage.policy = "external"
CanLaunch ==
    pc = "parallel" /\ prepared # {} /\ ~stopping /\ Cardinality(running) < MaxWorkers

\* A Case becomes a running item that holds lease h and awaits task t.
Launched(h, t) ==
    /\ prepared' = prepared \ {Current}
    /\ running' = running \cup {Current}
    /\ holds' = [holds EXCEPT ![Current] = h]
    /\ awaits' = [awaits EXCEPT ![Current] = t]
    /\ UNCHANGED <<plan, runs, prior, at, results, registry, wave, stopping, exitCode>>

LaunchProcess ==
    /\ CanLaunch /\ ~External
    /\ leases' = leases \cup {<<runs, Current>>}
    /\ Launched(runs, 0)
    /\ UNCHANGED <<pc, manifests, tasks>>

\* The broker task of the run resumed from: the one its manifest links, or the
\* one whose identity follows from its run id.
PriorTask(c) ==
    LET m == prior[runs]
    IN  IF m # 0 /\ manifests[m].cases[c].task # 0 THEN manifests[m].cases[c].task ELSE m

PriorStatus(c) == IF PriorTask(c) = 0 THEN "none" ELSE tasks[PriorTask(c)][c]
PriorLeased(c) == <<PriorTask(c), c>> \in leases

\* A prior task that may still be claimed is cancelled before a new grant.
ReconcileCancels ==
    /\ CanLaunch /\ External /\ PriorStatus(Current) = "queued"
    /\ tasks' = [tasks EXCEPT ![PriorTask(Current)][Current] = "cancelled"]
    /\ UNCHANGED <<plan, runs, prior, manifests, leases, processVars>>

\* A prior task that succeeded, or that runs under a current lease, is adopted
\* with its lease if that is still current.
ReconcileAdopts ==
    /\ CanLaunch /\ External
    /\ \/ PriorStatus(Current) = "succeeded"
       \/ PriorStatus(Current) = "leased" /\ PriorLeased(Current)
    /\ Launched(IF PriorLeased(Current) THEN PriorTask(Current) ELSE 0, PriorTask(Current))
    /\ Write(RecordExternalTask(Manifest, Current, PriorTask(Current)))
    /\ UNCHANGED <<pc, leases, tasks>>

\* Nothing to adopt: a fresh grant, and a task submitted to the broker. The
\* manifest learns of it in a write of its own.
SubmitExternal ==
    /\ CanLaunch /\ External /\ PriorStatus(Current) \in {"none", "failed", "cancelled"}
    /\ leases' = leases \cup {<<runs, Current>>}
    /\ tasks' = [tasks EXCEPT ![runs][Current] = "queued"]
    /\ Launched(runs, runs)
    /\ pc' = "record"
    /\ UNCHANGED manifests

RecordSubmitted ==
    /\ pc = "record" /\ pc' = "parallel"
    /\ \E c \in running : /\ awaits[c] = runs /\ Manifest.cases[c].task # runs
                         /\ Write(RecordExternalTask(Manifest, c, runs))
    /\ UNCHANGED <<plan, runs, prior, leases, tasks, at, results, registry, prepared, wave,
                   running, stopping, exitCode, holds, awaits>>

\* The allocator refuses the lease: with nothing running there is nothing to
\* wait for and the Case fails; otherwise the loop waits for a release.
LaunchRefused ==
    /\ CanLaunch /\ running = {}
    /\ External => PriorStatus(Current) \in {"none", "failed", "cancelled"}
    /\ results' = [results EXCEPT ![Current] = Result("failed", None)]
    /\ IF Stage.policy = "dag" THEN UNCHANGED manifests
       ELSE Write(RecordCase(Manifest, Current, Result("failed", None)))
    /\ prepared' = prepared \ {Current}
    /\ exitCode' = 1 /\ stopping' = Stage.failFast
    /\ UNCHANGED <<plan, runs, prior, leases, tasks, pc, at, registry, wave, running, holds,
                   awaits>>

\* An item leaves running: its result is retained, its lease released.
Collected(c, res, m) ==
    /\ running' = running \ {c}
    /\ results' = [results EXCEPT ![c] = res]
    /\ Write(IF Stage.policy = "dag" THEN m ELSE RecordCase(m, c, res))
    /\ leases' = leases \ {<<holds[c], c>>}
    /\ holds' = [holds EXCEPT ![c] = 0]
    /\ exitCode' = IF res.status \in Ok THEN exitCode ELSE 1
    /\ stopping' = (stopping \/ (res.status \notin Ok /\ Stage.failFast))
    /\ UNCHANGED <<plan, runs, prior, tasks, pc, at, registry, prepared, wave, awaits>>

\* lease_guard.assert_current of an item; without a guard there is nothing to ask.
GuardCurrent(c) == holds[c] = 0 \/ <<holds[c], c>> \in leases

CollectProcess(c) ==
    /\ pc = "parallel" /\ ~External
    /\ \/ GuardCurrent(c) /\ Collected(c, Result("succeeded", <<runs, c>>), Manifest)
       \/ Collected(c, Result("failed", None), Manifest)

\* The broker answers; an adopted task that succeeded counts as resumed.
CollectExternal(c) ==
    /\ pc = "parallel" /\ External
    /\ tasks[awaits[c]][c] \in {"succeeded", "failed", "cancelled"}
    /\ Collected(c,
         IF tasks[awaits[c]][c] = "succeeded" /\ GuardCurrent(c)
         THEN Result(IF awaits[c] = runs THEN "succeeded" ELSE "resumed", <<awaits[c], c>>)
         ELSE Result("failed", None),
         RecordExternalTask(Manifest, c, awaits[c]))

\* The queue timeout of _await_external_case_task.
QueueTimeout(c) ==
    /\ pc = "parallel" /\ External /\ tasks[awaits[c]][c] = "queued"
    /\ tasks' = [tasks EXCEPT ![awaits[c]][c] = "cancelled"]
    /\ UNCHANGED <<plan, runs, prior, manifests, leases, processVars>>

\* fail_fast cancels the tasks of the siblings that no worker has claimed.
CancelSiblings ==
    /\ pc = "parallel" /\ stopping /\ External
    /\ LET queued == {c \in running : tasks[awaits[c]][c] = "queued"}
       IN  /\ queued # {}
           /\ tasks' = [r \in RunId |-> [c \in Case |->
                          IF c \in queued /\ r = awaits[c] THEN "cancelled" ELSE tasks[r][c]]]
    /\ UNCHANGED <<plan, runs, prior, manifests, leases, processVars>>

\* What fail_fast kept from starting gets a skipped result.
SkipLeftovers ==
    /\ pc = "parallel" /\ stopping /\ prepared # {} /\ running = {}
    /\ LET skipped == [c \in Case |-> IF c \in prepared
                                      THEN Result("skipped", None) ELSE results[c]]
       IN  /\ results' = skipped
           /\ IF Stage.policy = "dag" THEN UNCHANGED manifests
              ELSE Write(RecordAll(Manifest, prepared, DeclaredOrder, skipped))
    /\ prepared' = {} /\ exitCode' = 1
    /\ UNCHANGED <<plan, runs, prior, leases, tasks, pc, at, registry, wave, running, stopping,
                   holds, awaits>>

WaveDone == pc = "parallel" /\ prepared = {} /\ running = {}

EndParallel == WaveDone /\ Stage.policy # "dag" /\ EndStage

-----------------------------------------------------------------------------
(* A DAG stage: waves of Cases whose dependencies have succeeded.          *)

\* The results of a wave reach the manifest and the working registry together.
EndWave ==
    /\ WaveDone /\ Stage.policy = "dag"
    /\ Write(RecordAll(Manifest, wave, LaunchOrder, results))
    /\ registry' = RegisterAll(registry, wave, LaunchOrder, [c \in Case |-> results[c].ref])
    /\ pc' = "dag" /\ wave' = {}
    /\ UNCHANGED <<plan, runs, prior, leases, tasks, at, results, prepared, running, stopping,
                   exitCode, holds, awaits>>

Pending == {c \in StageCases \ Resumed : results[c].status = "none"}
DagFailed == {c \in StageCases : Failed(c)}

\* The descendants of what failed.
Blocked ==
    LET D == Dependencies(Stage)
        closed == {F \in SUBSET StageCases :
                      DagFailed \subseteq F /\ \A c \in Pending : D[c] \cap F # {} => c \in F}
    IN  {c \in Pending : \A F \in closed : c \in F}

\* Mutant: a dependency that has not run yet does not hold a Case back.
DagReadyUnlessFailed ==
    {c \in Pending : \A d \in Dependencies(Stage)[c] :
                        d \in Resumed \/ results[d].status \notin {"failed", "skipped"}}

DagReady ==
    {c \in Pending : \A d \in Dependencies(Stage)[c] :
                        d \in Resumed \/ results[d].status \in Ok}

DagSkip(C) ==
    /\ C # {}
    /\ LET skipped == [c \in Case |-> IF c \in C THEN Result("skipped", None) ELSE results[c]]
       IN  /\ results' = skipped
           /\ Write(RecordAll(Manifest, C, DeclaredOrder, skipped))
    /\ exitCode' = 1
    /\ UNCHANGED <<plan, runs, prior, leases, tasks, pc, at, registry, prepared, wave, running,
                   stopping, holds, awaits>>

DagBlocked == pc = "dag" /\ DagSkip(Blocked)

DagFailFast ==
    pc = "dag" /\ Blocked = {} /\ DagFailed # {} /\ Stage.failFast /\ DagSkip(Pending)

DagWave ==
    /\ pc = "dag" /\ Blocked = {} /\ DagReady # {}
    /\ ~(DagFailed # {} /\ Stage.failFast)
    /\ Prepare(DagReady)

EndDag == pc = "dag" /\ Pending = {} /\ EndStage

-----------------------------------------------------------------------------
(* The end of a process, and what goes on without it.                      *)

ProcessGone ==
    /\ pc' = "idle" /\ at' = 1
    /\ results' = NoResults /\ registry' = EmptyRegistry
    /\ prepared' = {} /\ wave' = {} /\ running' = {}
    /\ stopping' = FALSE /\ exitCode' = 0
    /\ holds' = [c \in Case |-> 0] /\ awaits' = [c \in Case |-> 0]
    /\ UNCHANGED <<plan, runs, prior, tasks>>

\* finish(): runtime.close() may fail, which fails the run.
Finish ==
    /\ pc = "finish" \/ (pc = "stage" /\ at > Len(plan))
    /\ \E closed \in BOOLEAN :
          Write([Manifest EXCEPT !.status = IF closed /\ exitCode = 0 THEN "ok" ELSE "failed"])
    /\ ProcessGone
    /\ UNCHANGED leases

\* The prior task is held by a worker whose Project lease has lapsed: after the
\* queue timeout the error leaves execute_project without finish().
ReconcileAborts ==
    /\ CanLaunch /\ External
    /\ PriorStatus(Current) = "leased" /\ ~PriorLeased(Current)
    /\ ProcessGone
    /\ UNCHANGED <<manifests, leases>>

Crash ==
    /\ pc # "idle"
    /\ ProcessGone
    /\ UNCHANGED <<manifests, leases>>

\* A lease that nobody renews in time is gone.
Lapse(r, c) ==
    /\ <<r, c>> \in leases /\ leases' = leases \ {<<r, c>>}
    /\ UNCHANGED <<plan, runs, prior, manifests, tasks, processVars>>

\* A worker claims a task, and fails it at once if its lease is not current.
WorkerClaims(r, c) ==
    /\ tasks[r][c] = "queued"
    /\ tasks' = [tasks EXCEPT ![r][c] = IF <<r, c>> \in leases THEN "leased" ELSE "failed"]
    /\ UNCHANGED <<plan, runs, prior, manifests, leases, processVars>>

\* It completes the task under a current lease, or fails it; a worker that died
\* has its task failed by recovery.
WorkerReports(r, c) ==
    /\ tasks[r][c] = "leased"
    /\ \E s \in {"succeeded", "failed"} :
          /\ s = "succeeded" => <<r, c>> \in leases
          /\ tasks' = [tasks EXCEPT ![r][c] = s]
    /\ UNCHANGED <<plan, runs, prior, manifests, leases, processVars>>

CoordinatorStep ==
    \/ EnterStage \/ SerialResumed \/ SerialStart \/ SerialRefused \/ SerialDone \/ SerialEnd
    \/ LaunchProcess \/ ReconcileCancels \/ ReconcileAdopts \/ SubmitExternal
    \/ RecordSubmitted \/ LaunchRefused \/ CancelSiblings \/ SkipLeftovers
    \/ \E c \in running : CollectProcess(c) \/ CollectExternal(c) \/ QueueTimeout(c)
    \/ EndParallel \/ EndWave \/ DagBlocked \/ DagFailFast \/ DagWave \/ EndDag
    \/ Finish \/ ReconcileAborts

WorkerStep == \E r \in RunId, c \in Case : WorkerClaims(r, c) \/ WorkerReports(r, c)

ProjectNext ==
    \/ \E m \in 0..runs : StartRun(m)
    \/ CoordinatorStep \/ Crash \/ WorkerStep
    \/ \E r \in RunId, c \in Case : Lapse(r, c)

ProjectSpec == ProjectInit /\ [][ProjectNext]_vars

-----------------------------------------------------------------------------
(* Properties *)

\* Everything has its shape.
ProjectTypeOK ==
    /\ plan \in Plans /\ runs \in 0..MaxRuns
    /\ pc \in {"idle", "stage", "serial", "parallel", "record", "dag", "finish"}
    /\ prior \in [RunId -> 0..MaxRuns]
    /\ registry \in [Key -> Ref]
    /\ running \subseteq Case /\ wave \subseteq Case /\ prepared \subseteq Case
    /\ holds \in [Case -> 0..MaxRuns] /\ awaits \in [Case -> 0..MaxRuns]
    /\ leases \subseteq RunId \X Case
    /\ \A c \in Case : results[c].status \in Status /\ results[c].ref \in Ref

\* The coordinator, its manifest and the DAG never drift apart: a DAG Case runs
\* only after every dependency succeeded in this run or the one resumed from, a
\* DAG stage is never stuck ("cannot make progress"), and whatever artifact a
\* Case may take in was published by a success the manifests record.
RegistryBacked ==
    pc # "idle" => \A k \in Key : registry[k] # None =>
        LET c == registry[k][2]
        IN  /\ k \in {c, ArtifactOf[c]}
            /\ \/ c \in Resumed /\ manifests[prior[runs]].cases[c].ref = registry[k]
               \/ Manifest.cases[c].status \in Ok /\ Manifest.cases[c].ref = registry[k]
DagInOrder ==
    pc = "parallel" /\ Stage.policy = "dag" =>
        \A c \in running : \A d \in Dependencies(Stage)[c] :
            d \in Resumed \/ Manifest.cases[d].status = "succeeded"
DagNeverStuck ==
    pc = "dag" /\ Pending # {} =>
        Blocked # {} \/ (DagFailed # {} /\ Stage.failFast) \/ DagReady # {}
CasesRunOnBackedInputs == RegistryBacked /\ DagInOrder /\ DagNeverStuck

\* Every Case of a finished stage has its result, a run that finished "ok" has a
\* success recorded for every Case of its plan, and a process that reaches the
\* end of the plan has returned every lease it took.
Accounted ==
    /\ \A r \in RunId : manifests[r].status = "ok" =>
          \A c \in Planned : manifests[r].cases[c].status \in Ok
    /\ pc = "stage" => \A i \in 1..(at - 1) : \A c \in ToSet(plan[i].cases) :
          Manifest.cases[c].status \in Ok \cup {"failed", "skipped"}
    /\ pc \in {"stage", "finish"} => running = {} /\ \A c \in Case : <<runs, c>> \notin leases

\* A run that finished is accounted for and can be resumed, and has kept, with
\* its artifact, every success of the run it was itself resumed from.
Finished(r) == manifests[r].status \in {"ok", "failed"}
FinishedResumable ==
    /\ Accounted
    /\ \A r \in RunId : Finished(r) =>
          /\ Acceptable(r)
          /\ \A c \in Successful(prior[r]) :
                /\ manifests[r].cases[c].status = "resumed"
                /\ manifests[r].cases[c].ref = manifests[prior[r]].cases[c].ref

\* What the Project documentation says of --resume-from: while the Project is
\* unchanged the earlier attempt is resumed, however it ended.
ResumeAccepted == pc = "idle" => \A r \in 1..runs : Acceptable(r)
=============================================================================
