----------------------------- MODULE CaseStages -----------------------------
(***************************************************************************)
(* CaseStageRunner: a Case runs groups of child Cases, one by one or in    *)
(* parallel on an executor view of its pool, and passes on the artifacts   *)
(* they publish. The threads of the pool, the children and the heartbeat   *)
(* of the stage's cancellation control run beside the collecting thread.   *)
(*                                                                         *)
(* Of the executor view (PoolExecutor) only what its futures go through is *)
(* kept: queued, handed to a thread (launched), running, done. A cancelled *)
(* future counts as finished for wait() once a thread has tried to run it  *)
(* ("notified"); one that is taken out of the queue never is ("dropped").  *)
(* A child hears a request on its path before the row of the request runs  *)
(* out (CancellationControl). Each child publishes at most one artifact.   *)
(***************************************************************************)
EXTENDS Integers, Sequences, SequencesExt, FiniteSets

CONSTANTS
    StagePlans,   \* sequences of stages: parallel, failFast, workers, calls; a
                  \* call has a name, needs, gives and is endless or not
    MaxCalls      \* bound: calls of a stage

ASSUME StagesAssumption ==
    /\ MaxCalls \in Nat
    /\ \A plan \in StagePlans :
          /\ Len(plan) \in Nat
          /\ \A k \in 1..Len(plan) : Len(plan[k].calls) \in 1..MaxCalls

VARIABLES
    stagePlan,     \* CaseStageRunner.stages
    stageAt,       \* index of the stage
    callAt,        \* index of the call of a serial stage, or of the merging loop
    stageStep,     \* what run() is doing
    failing,       \* is an exception under way?
    future,        \* [call -> state of its future; "running" of a serial call]
    outcome,       \* [call -> status of the CaseRunResult its invocation returned]
    inflight,      \* calls a thread of the view has been given
    uncollected,   \* pending
    results,       \* calls with a result, in the order of the dictionary
    stopped,       \* stopped (early)
    toCancel,      \* siblings that are about to be cancelled
    stageCancel,   \* cancellation requested on the stage's control
    caseCancel,    \* cancellation requested on the Case's path
    beat,          \* heartbeat of the stage's control
    grace,         \* cancellation_deadline: none, armed or passed
    overdueCalls,  \* cancellation_overdue
    artifacts,     \* _artifacts: <<call name or "", artifact>> -> <<stage, call>>
    recorded       \* _results: [call -> status] of the stages that returned

stageVars == <<stagePlan, stageAt, callAt, stageStep, failing, future, outcome, inflight,
               uncollected, results, stopped, toCancel, stageCancel, caseCancel, beat, grace,
               overdueCalls, artifacts, recorded>>

\* What belongs to the calls of one stage.
batchVars == <<future, outcome, inflight, uncollected, results, stopped, toCancel,
               stageCancel, beat, grace, overdueCalls>>

StageInit ==
    /\ stagePlan \in StagePlans /\ stageAt = 0 /\ callAt = 0
    /\ stageStep = "between" /\ failing = FALSE
    /\ future = [c \in 1..MaxCalls |-> "none"]
    /\ outcome = [c \in 1..MaxCalls |-> "none"]
    /\ inflight = {} /\ uncollected = {} /\ results = <<>> /\ stopped = FALSE
    /\ toCancel = {} /\ stageCancel = FALSE /\ caseCancel = FALSE
    /\ beat = "off" /\ grace = "none" /\ overdueCalls = {}
    /\ artifacts = <<>> /\ recorded = <<>>

StageNow == stagePlan[stageAt]
StageCalls == StageNow.calls
Unfinished == {"queued", "launched", "condemned", "running"}

-----------------------------------------------------------------------------
(* Artifacts.                                                              *)

\* build_request: every artifact a call is bound to is there.
Buildable(call) == call.needs \subseteq DOMAIN artifacts

\* _merge_artifacts of a call that succeeded: under its qualified name, which
\* must be new, and under the bare name unless that is taken.
Publishes(c, statuses) == statuses[c] = "ok" /\ StageCalls[c].gives # ""

QualifiedName(c) == <<StageCalls[c].name, StageCalls[c].gives>>
BareName(c) == <<"", StageCalls[c].gives>>

Clashes(c, statuses) == Publishes(c, statuses) /\ QualifiedName(c) \in DOMAIN artifacts

Merged(c, statuses) ==
    IF Publishes(c, statuses) /\ ~Clashes(c, statuses)
    THEN [n \in DOMAIN artifacts \cup {QualifiedName(c), BareName(c)} |->
             IF n \in DOMAIN artifacts THEN artifacts[n] ELSE <<stageAt, c>>]
    ELSE artifacts

\* Mutant: in the order in which the results came in.
MergeOrderResults == results

\* The calls of a parallel stage are merged in the order of the stage.
MergeOrder == [c \in 1..Len(StageCalls) |-> c]

-----------------------------------------------------------------------------
(* run().                                                                  *)

AllOk(statuses) == \A c \in 1..Len(StageCalls) : statuses[c] = "ok"

\* The stage returned: its result is kept, and a failure may end the run.
Record(statuses) ==
    /\ recorded' = Append(recorded, statuses)
    /\ stageStep' = CASE caseCancel -> "raised"
                      [] ~AllOk(statuses) /\ StageNow.failFast -> "over"
                      [] OTHER -> "between"

\* A parallel stage builds the requests of all its calls from one snapshot.
BeginStage ==
    /\ stageStep = "between" /\ stageAt < Len(stagePlan)
    /\ stageAt' = stageAt + 1 /\ callAt' = 1
    /\ LET stage == stagePlan[stageAt + 1]
       IN  stageStep' =
             CASE caseCancel -> "raised"
               [] ~stage.parallel -> "serial"
               [] OTHER -> IF \A c \in 1..Len(stage.calls) : Buildable(stage.calls[c])
                           THEN "opening" ELSE "raised"
    /\ future' = [c \in 1..MaxCalls |-> "none"]
    /\ outcome' = [c \in 1..MaxCalls |-> "none"]
    /\ uncollected' = {} /\ results' = <<>> /\ stopped' = FALSE /\ stageCancel' = FALSE
    /\ grace' = "none" /\ overdueCalls' = {}
    /\ UNCHANGED <<stagePlan, failing, inflight, toCancel, caseCancel, beat, artifacts,
                   recorded>>

EndRun ==
    /\ stageStep = "between" /\ stageAt = Len(stagePlan)
    /\ stageStep' = "over"
    /\ UNCHANGED <<stagePlan, stageAt, callAt, failing, caseCancel, artifacts, recorded>>
    /\ UNCHANGED batchVars

-----------------------------------------------------------------------------
(* A serial stage.                                                         *)

SerialInvoke ==
    /\ stageStep = "serial" /\ future[callAt] = "none"
    /\ IF caseCancel \/ ~Buildable(StageCalls[callAt])
       THEN stageStep' = "raised" /\ UNCHANGED future
       ELSE future' = [future EXCEPT ![callAt] = "running"] /\ UNCHANGED stageStep
    /\ UNCHANGED <<stagePlan, stageAt, callAt, failing, outcome, inflight, uncollected,
                   results, stopped, toCancel, stageCancel, caseCancel, beat, grace,
                   overdueCalls, artifacts, recorded>>

\* invoke ends with a checkpoint, so that a cancelled Case gets no result.
SerialReturns ==
    LET clash == Clashes(callAt, outcome)
        stops == outcome[callAt] # "ok" /\ StageNow.failFast
    IN  /\ stageStep = "serial" /\ future[callAt] = "done"
        /\ IF caseCancel
           THEN stageStep' = "raised" /\ UNCHANGED <<artifacts, results, stopped, callAt,
                                                     recorded>>
           ELSE /\ results' = Append(results, callAt)
                /\ artifacts' = Merged(callAt, outcome)
                /\ stopped' = stops
                /\ CASE clash -> stageStep' = "raised" /\ UNCHANGED <<callAt, recorded>>
                     [] ~clash /\ (stops \/ callAt = Len(StageCalls)) ->
                            Record(outcome) /\ UNCHANGED callAt
                     [] OTHER -> callAt' = callAt + 1 /\ UNCHANGED <<stageStep, recorded>>
        /\ UNCHANGED <<stagePlan, stageAt, failing, future, outcome, inflight, uncollected,
                       toCancel, stageCancel, caseCancel, beat, grace, overdueCalls>>

-----------------------------------------------------------------------------
(* The children and the threads they run on.                               *)

\* An endless child only ends when it is cancelled. A Case that has been
\* cancelled sees the result of no child: the checkpoint after it raises.
CallEnds(c, status) ==
    /\ future[c] = "running"
    /\ status \in IF caseCancel THEN {"failed"}
                  ELSE (IF StageCalls[c].endless THEN {} ELSE {"ok", "failed"})
                       \cup (IF stageCancel THEN {"cancelled"} ELSE {})
    /\ future' = [future EXCEPT ![c] = "done"]
    /\ outcome' = [outcome EXCEPT ![c] = status]
    /\ UNCHANGED <<stagePlan, stageAt, callAt, stageStep, failing, inflight, uncollected,
                   results, stopped, toCancel, stageCancel, caseCancel, beat, grace,
                   overdueCalls, artifacts, recorded>>

\* The thread tries to run the call; a future cancelled by then is notified.
StartCall(c) ==
    /\ future[c] \in {"launched", "condemned"}
    /\ future' = [future EXCEPT ![c] = IF @ = "launched" THEN "running" ELSE "notified"]
    /\ UNCHANGED <<stagePlan, stageAt, callAt, stageStep, failing, outcome, inflight,
                   uncollected, results, stopped, toCancel, stageCancel, caseCancel, beat, grace,
                   overdueCalls, artifacts, recorded>>

\* _underlying_done: the thread is given the first call still in the queue.
ThreadDone(c) ==
    LET queue == {d \in 1..MaxCalls : future[d] = "queued"}
        next == {d \in queue : \A e \in queue : d <= e}
    IN  /\ c \in inflight /\ future[c] \in {"done", "notified"}
        /\ inflight' = (inflight \ {c}) \cup next
        /\ future' = [d \in 1..MaxCalls |-> IF d \in next THEN "launched" ELSE future[d]]
        /\ UNCHANGED <<stagePlan, stageAt, callAt, stageStep, failing, outcome, uncollected,
                       results, stopped, toCancel, stageCancel, caseCancel, beat, grace,
                       overdueCalls, artifacts, recorded>>

CancelCase ==
    /\ ~caseCancel /\ caseCancel' = TRUE
    /\ UNCHANGED <<stagePlan, stageAt, callAt, stageStep, failing, artifacts, recorded>>
    /\ UNCHANGED batchVars

\* The heartbeat could not extend the control of the stage.
BeatLost ==
    /\ beat = "live" /\ beat' = "lost"
    /\ UNCHANGED <<stagePlan, stageAt, callAt, stageStep, failing, future, outcome, inflight,
                   uncollected, results, stopped, toCancel, stageCancel, caseCancel, grace,
                   overdueCalls, artifacts, recorded>>

GracePasses ==
    /\ grace = "armed" /\ grace' = "passed"
    /\ UNCHANGED <<stagePlan, stageAt, callAt, stageStep, failing, future, outcome, inflight,
                   uncollected, results, stopped, toCancel, stageCancel, caseCancel, beat,
                   overdueCalls, artifacts, recorded>>

-----------------------------------------------------------------------------
(* The thread of a parallel stage.                                         *)

\* _future_result: a call that was cancelled before it ran has a result too.
FutureResult(c) == IF future[c] = "notified" THEN "cancelled" ELSE outcome[c]
FutureResults == [c \in 1..MaxCalls |-> FutureResult(c)]

\* The heartbeat starts, or raises; then all calls are submitted.
OpenStage ==
    LET calls == 1..Len(StageCalls)
        launched == {c \in calls : c <= StageNow.workers}
    IN  /\ stageStep = "opening"
        /\ \/ /\ stageStep' = "collecting" /\ beat' = "live"
              /\ future' = [c \in 1..MaxCalls |->
                               CASE c \in launched -> "launched"
                                 [] c \in calls \ launched -> "queued"
                                 [] OTHER -> "none"]
              /\ inflight' = launched /\ uncollected' = calls
              /\ UNCHANGED failing
           \/ /\ stageStep' = "cleanup" /\ failing' = TRUE
              /\ UNCHANGED <<beat, future, inflight, uncollected>>
        /\ UNCHANGED <<stagePlan, stageAt, callAt, outcome, results, stopped, toCancel,
                       stageCancel, caseCancel, grace, overdueCalls, artifacts, recorded>>

\* A lost heartbeat, or a Case found cancelled while nothing is finished,
\* raises: the view is left, which waits for the calls it still has.
CollectRaises ==
    /\ stageStep = "collecting" /\ toCancel = {} /\ uncollected # {}
    /\ \/ beat = "lost"
       \/ caseCancel /\ \A c \in uncollected : future[c] \notin {"done", "notified"}
    /\ stageStep' = "joining" /\ failing' = TRUE
    /\ UNCHANGED <<stagePlan, stageAt, callAt, caseCancel, artifacts, recorded>>
    /\ UNCHANGED batchVars

\* One round of the loop: what is finished is collected, in any order, and the
\* first failure cancels the siblings that are left.
CollectCalls(order) ==
    LET finished == {c \in uncollected : future[c] \in {"done", "notified"}}
        fails == /\ StageNow.failFast /\ ~stopped
                 /\ \E c \in finished : FutureResult(c) # "ok"
    IN  /\ stageStep = "collecting" /\ toCancel = {} /\ beat = "live"
        /\ ToSet(order) = finished /\ Len(order) = Cardinality(finished)
        /\ finished # {} \/ (grace = "passed" /\ ~caseCancel)
        /\ uncollected' = uncollected \ finished
        /\ results' = results \o order
        /\ overdueCalls' = IF grace = "passed"
                           THEN overdueCalls \cup {c \in uncollected :
                                                      future[c] \in Unfinished \ {"condemned"}}
                           ELSE overdueCalls
        /\ grace' = IF fails THEN "armed" ELSE IF grace = "passed" THEN "none" ELSE grace
        /\ stopped' = (stopped \/ fails)
        /\ stageCancel' = (stageCancel \/ fails)
        /\ toCancel' = IF fails THEN uncollected \ finished ELSE {}
        /\ UNCHANGED <<stagePlan, stageAt, callAt, stageStep, failing, future, outcome,
                       inflight, caseCancel, beat, artifacts, recorded>>

\* sibling.cancel(): a call that runs goes on.
CancelSibling(c) ==
    /\ stageStep = "collecting" /\ c \in toCancel
    /\ toCancel' = toCancel \ {c}
    /\ future' = [future EXCEPT ![c] = CASE @ = "queued" -> "dropped"
                                         [] @ = "launched" -> "condemned"
                                         [] OTHER -> @]
    /\ UNCHANGED <<stagePlan, stageAt, callAt, stageStep, failing, outcome, inflight,
                   uncollected, results, stopped, stageCancel, caseCancel, beat, grace,
                   overdueCalls, artifacts, recorded>>

LeaveView ==
    /\ stageStep = "collecting" /\ uncollected = {}
    /\ stageStep' = "joining"
    /\ UNCHANGED <<stagePlan, stageAt, callAt, failing, caseCancel, artifacts, recorded>>
    /\ UNCHANGED batchVars

\* Mutant: the view is closed without waiting for its threads.
JoinStageEarly ==
    LET fails == failing \/ beat = "lost"
    IN  /\ stageStep = "joining"
        /\ failing' = fails
        /\ stageStep' = (IF fails THEN "cleanup" ELSE "merging") /\ callAt' = 1
        /\ UNCHANGED <<stagePlan, stageAt, caseCancel, artifacts, recorded>>
        /\ UNCHANGED batchVars

\* The view's shutdown(wait=True), which starts what is still queued and waits
\* for all of it; then the heartbeat is asked once more.
JoinStage ==
    LET fails == failing \/ beat = "lost"
    IN  /\ stageStep = "joining"
        /\ inflight = {} /\ \A c \in 1..MaxCalls : future[c] \notin Unfinished
        /\ failing' = fails
        /\ stageStep' = (IF fails THEN "cleanup" ELSE "merging") /\ callAt' = 1
        /\ UNCHANGED <<stagePlan, stageAt, caseCancel, artifacts, recorded>>
        /\ UNCHANGED batchVars

\* One call of the loop that merges the artifacts: a name that is published
\* twice raises, and leaves what was merged before it.
MergeCall ==
    LET c == MergeOrder[callAt]
        ends == Clashes(c, FutureResults) \/ callAt = Len(StageCalls)
    IN  /\ stageStep = "merging"
        /\ artifacts' = Merged(c, FutureResults)
        /\ failing' = Clashes(c, FutureResults)
        /\ stageStep' = (IF ends THEN "cleanup" ELSE "merging")
        /\ callAt' = (IF ends THEN callAt ELSE callAt + 1)
        /\ UNCHANGED <<stagePlan, stageAt, caseCancel, recorded>>
        /\ UNCHANGED batchVars

\* The heartbeat is closed and the control retired, which may fail.
CleanUp(retired) ==
    /\ stageStep = "cleanup"
    /\ beat' = "off"
    /\ IF failing \/ ~retired THEN stageStep' = "raised" /\ UNCHANGED recorded
       ELSE Record(FutureResults)
    /\ UNCHANGED <<stagePlan, stageAt, callAt, failing, future, outcome, inflight,
                   uncollected, results, stopped, toCancel, stageCancel, caseCancel, grace,
                   overdueCalls, artifacts>>

-----------------------------------------------------------------------------

RunnerThread ==
    \/ BeginStage \/ EndRun \/ SerialInvoke \/ SerialReturns \/ OpenStage \/ CollectRaises
    \/ \E order \in UNION {[1..n -> 1..MaxCalls] : n \in 0..MaxCalls} : CollectCalls(order)
    \/ \E c \in 1..MaxCalls : CancelSibling(c)
    \/ LeaveView \/ JoinStage \/ MergeCall \/ \E retired \in BOOLEAN : CleanUp(retired)

CallThread(c) ==
    \/ StartCall(c) \/ ThreadDone(c)
    \/ \E status \in {"ok", "failed", "cancelled"} : CallEnds(c, status)

StageNext ==
    \/ RunnerThread
    \/ \E c \in 1..MaxCalls : CallThread(c)
    \/ CancelCase \/ BeatLost \/ GracePasses

\* The runner and the threads of the pool are scheduled, and a child that may
\* end does.
StageFairness ==
    WF_stageVars(RunnerThread) /\ \A c \in 1..MaxCalls : WF_stageVars(CallThread(c))

StageSpec == StageInit /\ [][StageNext]_stageVars /\ StageFairness

-----------------------------------------------------------------------------
(* Properties *)

\* Which child an artifact name stands for does not depend on which children
\* finished first: it is the first child of the plan, stage by stage and call
\* by call, that succeeded and published the name.
MergeIgnoresTiming ==
    LET call(place) == stagePlan[place[1]].calls[place[2]]
        places == {place \in (1..Len(recorded)) \X (1..MaxCalls) :
                      /\ place[2] <= Len(stagePlan[place[1]].calls)
                      /\ recorded[place[1]][place[2]] = "ok" /\ call(place).gives # ""}
        names == UNION {{<<call(place).name, call(place).gives>>, <<"", call(place).gives>>} :
                           place \in places}
        earlier(p, q) == p[1] < q[1] \/ (p[1] = q[1] /\ p[2] <= q[2])
        publishers(n) == {place \in places : /\ call(place).gives = n[2]
                                             /\ n[1] \in {"", call(place).name}}
    IN  stageStep \in {"between", "over"} =>
            /\ DOMAIN artifacts = names
            /\ \A n \in names : /\ artifacts[n] \in publishers(n)
                                /\ \A p \in publishers(n) : earlier(artifacts[n], p)

\* Structured concurrency: whether a stage returns or raises, none of its
\* children is queued or running any more when its control is retired.
StageJoins ==
    stageStep \in {"merging", "cleanup", "between", "over", "raised"} =>
        inflight = {} /\ \A c \in 1..MaxCalls : future[c] \notin Unfinished

\* A stage that stopped at its first failure, and told its children to stop,
\* comes to an end.
StageReturns == stopped ~> stageStep \in {"between", "over", "raised"}
=============================================================================
