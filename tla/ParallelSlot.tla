----------------------------- MODULE ParallelSlot -----------------------------
(***************************************************************************)
(* PipelineOrchestrator._run_parallel: the branches of a pipeline slot run *)
(* on an executor or a pool in batches, a collector waits for them with a  *)
(* deadline, a failure or a cancellation stops what has not started, and   *)
(* what is still running keeps running after the slot has returned: all    *)
(* that holds it then is the fence on the stores it was handed.            *)
(*                                                                         *)
(* Futures (_collect_future_batch) and pool handles (_collect_pool_batch)  *)
(* are collected alike. Values, contexts and merging are left out.         *)
(***************************************************************************)
EXTENDS Integers, FiniteSets

CONSTANTS
    NumBranches,   \* operators of the slot
    WorkerLimit,   \* branches submitted at a time
    Threads,       \* threads of the executor
    StoreMethods   \* methods branches write with: "set", "apply_patch"

ASSUME SlotAssumption ==
    /\ NumBranches \in Nat \ {0} /\ WorkerLimit \in Nat \ {0} /\ Threads \in Nat \ {0}
    /\ StoreMethods \subseteq {"set", "apply_patch"}

VARIABLES
    policy,      \* strict, cancel_on_error, is there a deadline?
    parentSet,   \* the cancel event of the caller
    control,     \* _PipelineRunControl: _event set, _active
    branch,      \* [Branch -> state of its future]
    writing,     \* [Branch -> "no", "allowed" (past the fence), "done"]
    branchStored,      \* branches whose write reached the store
    slot,        \* what the collector does
    start,       \* first branch of the current batch
    pending,     \* futures not collected yet
    successes,   \* branches with a result
    failures,    \* ParallelBranchFailure records
    abort,       \* has cancel_pending been called?
    overdue      \* has the deadline passed?

slotVars == <<policy, parentSet, control, branch, writing, branchStored, slot, start, pending,
              successes, failures, abort, overdue>>

collectVars == <<slot, start, pending, successes, failures, abort>>

Branch == 1..NumBranches
Done == {"ok", "failed", "cancelled"}

SlotInit ==
    /\ policy \in [strict : BOOLEAN, cancelOnError : BOOLEAN, deadline : BOOLEAN]
    /\ parentSet = FALSE
    /\ control = [event |-> FALSE, active |-> TRUE]
    /\ branch = [b \in Branch |-> "new"]
    /\ writing = [b \in Branch |-> "no"]
    /\ branchStored = {} /\ slot = "submit" /\ start = 1
    /\ pending = {} /\ successes = {} /\ failures = {}
    /\ abort = FALSE /\ overdue = FALSE

\* _PipelineRunControl.is_set
IsSet == control.event \/ parentSet

\* assert_writable, and the methods the fenced handle guards with it.
MutatingMethods == {"set"}
Writable(method) == method \in MutatingMethods => control.active /\ ~IsSet

-----------------------------------------------------------------------------
(* Branches.                                                               *)

Running == {b \in Branch : branch[b] = "running"}

\* run_op begins on a thread of the executor.
StartBranch(b) ==
    /\ branch[b] = "queued" /\ Cardinality(Running) < Threads
    /\ branch' = [branch EXCEPT ![b] = IF IsSet THEN "failed" ELSE "running"]
    /\ UNCHANGED <<policy, parentSet, control, writing, branchStored, overdue>>
    /\ UNCHANGED collectVars

\* The operator writes to a store of its context: the fence first ...
BranchWrites(b, method) ==
    /\ branch[b] = "running" /\ writing[b] = "no"
    /\ writing' = [writing EXCEPT ![b] = IF Writable(method) THEN "allowed" ELSE "done"]
    /\ UNCHANGED <<policy, parentSet, control, branch, branchStored, overdue>>
    /\ UNCHANGED collectVars

\* ... then the store.
BranchStores(b) ==
    /\ writing[b] = "allowed"
    /\ writing' = [writing EXCEPT ![b] = "done"]
    /\ branchStored' = branchStored \cup {b}
    /\ UNCHANGED <<policy, parentSet, control, branch, overdue>>
    /\ UNCHANGED collectVars

\* The operator cancels the whole run through pipeline.cancel_event.
BranchCancels(b) ==
    /\ branch[b] = "running" /\ ~control.event
    /\ control' = [control EXCEPT !.event = TRUE]
    /\ UNCHANGED <<policy, parentSet, branch, writing, branchStored, overdue>>
    /\ UNCHANGED collectVars

\* The operator raises, or returns: a result after a cancellation is refused.
BranchEnds(b, how) ==
    /\ branch[b] = "running" /\ writing[b] # "allowed"
    /\ how = "ok" => ~IsSet
    /\ branch' = [branch EXCEPT ![b] = how]
    /\ UNCHANGED <<policy, parentSet, control, writing, branchStored, overdue>>
    /\ UNCHANGED collectVars

ParentCancels ==
    /\ ~parentSet
    /\ parentSet' = TRUE
    /\ UNCHANGED <<policy, control, branch, writing, branchStored, overdue>>
    /\ UNCHANGED collectVars

DeadlinePasses ==
    /\ policy.deadline /\ ~overdue
    /\ overdue' = TRUE
    /\ UNCHANGED <<policy, parentSet, control, branch, writing, branchStored>>
    /\ UNCHANGED collectVars

-----------------------------------------------------------------------------
(* The collector, in the thread that runs the slot.                        *)

BranchFailure(b, cancelled, running) ==
    [index |-> b, cancelled |-> cancelled, stillRunning |-> running]

SubmitBranch ==
    LET batch == {b \in Branch : start <= b /\ b < start + WorkerLimit}
    IN  /\ slot = "submit"
        /\ branch' = [b \in Branch |-> IF b \in batch THEN "queued" ELSE branch[b]]
        /\ pending' = batch
        /\ slot' = "collect"
        /\ UNCHANGED <<policy, parentSet, control, writing, branchStored, start, successes, failures,
                       abort, overdue>>

\* cancel_pending begins: the control is set first.
CancelBatch ==
    /\ slot' = "cancel" /\ abort' = TRUE
    /\ control' = [control EXCEPT !.event = TRUE]

\* The loop finds a cancellation or the deadline.
CollectStops ==
    /\ slot = "collect" /\ pending # {} /\ (IsSet \/ overdue)
    /\ CancelBatch
    /\ UNCHANGED <<policy, parentSet, branch, writing, branchStored, start, pending, successes,
                   failures, overdue>>

\* wait() returns the futures that are done by now. In strict mode a failure
\* among them cancels the rest of the batch.
CollectDone ==
    LET done == {b \in pending : branch[b] \in Done}
        failed == {b \in done : branch[b] = "failed"}
    IN  /\ slot = "collect" /\ done # {}
        /\ pending' = pending \ done
        /\ successes' = successes \cup (done \ failed)
        /\ failures' = failures \cup {BranchFailure(b, FALSE, FALSE) : b \in failed}
        /\ IF failed # {} /\ policy.strict /\ policy.cancelOnError /\ pending' # {}
           THEN CancelBatch
           ELSE UNCHANGED <<slot, abort, control>>
        /\ UNCHANGED <<policy, parentSet, branch, writing, branchStored, start, overdue>>

\* Mutant: a future that could not be cancelled counts as finished.
CancelOneAsDone(b) ==
    /\ slot = "cancel" /\ b \in pending
    /\ branch' = [branch EXCEPT ![b] = IF @ = "queued" THEN "cancelled" ELSE @]
    /\ failures' = failures \cup {BranchFailure(b, branch[b] = "queued", FALSE)}
    /\ pending' = pending \ {b}
    /\ UNCHANGED <<policy, parentSet, control, writing, branchStored, slot, start, successes, abort,
                   overdue>>

\* One turn of the loop in cancel_pending.
CancelOne(b) ==
    /\ slot = "cancel" /\ b \in pending
    /\ branch' = [branch EXCEPT ![b] = IF @ = "queued" THEN "cancelled" ELSE @]
    /\ failures' = failures \cup
           {BranchFailure(b, branch[b] = "queued", branch[b] = "running")}
    /\ pending' = pending \ {b}
    /\ UNCHANGED <<policy, parentSet, control, writing, branchStored, slot, start, successes, abort,
                   overdue>>

\* The batch is collected: the next one, or the end.
NextBatch ==
    /\ slot \in {"collect", "cancel"} /\ pending = {}
    /\ start' = start + WorkerLimit
    /\ slot' = IF abort \/ start' > NumBranches THEN "close" ELSE "submit"
    /\ UNCHANGED <<policy, parentSet, control, branch, writing, branchStored, pending, successes,
                   failures, abort, overdue>>

Reported == successes \cup {f.index : f \in failures}

\* Mutant: the executor is always waited for.
CloseSlotWaiting ==
    /\ slot = "close" /\ \A b \in Branch : branch[b] \notin {"queued", "running"}
    /\ control' = [control EXCEPT !.active = FALSE]
    /\ failures' = failures \cup {BranchFailure(b, TRUE, FALSE) : b \in Branch \ Reported}
    /\ slot' = "returned"
    /\ UNCHANGED <<policy, parentSet, branch, writing, branchStored, start, pending, successes,
                   abort, overdue>>

\* shutdown waits unless the run was aborted; the control is closed; branches
\* that were never submitted are reported; the slot returns or raises.
CloseSlot ==
    /\ slot = "close"
    /\ abort \/ \A b \in Branch : branch[b] \notin {"queued", "running"}
    /\ control' = [control EXCEPT !.active = FALSE]
    /\ failures' = failures \cup {BranchFailure(b, TRUE, FALSE) : b \in Branch \ Reported}
    /\ slot' = "returned"
    /\ UNCHANGED <<policy, parentSet, branch, writing, branchStored, start, pending, successes,
                   abort, overdue>>

CollectorStep ==
    \/ SubmitBranch \/ CollectStops \/ CollectDone
    \/ \E b \in Branch : CancelOne(b)
    \/ NextBatch \/ CloseSlot

SlotNext ==
    \/ CollectorStep
    \/ \E b \in Branch :
          \/ StartBranch(b) \/ BranchStores(b) \/ BranchCancels(b)
          \/ \E method \in StoreMethods : BranchWrites(b, method)
          \/ \E how \in {"ok", "failed"} : BranchEnds(b, how)
    \/ ParentCancels \/ DeadlinePasses

\* The collector's thread runs and time passes; an operator may hang.
SlotFairness == WF_slotVars(CollectorStep) /\ WF_slotVars(DeadlinePasses)

SlotSpec == SlotInit /\ [][SlotNext]_slotVars /\ SlotFairness

-----------------------------------------------------------------------------
(* Properties *)

\* The report of a slot that returned is true and stays true: every branch is
\* in it exactly once, as a result or as a failure; nothing starts later; and
\* what still runs is reported as still running.
ReportIsTrue ==
    slot = "returned" =>
        /\ Reported = Branch
        /\ Cardinality(failures) + Cardinality(successes) = NumBranches
        /\ \A b \in Branch : branch[b] # "queued"
        /\ \A b \in Running : \E f \in failures : f.index = b /\ f.stillRunning
        /\ \A b \in successes : branch[b] = "ok"

\* A slot with a deadline returns although an operator hangs for ever.
SlotReturns == policy.deadline ~> slot = "returned"

\* "mutating methods honor the run fence": no branch changes a store after
\* the slot has returned.
NoLateWrite == [][slot = "returned" => branchStored' = branchStored]_slotVars
=============================================================================
