--------------------------- MODULE BudgetDelegation ---------------------------
(***************************************************************************)
(* What CaseInvoker.invoke does with budgets: a parent Case hands part of  *)
(* its budgets to a child, the settlement journal records each delegation  *)
(* before anything is reserved, the units the child used are charged to    *)
(* the parent when the child has ended, and every invocation first sweeps  *)
(* the journal of the whole Project for delegations somebody left behind.  *)
(*                                                                         *)
(* One action is one transaction of the journal or of the budget authority *)
(* (BudgetAuthority). A delegation is a pair <<invocation, budget>>. The   *)
(* journal row and the reservation of a delegation are in two databases.   *)
(* The authority's SQLite and Redis backends follow one protocol; its      *)
(* transactions appear here as those of RedisBudgetAuthority.              *)
(***************************************************************************)
EXTENDS Integers, FiniteSets, FiniteSetsExt

CONSTANTS
    Invocation,   \* child Cases invoked
    Parent,       \* parent Case processes, each with its own L0 lease
    ParentOf,     \* [Invocation -> Parent]
    NumBudgets,   \* entries of a budget_request
    Amount,       \* units requested of each budget
    Limit,        \* limit of each parent budget
    MaxFaults,    \* bound: transient authority failures
    Overlap       \* may two invocations be under way at once?

ASSUME DelegationAssumption ==
    /\ NumBudgets \in Nat /\ Amount \in Nat \ {0} /\ Limit \in Nat /\ MaxFaults \in Nat
    /\ Overlap \in BOOLEAN
    /\ ParentOf \in [Invocation -> Parent]

VARIABLES
    step,      \* [Invocation -> where invoke() is]
    at,        \* [Invocation -> index of the budget it works on]
    sweep,     \* [Invocation -> rows of pending() left, as <<delegation, status>>]
    marks,     \* [Invocation -> the sweep's next journal write, or {}]
    undo,      \* [Invocation -> rollback writes left, as <<budget, "cancel" | "archive">>]
    used,      \* [Invocation -> charged_to_parent of the current budget]
    failed,    \* invocations that answer with a failure
    journal,   \* [delegation -> status of its settlement record]
    reserved,  \* [delegation -> the parent's reservation]
    child,     \* [delegation -> the child's budget: units spent, units it holds open]
    current,   \* parents whose lease is current
    faults     \* transient failures so far

delegationVars == <<step, at, sweep, marks, undo, used, failed, journal, reserved,
                    child, current, faults>>

Budget == 1..NumBudgets
Delegation == Invocation \X Budget
Archived == {"settled", "reclaimed"}
JournalStatus == {"none", "reserve_intent", "prepared", "settlement_ready",
                  "retry_required"} \cup Archived
Live == {"sweep", "prepare", "reserve", "mark", "rollback", "run", "usage",
         "consume", "complete", "close"}

Held(d) == ParentOf[d[1]] \in current

DelegationInit ==
    /\ step = [i \in Invocation |-> "idle"]
    /\ at = [i \in Invocation |-> 1]
    /\ sweep = [i \in Invocation |-> {}]
    /\ marks = [i \in Invocation |-> {}]
    /\ undo = [i \in Invocation |-> {}]
    /\ used = [i \in Invocation |-> 0]
    /\ failed = {}
    /\ journal = [d \in Delegation |-> "none"]
    /\ reserved = [d \in Delegation |-> [status |-> "none", completed |-> 0]]
    /\ child = [d \in Delegation |-> [spent |-> 0, open |-> 0]]
    /\ current = Parent
    /\ faults = 0

-----------------------------------------------------------------------------
(* The two databases.                                                      *)

\* _transition: a settled or reclaimed record is left as it is.
Transition(d, status) ==
    journal' = [journal EXCEPT ![d] = IF @ \in Archived THEN @ ELSE status]

\* Every read of the authority reclaims what expired leases hold.
Reclaimed(R) ==
    [d \in Delegation |-> IF R[d].status = "active" /\ ~Held(d)
                          THEN [R[d] EXCEPT !.status = "reclaimed"] ELSE R[d]]

Active(d) == reserved[d].status = "active" /\ Held(d)

\* What a budget of the parent still has to give.
RemainingOf(b) ==
    LET R == Reclaimed(reserved)
    IN  Limit - SumFunction([i \in Invocation |-> IF R[<<i, b>>].status = "active" THEN Amount
                                                 ELSE R[<<i, b>>].completed])

\* cancel: a no-op for a reservation that is not active or whose fence is gone.
CancelReservation(d) ==
    reserved' = [reserved EXCEPT ![d] = IF Active(d) THEN [@ EXCEPT !.status = "cancelled"]
                                        ELSE @]

\* complete with a final count; repeating it is answered as before.
CompletionAccepted(d, count) ==
    \/ reserved[d] = [status |-> "completed", completed |-> count]
    \/ Active(d) /\ reserved[d].completed <= count

CompleteReservation(d, count) ==
    reserved' = [reserved EXCEPT ![d] = [status |-> "completed", completed |-> count]]

\* _budget_usage_for_handle: what the child spent and what it left reserved,
\* which reclamation takes away with the lease.
ChargedToParent(d) ==
    LET total == child[d].spent + (IF Held(d) THEN child[d].open ELSE 0)
    IN  IF total < Amount THEN total ELSE Amount

-----------------------------------------------------------------------------
(* _reconcile_budget_settlements.                                          *)

\* invoke starts: pending() is read once, whoever the rows belong to.
Invoke(i) ==
    /\ step[i] = "idle" /\ ParentOf[i] \in current
    /\ Overlap \/ \A j \in Invocation : step[j] \notin Live
    /\ sweep' = [sweep EXCEPT ![i] =
                    {<<d, journal[d]>> : d \in {d \in Delegation :
                                                journal[d] \notin Archived \cup {"none"}}}]
    /\ step' = [step EXCEPT ![i] = "sweep"]
    /\ UNCHANGED <<at, marks, undo, used, failed, journal, reserved, child, current, faults>>

Sweeping(i, d, status) ==
    /\ step[i] = "sweep" /\ marks[i] = {} /\ <<d, status>> \in sweep[i]
    /\ sweep' = [sweep EXCEPT ![i] = @ \ {<<d, status>>}]
    /\ UNCHANGED <<step, at, undo, used, failed, journal, child, current>>

\* An intent nobody confirmed: its reservation, if there is one, is cancelled.
SweepIntent(i, d) ==
    /\ Sweeping(i, d, "reserve_intent")
    /\ CancelReservation(d)
    /\ marks' = [marks EXCEPT ![i] = {<<d, "reclaimed">>}]
    /\ UNCHANGED faults

\* Mutant: the reservation of a prepared record is given back, open or not.
SweepPreparedAnyway(i, d) ==
    /\ Sweeping(i, d, "prepared")
    /\ CancelReservation(d)
    /\ marks' = [marks EXCEPT ![i] = {<<d, "reclaimed">>}]
    /\ UNCHANGED faults

\* A confirmed delegation is left alone while its reservation is active.
SweepPrepared(i, d) ==
    /\ Sweeping(i, d, "prepared")
    /\ reserved' = Reclaimed(reserved)
    /\ marks' = [marks EXCEPT ![i] = IF Active(d) THEN {} ELSE {<<d, "reclaimed">>}]
    /\ UNCHANGED faults

\* A child that ended: its charge is completed, or its fence is gone.
SweepEnded(i, d) ==
    /\ \E status \in {"settlement_ready", "retry_required"} : Sweeping(i, d, status)
    /\ \/ /\ CompletionAccepted(d, ChargedToParent(d))
          /\ CompleteReservation(d, ChargedToParent(d))
          /\ marks' = [marks EXCEPT ![i] = {<<d, "settled">>}]
       \/ /\ ~CompletionAccepted(d, ChargedToParent(d))
          /\ marks' = [marks EXCEPT ![i] = {<<d, "reclaimed">>}]
          /\ UNCHANGED reserved
    /\ UNCHANGED faults

\* The authority does not answer: an intent keeps its record, an ended child
\* is marked for another try.
SweepFault(i, d, status) ==
    /\ faults < MaxFaults
    /\ Sweeping(i, d, status)
    /\ marks' = [marks EXCEPT ![i] =
                    IF status \in {"reserve_intent", "prepared"} THEN {}
                    ELSE {<<d, "retry_required">>}]
    /\ faults' = faults + 1
    /\ UNCHANGED reserved

SweepMark(i) ==
    /\ step[i] = "sweep"
    /\ \E m \in marks[i] : Transition(m[1], m[2])
    /\ marks' = [marks EXCEPT ![i] = {}]
    /\ UNCHANGED <<step, at, sweep, undo, used, failed, reserved, child, current, faults>>

SweepDone(i) ==
    /\ step[i] = "sweep" /\ sweep[i] = {} /\ marks[i] = {}
    /\ step' = [step EXCEPT ![i] = IF NumBudgets = 0 THEN "run" ELSE "prepare"]
    /\ UNCHANGED <<at, sweep, marks, undo, used, failed, journal, reserved, child,
                   current, faults>>

-----------------------------------------------------------------------------
(* _delegate_budgets.                                                      *)

Mine(i) == <<i, at[i]>>

\* The except clause undoes the delegation under way (cancelling it only once
\* its claim exists) and then the ones that were complete.
Rollback(i, pending) ==
    /\ step' = [step EXCEPT ![i] = "rollback"]
    /\ undo' = [undo EXCEPT ![i] =
                   pending \cup ((1..(at[i] - 1)) \X {"cancel", "archive"})]
    /\ failed' = failed \cup {i}

\* The parent allows the request and the intent is written ahead; otherwise,
\* or when the invocation is refused before, nothing of this budget exists.
Prepare(i) ==
    /\ step[i] = "prepare"
    /\ \/ /\ RemainingOf(at[i]) >= Amount
          /\ Transition(Mine(i), "reserve_intent")
          /\ step' = [step EXCEPT ![i] = "reserve"]
          /\ UNCHANGED <<undo, failed>>
       \/ /\ RemainingOf(at[i]) < Amount \/ at[i] = 1
          /\ Rollback(i, {})
          /\ UNCHANGED journal
    /\ reserved' = Reclaimed(reserved)
    /\ UNCHANGED <<at, sweep, marks, used, child, current, faults>>

ReserveParent(i) ==
    /\ step[i] = "reserve"
    /\ \/ /\ ParentOf[i] \in current /\ RemainingOf(at[i]) >= Amount
          /\ reserved' = [Reclaimed(reserved) EXCEPT ![Mine(i)].status = "active"]
          /\ step' = [step EXCEPT ![i] = "mark"]
          /\ UNCHANGED <<undo, failed, faults>>
       \/ /\ ParentOf[i] \notin current \/ RemainingOf(at[i]) < Amount
          /\ Rollback(i, {<<at[i], "archive">>})
          /\ UNCHANGED <<reserved, faults>>
       \/ /\ faults < MaxFaults
          /\ faults' = faults + 1
          /\ Rollback(i, {<<at[i], "archive">>})
          /\ UNCHANGED reserved
    /\ UNCHANGED <<at, sweep, marks, used, journal, child, current>>

\* mark_reserved, which says nothing when the record is archived by now.
MarkReserved(i) ==
    /\ step[i] = "mark"
    /\ Transition(Mine(i), "prepared")
    /\ at' = [at EXCEPT ![i] = IF @ = NumBudgets THEN 1 ELSE @ + 1]
    /\ step' = [step EXCEPT ![i] = IF at[i] = NumBudgets THEN "run" ELSE "prepare"]
    /\ UNCHANGED <<sweep, marks, undo, used, failed, reserved, child, current, faults>>

\* Mutant: the rollback archives the records without giving the units back.
UndoNoCancel(i, b) ==
    /\ step[i] = "rollback" /\ <<b, "cancel">> \in undo[i]
    /\ undo' = [undo EXCEPT ![i] = @ \ {<<b, "cancel">>}]
    /\ UNCHANGED <<step, at, sweep, marks, used, failed, journal, reserved, child,
                   current, faults>>

UndoCancel(i, b) ==
    /\ step[i] = "rollback" /\ <<b, "cancel">> \in undo[i]
    /\ CancelReservation(<<i, b>>)
    /\ undo' = [undo EXCEPT ![i] = @ \ {<<b, "cancel">>}]
    /\ UNCHANGED <<step, at, sweep, marks, used, failed, journal, child, current, faults>>

UndoArchive(i, b) ==
    /\ step[i] = "rollback"
    /\ <<b, "archive">> \in undo[i] /\ <<b, "cancel">> \notin undo[i]
    /\ Transition(<<i, b>>, "reclaimed")
    /\ undo' = [undo EXCEPT ![i] = @ \ {<<b, "archive">>}]
    /\ UNCHANGED <<step, at, sweep, marks, used, failed, reserved, child, current, faults>>

RollbackDone(i) ==
    /\ step[i] = "rollback" /\ undo[i] = {}
    /\ step' = [step EXCEPT ![i] = "ended"]
    /\ UNCHANGED <<at, sweep, marks, undo, used, failed, journal, reserved, child,
                   current, faults>>

-----------------------------------------------------------------------------
(* The child, on a budget of its own that is fenced by the parent's lease. *)

ChildReserves(i, b) ==
    /\ step[i] = "run" /\ Held(<<i, b>>)
    /\ child[<<i, b>>].spent + child[<<i, b>>].open < Amount
    /\ child' = [child EXCEPT ![<<i, b>>].open = @ + 1]
    /\ UNCHANGED <<step, at, sweep, marks, undo, used, failed, journal, reserved,
                   current, faults>>

ChildSpends(i, b) ==
    /\ step[i] = "run" /\ Held(<<i, b>>) /\ child[<<i, b>>].open > 0
    /\ child' = [child EXCEPT ![<<i, b>>] = [spent |-> @.spent + 1, open |-> @.open - 1]]
    /\ UNCHANGED <<step, at, sweep, marks, undo, used, failed, journal, reserved,
                   current, faults>>

ChildGivesBack(i, b) ==
    /\ step[i] = "run" /\ Held(<<i, b>>) /\ child[<<i, b>>].open > 0
    /\ child' = [child EXCEPT ![<<i, b>>].open = 0]
    /\ UNCHANGED <<step, at, sweep, marks, undo, used, failed, journal, reserved,
                   current, faults>>

\* executor.execute returns, however the child ended.
ChildEnds(i) ==
    /\ step[i] = "run"
    /\ step' = [step EXCEPT ![i] = IF NumBudgets = 0 THEN "ended" ELSE "usage"]
    /\ UNCHANGED <<at, sweep, marks, undo, used, failed, journal, reserved, child,
                   current, faults>>

-----------------------------------------------------------------------------
(* _finalize_budgets.                                                      *)

NextItem(i) ==
    /\ at' = [at EXCEPT ![i] = IF @ = NumBudgets THEN 1 ELSE @ + 1]
    /\ step' = [step EXCEPT ![i] = IF at[i] = NumBudgets THEN "ended" ELSE "usage"]

\* mark_retry: this settlement is left to a later sweep.
RetryLater(i) ==
    /\ Transition(Mine(i), "retry_required")
    /\ failed' = failed \cup {i}
    /\ NextItem(i)

MarkReady(i) ==
    /\ step[i] = "usage"
    /\ Transition(Mine(i), "settlement_ready")
    /\ used' = [used EXCEPT ![i] = ChargedToParent(Mine(i))]
    /\ step' = [step EXCEPT ![i] = IF used'[i] > 0 THEN "consume" ELSE "complete"]
    /\ UNCHANGED <<at, sweep, marks, undo, failed, reserved, child, current, faults>>

ConsumeParent(i) ==
    /\ step[i] = "consume" /\ Active(Mine(i))
    /\ reserved' = [reserved EXCEPT ![Mine(i)].completed = used[i]]
    /\ step' = [step EXCEPT ![i] = "complete"]
    /\ UNCHANGED <<at, sweep, marks, undo, used, failed, journal, child, current, faults>>

CompleteParent(i) ==
    /\ step[i] = "complete" /\ CompletionAccepted(Mine(i), used[i])
    /\ CompleteReservation(Mine(i), used[i])
    /\ step' = [step EXCEPT ![i] = "close"]
    /\ UNCHANGED <<at, sweep, marks, undo, used, failed, journal, child, current, faults>>

MarkSettled(i) ==
    /\ step[i] = "close"
    /\ Transition(Mine(i), "settled")
    /\ NextItem(i)
    /\ UNCHANGED <<sweep, marks, undo, used, failed, reserved, child, current, faults>>

SettlementRefused(i) ==
    /\ \/ step[i] = "consume" /\ ~Active(Mine(i))
       \/ step[i] = "complete" /\ ~CompletionAccepted(Mine(i), used[i])
    /\ RetryLater(i)
    /\ UNCHANGED <<sweep, marks, undo, used, reserved, child, current, faults>>

SettlementFault(i) ==
    /\ step[i] \in {"usage", "consume", "complete"}
    /\ faults < MaxFaults
    /\ faults' = faults + 1
    /\ RetryLater(i)
    /\ UNCHANGED <<sweep, marks, undo, used, reserved, child, current>>

-----------------------------------------------------------------------------

\* The parent's process dies with every invocation it had under way.
ParentCrashes(p) ==
    /\ \E i \in Invocation : ParentOf[i] = p /\ step[i] \in Live
    /\ step' = [i \in Invocation |-> IF ParentOf[i] = p THEN "dead" ELSE step[i]]
    /\ UNCHANGED <<at, sweep, marks, undo, used, failed, journal, reserved, child,
                   current, faults>>

LeaseLost(p) ==
    /\ p \in current
    /\ current' = current \ {p}
    /\ UNCHANGED <<step, at, sweep, marks, undo, used, failed, journal, reserved, child,
                   faults>>

Invoking(i) ==
    \/ Invoke(i) \/ SweepMark(i) \/ SweepDone(i)
    \/ \E d \in Delegation :
          \/ SweepIntent(i, d) \/ SweepPrepared(i, d) \/ SweepEnded(i, d)
          \/ \E status \in JournalStatus : SweepFault(i, d, status)
    \/ Prepare(i) \/ ReserveParent(i) \/ MarkReserved(i) \/ RollbackDone(i)
    \/ \E b \in Budget : UndoCancel(i, b) \/ UndoArchive(i, b)
    \/ \E b \in Budget : ChildReserves(i, b) \/ ChildSpends(i, b) \/ ChildGivesBack(i, b)
    \/ ChildEnds(i)
    \/ MarkReady(i) \/ ConsumeParent(i) \/ CompleteParent(i) \/ MarkSettled(i)
    \/ SettlementRefused(i) \/ SettlementFault(i)

DelegationNext ==
    \/ \E i \in Invocation : Invoking(i)
    \/ \E p \in Parent : ParentCrashes(p) \/ LeaseLost(p)

DelegationSpec == DelegationInit /\ [][DelegationNext]_delegationVars

-----------------------------------------------------------------------------
(* Properties *)

\* The code's own units are always covered: as long as the parent's lease is
\* current, what a child has spent is reserved or charged in the parent's
\* budget, through crashes, sweeps of other invocations and retried
\* settlements. Otherwise the parent could hand the same units out again.
ChildSpendBacked ==
    \A d \in Delegation :
        Held(d) => child[d].spent <= (IF reserved[d].status = "active" THEN Amount
                                      ELSE reserved[d].completed)

\* A record says "settled" only when the parent was charged, once, for
\* exactly what the child spent and left reserved, whoever settled it. And
\* no debt is invisible: once the journal has archived a delegation, its
\* reservation no longer holds units of a parent whose lease is current.
SettledIsCharged ==
    \A d \in Delegation :
        /\ journal[d] = "settled" =>
               reserved[d] = [status |-> "completed",
                              completed |-> child[d].spent + child[d].open]
        /\ journal[d] \in Archived => ~Active(d)
=============================================================================
