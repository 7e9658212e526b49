------------------------------ MODULE L0Runtime ------------------------------
(***************************************************************************)
(* ProjectL0Runtime and ResourceLeaseGuard: the Project process acquires a *)
(* lease for each Case, a heartbeat thread renews it while the Case runs,  *)
(* the result counts only if the fence is still current, and the lease is  *)
(* released. The runtime also issues cancellation controls to many threads *)
(* and retires what is left of them when it is closed.                     *)
(*                                                                         *)
(* The lease authority (LeaseStore) is reduced to the status of each row,  *)
(* the control store (CancellationControl) to live and retired rows.       *)
(***************************************************************************)
EXTENDS Integers, FiniteSets

CONSTANTS
    CaseRun,       \* Cases of the Project
    Slots,         \* Cases the offer has room for
    ControlRef,       \* controls asked for
    MaxErrors      \* bound: calls to an authority that raise

ASSUME RuntimeAssumption == Slots \in Nat /\ MaxErrors \in Nat

VARIABLES
    run,        \* [CaseRun -> what the runner does for it]
    row,        \* [CaseRun -> status of its lease at the authority]
    beat,       \* [CaseRun -> heartbeat thread of its guard]
    stop,       \* guards whose _stop is set
    lost,       \* guards whose _lost is set
    accepted,   \* Cases whose result was accepted
    errors,     \* calls that raised so far
    ctl,        \* [ControlRef -> what the thread that asked for it does]
    stored,     \* [ControlRef -> its row in the control store]
    issued,     \* _issued_cancellation_refs
    closing,    \* where close() is
    toRetire    \* refs that close() still has to retire

runtimeVars == <<run, row, beat, stop, lost, accepted, errors, ctl, stored, issued,
                 closing, toRetire>>

guardVars == <<run, row, beat, stop, lost, accepted>>
refVars == <<ctl, stored, issued, closing, toRetire>>

RuntimeInit ==
    /\ run = [c \in CaseRun |-> "new"]
    /\ row = [c \in CaseRun |-> "none"]
    /\ beat = [c \in CaseRun |-> "none"]
    /\ stop = {} /\ lost = {} /\ accepted = {} /\ errors = 0
    /\ ctl = [k \in ControlRef |-> "none"]
    /\ stored = [k \in ControlRef |-> "none"]
    /\ issued = {} /\ closing = "open" /\ toRetire = {}

Raises == errors < MaxErrors /\ errors' = errors + 1

-----------------------------------------------------------------------------
(* Leases and their guards.                                                *)

Leased == {c \in CaseRun : row[c] = "active"}

\* acquire_case
AcquireCase(c) ==
    /\ run[c] = "new" /\ Cardinality(Leased) < Slots
    /\ run' = [run EXCEPT ![c] = "leased"]
    /\ row' = [row EXCEPT ![c] = "active"]
    /\ UNCHANGED <<beat, stop, lost, accepted, errors>>
    /\ UNCHANGED refVars

\* start_lease_guard renews at once: a lease that is gone makes a lost guard
\* without a thread. When it raises, nobody releases the lease.
StartLeaseGuard(c) ==
    /\ run[c] = "leased"
    /\ \/ /\ row[c] = "active"
          /\ beat' = [beat EXCEPT ![c] = "waiting"]
          /\ run' = [run EXCEPT ![c] = "running"]
          /\ UNCHANGED <<lost, errors>>
       \/ /\ row[c] # "active"
          /\ lost' = lost \cup {c}
          /\ run' = [run EXCEPT ![c] = "running"]
          /\ UNCHANGED <<beat, errors>>
       \/ /\ Raises
          /\ run' = [run EXCEPT ![c] = "abandoned"]
          /\ UNCHANGED <<beat, lost>>
    /\ UNCHANGED <<row, stop, accepted>>
    /\ UNCHANGED refVars

\* Mutant: the thread does not look at _stop.
GuardBeatAlways(c) ==
    /\ beat[c] = "waiting"
    /\ beat' = [beat EXCEPT ![c] = "renewing"]
    /\ UNCHANGED <<run, row, stop, lost, accepted, errors>>
    /\ UNCHANGED refVars

\* The interval is over: the thread sees _stop, or starts a renewal.
GuardBeat(c) ==
    /\ beat[c] = "waiting"
    /\ beat' = [beat EXCEPT ![c] = IF c \in stop THEN "ended" ELSE "renewing"]
    /\ UNCHANGED <<run, row, stop, lost, accepted, errors>>
    /\ UNCHANGED refVars

\* renew answers, or raises and ends the thread without a trace.
BeatAnswered(c) ==
    /\ beat[c] = "renewing"
    /\ \/ /\ row[c] = "active"
          /\ beat' = [beat EXCEPT ![c] = "waiting"]
          /\ UNCHANGED <<lost, errors>>
       \/ /\ row[c] # "active"
          /\ beat' = [beat EXCEPT ![c] = "ended"] /\ lost' = lost \cup {c}
          /\ UNCHANGED errors
       \/ Raises /\ beat' = [beat EXCEPT ![c] = "ended"] /\ UNCHANGED lost
    /\ UNCHANGED <<run, row, stop, accepted>>
    /\ UNCHANGED refVars

\* Mutant: the guard trusts its heartbeat.
GuardNotLost(c) == c \notin lost

\* assert_current: what the heartbeat noticed, and the authority's word.
GuardIsCurrent(c) == c \notin lost /\ row[c] = "active"

\* The Case ended; the lease lock keeps the check out of a running renewal.
JudgeResult(c) ==
    /\ run[c] = "running" /\ beat[c] # "renewing"
    /\ accepted' = IF GuardIsCurrent(c) THEN accepted \cup {c} ELSE accepted
    /\ run' = [run EXCEPT ![c] = "judged"]
    /\ UNCHANGED <<row, beat, stop, lost, errors>>
    /\ UNCHANGED refVars

\* close of the guard, which waits for the thread at most two intervals.
CloseGuard(c) ==
    /\ run[c] = "judged"
    /\ stop' = stop \cup {c}
    /\ run' = [run EXCEPT ![c] = "closed"]
    /\ UNCHANGED <<row, beat, lost, accepted, errors>>
    /\ UNCHANGED refVars

ReleaseCase(c) ==
    /\ run[c] = "closed"
    /\ \/ /\ row' = [row EXCEPT ![c] = IF @ = "active" THEN "released" ELSE @]
          /\ UNCHANGED errors
       \/ Raises /\ UNCHANGED row
    /\ run' = [run EXCEPT ![c] = "over"]
    /\ UNCHANGED <<beat, stop, lost, accepted>>
    /\ UNCHANGED refVars

\* The TTL passes without a renewal: nobody renews, or the renewer is late.
LeaseRunsOut(c) ==
    /\ row[c] = "active"
    /\ row' = [row EXCEPT ![c] = "expired"]
    /\ UNCHANGED <<run, beat, stop, lost, accepted, errors>>
    /\ UNCHANGED refVars

-----------------------------------------------------------------------------
(* Cancellation controls.                                                  *)

\* new_cancellation_ref, first half: the row is created.
CreateControl(k) ==
    /\ ctl[k] = "none"
    /\ ctl' = [ctl EXCEPT ![k] = "made"]
    /\ stored' = [stored EXCEPT ![k] = "live"]
    /\ UNCHANGED <<errors, issued, closing, toRetire>>
    /\ UNCHANGED guardVars

\* Mutant: a closed runtime still issues.
IssueAnyway(k) ==
    /\ ctl[k] = "made"
    /\ ctl' = [ctl EXCEPT ![k] = "issued"] /\ issued' = issued \cup {k}
    /\ UNCHANGED <<errors, stored, closing, toRetire>>
    /\ UNCHANGED guardVars

\* Second half, under the lock: refused once the runtime is closed.
IssueControl(k) ==
    /\ ctl[k] = "made"
    /\ \/ /\ closing = "open"
          /\ ctl' = [ctl EXCEPT ![k] = "issued"] /\ issued' = issued \cup {k}
       \/ /\ closing # "open"
          /\ ctl' = [ctl EXCEPT ![k] = "refused"] /\ UNCHANGED issued
    /\ UNCHANGED <<errors, stored, closing, toRetire>>
    /\ UNCHANGED guardVars

\* retire_cancellation: the row first, then the entry.
RetireRow(k) ==
    /\ ctl[k] = "issued"
    /\ \/ /\ stored' = [stored EXCEPT ![k] = "retired"]
          /\ ctl' = [ctl EXCEPT ![k] = "retiring"]
          /\ UNCHANGED errors
       \/ /\ Raises
          /\ ctl' = [ctl EXCEPT ![k] = "failed"]
          /\ UNCHANGED stored
    /\ UNCHANGED <<issued, closing, toRetire>>
    /\ UNCHANGED guardVars

ForgetRef(k) ==
    /\ ctl[k] = "retiring"
    /\ issued' = issued \ {k}
    /\ ctl' = [ctl EXCEPT ![k] = "retired"]
    /\ UNCHANGED <<errors, stored, closing, toRetire>>
    /\ UNCHANGED guardVars

\* close: the refs are taken over under the lock.
CloseRuntimeL0 ==
    /\ closing = "open"
    /\ closing' = "retiring"
    /\ toRetire' = issued /\ issued' = {}
    /\ UNCHANGED <<errors, ctl, stored>>
    /\ UNCHANGED guardVars

\* A failure is remembered; the other refs are retired all the same.
CloseRetires(k) ==
    /\ k \in toRetire
    /\ toRetire' = toRetire \ {k}
    /\ \/ stored' = [stored EXCEPT ![k] = "retired"] /\ UNCHANGED <<errors, closing>>
       \/ Raises /\ closing' = "failing" /\ UNCHANGED stored
    /\ UNCHANGED <<ctl, issued>>
    /\ UNCHANGED guardVars

CloseReturns ==
    /\ closing \in {"retiring", "failing"} /\ toRetire = {}
    /\ closing' = IF closing = "retiring" THEN "closed" ELSE "raised"
    /\ UNCHANGED <<errors, ctl, stored, issued, toRetire>>
    /\ UNCHANGED guardVars

RunnerStep(c) ==
    \/ AcquireCase(c) \/ StartLeaseGuard(c)
    \/ JudgeResult(c) \/ CloseGuard(c) \/ ReleaseCase(c)

HeartbeatStep(c) == GuardBeat(c) \/ BeatAnswered(c)

RuntimeNext ==
    \/ \E c \in CaseRun : RunnerStep(c) \/ HeartbeatStep(c) \/ LeaseRunsOut(c)
    \/ \E k \in ControlRef : \/ CreateControl(k) \/ IssueControl(k) \/ RetireRow(k)
                          \/ ForgetRef(k) \/ CloseRetires(k)
    \/ CloseRuntimeL0 \/ CloseReturns

\* The Case ends and the runner and the heartbeat threads go on; between two
\* renewals the lease lock is free for a whole interval, so the runner gets it.
\* A lease nobody renews any more runs out (another one may, when its renewer
\* is late).
RuntimeFairness ==
    \A c \in CaseRun :
        /\ SF_runtimeVars(RunnerStep(c)) /\ WF_runtimeVars(HeartbeatStep(c))
        /\ WF_runtimeVars(LeaseRunsOut(c) /\ beat[c] \in {"none", "ended"})

RuntimeSpec == RuntimeInit /\ [][RuntimeNext]_runtimeVars /\ RuntimeFairness

-----------------------------------------------------------------------------
(* Properties *)

\* A result counts only while its Case holds its slot: not even a heartbeat
\* that died unnoticed lets the result of an overtaken Case through.
ResultsAreFenced == [][\A c \in accepted' \ accepted : c \in Leased]_runtimeVars

\* No slot is lost for good: whatever raised on the way (the guard's start,
\* a renewal, the release), a lease comes to an end.
SlotsComeBack == \A c \in CaseRun : row[c] = "active" ~> row[c] # "active"

\* When close() returns, every control that a caller was given is retired,
\* though callers create, issue and retire controls all the while.
ControlsRetired ==
    closing = "closed" =>
        \A k \in ControlRef : ctl[k] \in {"issued", "retiring", "retired", "failed"} =>
            stored[k] = "retired"
=============================================================================
