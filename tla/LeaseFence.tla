----------------------------- MODULE LeaseFence -----------------------------
(***************************************************************************)
(* What the lease authority promises to the rest of Project L0: a table of *)
(* fences that only moves forward. Who asks, what is asked for and how     *)
(* long a caller waits is abstracted: an operation that took effect used a *)
(* clock value that is at most MaxWait old. LeaseStore implements this     *)
(* specification; BudgetAuthority is composed with it.                     *)
(***************************************************************************)
EXTENDS Integers, FiniteSets

CONSTANTS LeaseId, TTL, MaxWait, MaxTime

ASSUME FenceConstants == TTL \in Nat /\ MaxWait \in Nat /\ MaxTime \in Nat

VARIABLES
    clock,        \* the authority's clock
    fence,        \* lease_id -> [status, expires_at, token]
    nextToken     \* next fencing token

fenceVars == <<clock, fence, nextToken>>

FenceStatuses == {"none", "active", "released", "expired"}
FenceRow == [status : FenceStatuses, expires_at : Nat, token : Nat]
NoFence == [status |-> "none", expires_at |-> 0, token |-> 0]

FenceInit ==
    /\ clock = 1
    /\ fence = [l \in LeaseId |-> NoFence]
    /\ nextToken = 1

\* The clock values an operation that commits now may have read.
Recent == {n \in 0 .. clock : clock - n <= MaxWait}

InTime(row, now) == row.expires_at = 0 \/ row.expires_at > now

\* The fence is current for an observer whose clock says `now`.
FenceCurrent(l, tok, now) ==
    /\ fence[l].status = "active"
    /\ fence[l].token = tok
    /\ InTime(fence[l], now)

ExpireFences(F, now) ==
    [l \in LeaseId |-> IF F[l].status = "active" /\ ~InTime(F[l], now)
                       THEN [F[l] EXCEPT !.status = "expired"] ELSE F[l]]

Deadline(now) == IF TTL > 0 THEN now + TTL ELSE 0

\* Issuing and renewing run recovery first, in every store.
IssueFence(l, now) ==
    LET F == ExpireFences(fence, now)
    IN  /\ F[l].status = "none"
        /\ fence' = [F EXCEPT ![l] = [status     |-> "active",
                                      expires_at |-> Deadline(now),
                                      token      |-> nextToken]]
        /\ nextToken' = nextToken + 1
        /\ UNCHANGED clock

RenewFence(l, now) ==
    LET F == ExpireFences(fence, now)
    IN  /\ F[l].status = "active"
        /\ fence' = [F EXCEPT ![l] = [@ EXCEPT !.expires_at = Deadline(now)]]
        /\ UNCHANGED <<clock, nextToken>>

\* A release may end a lease whose expiry nobody has noticed yet; only the
\* Redis store looks first.
ReleaseFence(l, now) ==
    \E F \in {fence, ExpireFences(fence, now)} :
        /\ F[l].status = "active"
        /\ fence' = [F EXCEPT ![l] = [@ EXCEPT !.status = "released"]]
        /\ UNCHANGED <<clock, nextToken>>

RecoverFences(now) ==
    /\ fence' = ExpireFences(fence, now)
    /\ UNCHANGED <<clock, nextToken>>

Advance ==
    /\ clock < MaxTime
    /\ clock' = clock + 1
    /\ UNCHANGED <<fence, nextToken>>

FenceNext ==
    \/ \E l \in LeaseId, now \in Recent :
          IssueFence(l, now) \/ RenewFence(l, now) \/ ReleaseFence(l, now)
    \/ \E now \in Recent : RecoverFences(now)
    \/ Advance

FenceSpec == FenceInit /\ [][FenceNext]_fenceVars
=============================================================================
