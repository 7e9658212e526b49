----------------------------- MODULE LeaseStore -----------------------------
(***************************************************************************)
(* The Project L0 lease authority: SQLiteLeaseStore, RedisLeaseStore and   *)
(* InMemoryLeaseStore behind one ResourceAllocator with a strict policy.   *)
(*                                                                         *)
(* A client call has two steps, because the code reads the clock first and *)
(* only then waits for the store's lock: the Call* actions capture `now`,  *)
(* the transaction actions run under the lock with that captured value (or *)
(* with a fresh one, in the methods that read the clock inside the lock).  *)
(* The lock makes each transaction one atomic step.                        *)
(***************************************************************************)
EXTENDS Integers, FiniteSets, FiniteSetsExt

CONSTANTS
    Client,       \* processes or threads calling the store
    LeaseId,      \* the uuid-based lease ids
    NoLease,      \* the lease of a call that names none
    Resource,     \* additive quantities the policy caps: workers, threads, ...
    Limit,        \* [Resource -> Nat]: the policy/offer caps
    Request,      \* the requests clients make: [demand, device_tokens]
    TTL,          \* lease_ttl_seconds; 0 means leases never expire
    MaxWait,      \* longest lock wait: busy_timeout / blocking_timeout
    Skew,         \* how far a client's wall clock is ahead of Redis TIME
    MaxTime,      \* bound on the clock
    Backend       \* which store: "sqlite", "redis" or "memory"

Devices == UNION {q.device_tokens : q \in Request}

ASSUME LeaseConstants ==
    /\ IsFiniteSet(LeaseId)
    /\ NoLease \notin LeaseId
    /\ Request # {}
    /\ Limit \in [Resource -> Nat]
    /\ \A q \in Request : q.demand \in [Resource -> Nat]
    /\ \A q \in Request : q = [demand        |-> q.demand,
                               device_tokens |-> q.device_tokens]
    /\ TTL \in Nat /\ MaxWait \in Nat /\ Skew \in Nat /\ MaxTime \in Nat
    /\ Backend \in {"sqlite", "redis", "memory"}

VARIABLES
    clock,        \* the store's clock (time.time() or Redis TIME)
    rows,         \* lease_id -> its row; status "none" is a missing row
    nextToken,    \* next_fencing_token
    calls         \* client -> the call it has in progress

leaseVars == <<clock, rows, nextToken, calls>>

NoRequest == CHOOSE q \in Request : TRUE
Ops == {"idle", "acquire", "renew", "release", "is_current", "list", "recover"}
Statuses == {"none", "active", "released", "expired"}

Row == [status : Statuses, expires_at : Nat, fencing_token : Nat,
        demand : [Resource -> Nat], device_tokens : SUBSET Devices]
CallRecord == [op : Ops, lease : LeaseId \cup {NoLease}, token : Nat,
               req : Request, now : Nat]

NoRow == [status |-> "none", expires_at |-> 0, fencing_token |-> 0,
          demand |-> [r \in Resource |-> 0], device_tokens |-> {}]
Idle == [op |-> "idle", lease |-> NoLease, token |-> 0, req |-> NoRequest,
         now |-> 0]

LeaseInit ==
    /\ clock = 1
    /\ rows = [l \in LeaseId |-> NoRow]
    /\ nextToken = 1
    /\ calls = [c \in Client |-> Idle]

-----------------------------------------------------------------------------
(* Reading rows *)

Unexpired(row, now) == row.expires_at = 0 \/ row.expires_at > now

\* _expire_locked: every active row whose time has come is marked expired.
Expire(R, now) ==
    [l \in LeaseId |-> IF R[l].status = "active" /\ ~Unexpired(R[l], now)
                       THEN [R[l] EXCEPT !.status = "expired"] ELSE R[l]]

\* The clock a ResourceLease's `active` property reads in a client process.
WallClock == IF Backend = "redis" THEN clock + Skew ELSE clock

\* ResourceLease.active
Active(row) == row.status = "active" /\ Unexpired(row, WallClock)

\* The rows admission validates against: SQLite selects on the status column,
\* Redis and the in-memory store filter on ResourceLease.active.
ActiveLeases(R) ==
    {l \in LeaseId : IF Backend = "sqlite" THEN R[l].status = "active"
                     ELSE Active(R[l])}

\* Methods that read the clock under the lock instead of before it.
FreshOps ==
    CASE Backend = "sqlite" -> {"recover"}
      [] Backend = "redis"  -> {"is_current", "list", "recover"}
      [] Backend = "memory" -> Ops

NowOf(call) == IF call.op \in FreshOps THEN clock ELSE call.now

Total(R, S, r) == SumFunctionOnSet([l \in LeaseId |-> R[l].demand[r]], S)

\* Mutants: the request itself is not counted; device tokens are not compared.
FitsWithoutRequest(R, q, active) ==
    /\ \A r \in Resource : Total(R, active, r) <= Limit[r]
    /\ \A l \in active : R[l].device_tokens \cap q.device_tokens = {}
FitsWithoutDevices(R, q, active) ==
    \A r \in Resource : Total(R, active, r) + q.demand[r] <= Limit[r]

\* ResourceAllocator._validate_aggregate_budget, with exclusive device tokens.
FitsBudget(R, q, active) ==
    /\ \A r \in Resource : Total(R, active, r) + q.demand[r] <= Limit[r]
    /\ \A l \in active : R[l].device_tokens \cap q.device_tokens = {}

ExpiryFrom(now) == IF TTL > 0 THEN now + TTL ELSE 0

-----------------------------------------------------------------------------
(* Calls: the part of each method before the lock *)

Known == {l \in LeaseId : rows[l].status # "none"}
Fresh == {l \in LeaseId : /\ rows[l].status = "none"
                          /\ \A c \in Client : calls[c].op = "acquire" => calls[c].lease # l}

Begin(c, op, l, tok, q) ==
    /\ calls[c].op = "idle"
    /\ calls' = [calls EXCEPT ![c] = [op |-> op, lease |-> l, token |-> tok,
                                      req |-> q, now |-> clock]]
    /\ UNCHANGED <<clock, rows, nextToken>>

CallAcquire(c, l, q) == l \in Fresh /\ Begin(c, "acquire", l, 0, q)

\* Renewals and fence checks carry a token; so does a release of a
\* ResourceLease. A release by lease id alone passes none (0 here).
CallRenew(c, l, tok) == l \in Known /\ Begin(c, "renew", l, tok, NoRequest)
CallRelease(c, l, tok) == l \in Known /\ Begin(c, "release", l, tok, NoRequest)
CallIsCurrent(c, l, tok) == l \in Known /\ Begin(c, "is_current", l, tok, NoRequest)
CallScan(c, op) == op \in {"list", "recover"} /\ Begin(c, op, NoLease, 0, NoRequest)

-----------------------------------------------------------------------------
(* Transactions: the part under the lock *)

Return(c) == calls' = [calls EXCEPT ![c] = Idle]

\* Mutant: the wait for the lock has no timeout.
GrantedAnyTime(c, op) ==
    /\ calls[c].op = op
    /\ Return(c)
    /\ UNCHANGED clock

\* The client got the lock before its timeout.
Granted(c, op) ==
    /\ calls[c].op = op
    /\ clock - calls[c].now <= MaxWait
    /\ Return(c)
    /\ UNCHANGED clock

\* acquire_lease: expire, validate, issue the next fence, insert the row. A
\* request that does not fit raises; SQLite then rolls the expiry back.
Acquire(c) ==
    LET call   == calls[c]
        now    == NowOf(call)
        R      == Expire(rows, now)
    IN  /\ Granted(c, "acquire")
        /\ \/ /\ FitsBudget(R, call.req, ActiveLeases(R))
              /\ rows' = [R EXCEPT ![call.lease] =
                            [status        |-> "active",
                             expires_at    |-> ExpiryFrom(now),
                             fencing_token |-> nextToken,
                             demand        |-> call.req.demand,
                             device_tokens |-> call.req.device_tokens]]
              /\ nextToken' = nextToken + 1
           \/ /\ ~FitsBudget(R, call.req, ActiveLeases(R))
              /\ rows' = IF Backend = "sqlite" THEN rows ELSE R
              /\ UNCHANGED nextToken

Renew(c) ==
    LET call == calls[c]
        R    == Expire(rows, NowOf(call))
        row  == R[call.lease]
    IN  /\ Granted(c, "renew")
        /\ rows' = IF row.status = "active" /\ row.fencing_token = call.token
                   THEN [R EXCEPT ![call.lease].expires_at = ExpiryFrom(NowOf(call))]
                   ELSE R
        /\ UNCHANGED nextToken

\* Only Redis expires before a release.
Release(c) ==
    LET call == calls[c]
        R    == IF Backend = "redis" THEN Expire(rows, NowOf(call)) ELSE rows
        row  == R[call.lease]
    IN  /\ Granted(c, "release")
        /\ rows' = IF row.status = "active" /\ call.token \in {0, row.fencing_token}
                   THEN [R EXCEPT ![call.lease].status = "released"]
                   ELSE R
        /\ UNCHANGED nextToken

\* Mutant: the status column is not compared.
IsCurrentAnyStatus(R, call) ==
    LET row == R[call.lease]
    IN  /\ row.fencing_token = call.token
        /\ Unexpired(row, IF Backend = "sqlite" THEN call.now ELSE WallClock)

\* What is_current answers; SQLite's is a plain read.
IsCurrentAnswer(R, call) ==
    LET row == R[call.lease]
    IN  /\ row.status = "active"
        /\ row.fencing_token = call.token
        /\ Unexpired(row, IF Backend = "sqlite" THEN call.now ELSE WallClock)

IsCurrent(c) ==
    /\ Granted(c, "is_current")
    /\ rows' = IF Backend = "sqlite" THEN rows ELSE Expire(rows, NowOf(calls[c]))
    /\ UNCHANGED nextToken

\* get, list and recover_expired change nothing but expiry.
Scan(c) ==
    /\ \E op \in {"list", "recover"} : Granted(c, op)
    /\ rows' = Expire(rows, NowOf(calls[c]))
    /\ UNCHANGED nextToken

\* The lock wait times out, or the client dies before its commit.
Abandon(c) ==
    /\ calls[c].op # "idle"
    /\ Return(c)
    /\ UNCHANGED <<clock, rows, nextToken>>

Tick ==
    /\ clock < MaxTime
    /\ clock' = clock + 1
    /\ UNCHANGED <<rows, nextToken, calls>>

Issued == 1 .. nextToken - 1

LeaseNext ==
    \/ \E c \in Client :
          \/ \E l \in LeaseId, q \in Request : CallAcquire(c, l, q)
          \/ \E l \in LeaseId, tok \in Issued : CallRenew(c, l, tok)
          \/ \E l \in LeaseId, tok \in Issued \cup {0} : CallRelease(c, l, tok)
          \/ \E l \in LeaseId, tok \in Issued : CallIsCurrent(c, l, tok)
          \/ \E op \in {"list", "recover"} : CallScan(c, op)
          \/ Acquire(c)
          \/ Renew(c)
          \/ Release(c)
          \/ IsCurrent(c)
          \/ Scan(c)
          \/ Abandon(c)
    \/ Tick

LeaseSpec == LeaseInit /\ [][LeaseNext]_leaseVars

-----------------------------------------------------------------------------
(* Properties *)

\* Rows, calls and the fencing counter keep their shapes.
LeaseTypeOK ==
    /\ clock \in Nat
    /\ rows \in [LeaseId -> Row]
    /\ nextToken \in Nat \ {0}
    /\ calls \in [Client -> CallRecord]

\* A lease that has authority now: what a fresh is_current would answer.
Current(l) == rows[l].status = "active" /\ Unexpired(rows[l], clock)
CurrentLeases == {l \in LeaseId : Current(l)}

\* However calls wait, expire and interleave, the leases with authority never
\* add up to more than the policy allows ("independent Project processes
\* cannot both authorize the same last unit of capacity").
CapacityRespected ==
    \A r \in Resource : Total(rows, CurrentLeases, r) <= Limit[r]

\* A fence once overtaken stays overtaken: after a lease on the same device
\* has been issued with a higher token, the older lease has no authority,
\* whatever renewals of it are still on their way.
Overtaken(l, m) ==
    /\ 0 < rows[l].fencing_token
    /\ rows[l].fencing_token < rows[m].fencing_token
    /\ rows[l].device_tokens \cap rows[m].device_tokens # {}
OvertakenIsDead == \A l, m \in LeaseId : Overtaken(l, m) => ~Current(l)

\* is_current may say yes for a moment longer than the clock allows (its `now`
\* is older than its read), but never for a lease whose device has meanwhile
\* been issued to somebody else.
YesIsExclusive ==
    \A c \in Client :
        LET call == calls[c]
            R    == IF Backend = "sqlite" THEN rows ELSE Expire(rows, NowOf(call))
        IN  /\ call.op = "is_current"
            /\ clock - call.now <= MaxWait
            /\ IsCurrentAnswer(R, call)
            => \A m \in LeaseId : ~Overtaken(call.lease, m)

\* No two leases ever share a fence, and a newly issued fence is above every
\* earlier one, also across releases, expiries and refused requests.
FencesIncrease ==
    [][\A l \in LeaseId :
          rows'[l].fencing_token # rows[l].fencing_token
             => \A m \in LeaseId : rows'[l].fencing_token > rows[m].fencing_token]_leaseVars

\* Authority that ended does not come back: a released or expired lease is
\* never renewed, re-issued or turned into the other ending.
EndedStaysEnded ==
    [][\A l \in LeaseId :
          rows[l].status \in {"released", "expired"} => rows'[l] = rows[l]]_leaseVars

\* The rows as the rest of the system sees them: fences.
FencesOf(R) == [l \in LeaseId |-> [status     |-> R[l].status,
                                   expires_at |-> R[l].expires_at,
                                   token      |-> R[l].fencing_token]]
Fences == INSTANCE LeaseFence WITH fence <- FencesOf(rows)

\* Every store implements the fence table that budgets and claims rely on:
\* recovery precedes issuing and renewing, and no operation acts on a clock
\* value older than the longest lock wait.
ImplementsFences == Fences!FenceSpec
=============================================================================
