-------------------------- MODULE LeaseStoreProofs --------------------------
(***************************************************************************)
(* TLAPS proofs about leases: LeaseStore for every set of clients, leases  *)
(* and requests, every TTL and every lock wait, and the records and the    *)
(* indexes of TaskTransport for every set of workers and tasks, on each of *)
(* the three transports.                                                   *)
(***************************************************************************)
EXTENDS LeaseStore, TaskTransport, SumTheorems, SequenceTheorems, TLAPS

\* What acquire_lease inserts is a row of the table.
LEMMA RowType ==
    /\ NoRow \in Row
    /\ \A q \in Request, e \in Nat, t \in Nat, s \in Statuses :
          [status |-> s, expires_at |-> e, fencing_token |-> t,
           demand |-> q.demand, device_tokens |-> q.device_tokens] \in Row
BY LeaseConstants DEF Row, NoRow, Statuses, Devices

\* A client that is not calling the store.
LEMMA IdleType == Idle \in CallRecord
BY LeaseConstants DEF Idle, CallRecord, Ops, NoRequest

\* Expiry recovery keeps the table a table, and only ends rows.
LEMMA ExpireType ==
    ASSUME NEW R \in [LeaseId -> Row], NEW now \in Nat
    PROVE  /\ Expire(R, now) \in [LeaseId -> Row]
           /\ \A l \in LeaseId :
                 /\ Expire(R, now)[l].fencing_token = R[l].fencing_token
                 /\ Expire(R, now)[l].device_tokens = R[l].device_tokens
                 /\ Expire(R, now)[l].demand = R[l].demand
                 /\ Expire(R, now)[l].expires_at = R[l].expires_at
                 /\ Expire(R, now)[l].status =
                       IF R[l].status = "active" /\ ~Unexpired(R[l], now)
                       THEN "expired" ELSE R[l].status
                 /\ R[l].status # "active" => Expire(R, now)[l] = R[l]
BY DEF Expire, Row, Statuses

\* Updating one field of one row touches nothing else.
LEMMA SetExpiry ==
    ASSUME NEW R \in [LeaseId -> Row], NEW k \in LeaseId, NEW e \in Nat,
           NEW Q, Q = [R EXCEPT ![k].expires_at = e]
    PROVE  /\ Q \in [LeaseId -> Row]
           /\ \A l \in LeaseId \ {k} : Q[l] = R[l]
           /\ Q[k].status = R[k].status
           /\ Q[k].fencing_token = R[k].fencing_token
           /\ Q[k].device_tokens = R[k].device_tokens
           /\ Q[k].demand = R[k].demand
           /\ Q[k].expires_at = e
<1> DEFINE row == [R[k] EXCEPT !.expires_at = e]
<1>1. Q = [R EXCEPT ![k] = row]
  OBVIOUS
<1>2. R[k] \in Row
  OBVIOUS
<1>3. /\ row \in Row
      /\ row.status = R[k].status
      /\ row.fencing_token = R[k].fencing_token
      /\ row.device_tokens = R[k].device_tokens
      /\ row.demand = R[k].demand
      /\ row.expires_at = e
  BY <1>2 DEF Row
<1> HIDE DEF row
<1> QED BY <1>1, <1>3

\* The same for a release.
LEMMA SetStatus ==
    ASSUME NEW R \in [LeaseId -> Row], NEW k \in LeaseId, NEW s \in Statuses,
           NEW Q, Q = [R EXCEPT ![k].status = s]
    PROVE  /\ Q \in [LeaseId -> Row]
           /\ \A l \in LeaseId \ {k} : Q[l] = R[l]
           /\ Q[k].status = s
           /\ Q[k].fencing_token = R[k].fencing_token
           /\ Q[k].device_tokens = R[k].device_tokens
           /\ Q[k].demand = R[k].demand
           /\ Q[k].expires_at = R[k].expires_at
<1> DEFINE row == [R[k] EXCEPT !.status = s]
<1>1. Q = [R EXCEPT ![k] = row]
  OBVIOUS
<1>2. R[k] \in Row
  OBVIOUS
<1>3. /\ row \in Row
      /\ row.status = s
      /\ row.fencing_token = R[k].fencing_token
      /\ row.device_tokens = R[k].device_tokens
      /\ row.demand = R[k].demand
      /\ row.expires_at = R[k].expires_at
  BY <1>2 DEF Row
<1> HIDE DEF row
<1> QED BY <1>1, <1>3

-----------------------------------------------------------------------------
(* The inductive invariant behind every theorem below. *)

\* A pending call was made in the past and names a lease if it needs one.
CallsSane ==
    \A c \in Client :
        /\ calls[c].now <= clock
        /\ calls[c].op \in {"acquire", "renew", "release", "is_current"}
              => calls[c].lease \in LeaseId

\* A row exists exactly when it carries a fence, and the fence is used up.
FencesUsed ==
    \A l \in LeaseId :
        /\ rows[l].status = "none" <=> rows[l].fencing_token = 0
        /\ rows[l].fencing_token < nextToken

\* A pending acquire will insert a row, never overwrite one.
InsertsFresh ==
    \A c \in Client : calls[c].op = "acquire" =>
        /\ rows[calls[c].lease].status = "none"
        /\ \A d \in Client \ {c} :
              calls[d].op = "acquire" => calls[d].lease # calls[c].lease

LeaseInv == LeaseTypeOK /\ CallsSane /\ FencesUsed /\ InsertsFresh

\* The `now` a transaction works with is a time.
LEMMA NowType ==
    ASSUME LeaseTypeOK, NEW c \in Client
    PROVE  NowOf(calls[c]) \in Nat
BY DEF NowOf, LeaseTypeOK, CallRecord

\* So is the expiry it stamps.
LEMMA ExpiryType ==
    ASSUME NEW now \in Nat
    PROVE  ExpiryFrom(now) \in Nat
BY LeaseConstants DEF ExpiryFrom

\* What every transaction may do to the rows: nothing but these four changes.
RowsOnlyAdvance(l) ==
    \/ rows'[l] = rows[l]
    \/ /\ rows[l].status = "active"
       /\ rows'[l].status \in {"active", "released", "expired"}
       /\ rows'[l].fencing_token = rows[l].fencing_token
       /\ rows'[l].device_tokens = rows[l].device_tokens
    \/ /\ rows[l].status = "none"
       /\ rows'[l].status = "active"
       /\ rows'[l].fencing_token = nextToken
       /\ nextToken' = nextToken + 1

\* The state-changing half of a transaction: types are kept, rows advance.
LEMMA TransactionEffect ==
    ASSUME LeaseInv, NEW c \in Client,
           Acquire(c) \/ Renew(c) \/ Release(c) \/ IsCurrent(c) \/ Scan(c)
    PROVE  /\ clock' = clock
           /\ calls' = [calls EXCEPT ![c] = Idle]
           /\ rows' \in [LeaseId -> Row]
           /\ nextToken' \in {nextToken, nextToken + 1}
           /\ \A l \in LeaseId : RowsOnlyAdvance(l)
           /\ \A l \in LeaseId : rows[l].status = "none" =>
                 \/ rows'[l] = rows[l]
                 \/ calls[c].op = "acquire" /\ calls[c].lease = l
<1> DEFINE now == NowOf(calls[c])
           R == Expire(rows, now)
<1>1. now \in Nat /\ ExpiryFrom(now) \in Nat
  BY NowType, ExpiryType DEF LeaseInv
<1>2. /\ R \in [LeaseId -> Row]
      /\ \A l \in LeaseId :
            /\ R[l] = rows[l] \/ rows[l].status = "active"
            /\ R[l].fencing_token = rows[l].fencing_token
            /\ R[l].device_tokens = rows[l].device_tokens
            /\ rows[l].status = "active" => R[l].status \in {"active", "expired"}
  BY <1>1, ExpireType DEF LeaseInv, LeaseTypeOK
<1>3. rows \in [LeaseId -> Row] /\ nextToken \in Nat \ {0} /\ calls[c] \in CallRecord
  BY DEF LeaseInv, LeaseTypeOK
<1> HIDE DEF R, now
<1>4. CASE Acquire(c)
  <2>1. calls[c].op = "acquire" /\ calls[c].lease \in LeaseId
        /\ rows[calls[c].lease].status = "none"
    BY <1>4 DEF Acquire, Granted, LeaseInv, CallsSane, InsertsFresh
  <2>2. /\ clock' = clock /\ calls' = [calls EXCEPT ![c] = Idle]
        /\ \/ /\ rows' = [R EXCEPT ![calls[c].lease] =
                            [status        |-> "active",
                             expires_at    |-> ExpiryFrom(now),
                             fencing_token |-> nextToken,
                             demand        |-> calls[c].req.demand,
                             device_tokens |-> calls[c].req.device_tokens]]
              /\ nextToken' = nextToken + 1
           \/ rows' \in {rows, R} /\ nextToken' = nextToken
    BY <1>4 DEF Acquire, Granted, Return, R, now
  <2>3. [status        |-> "active",
         expires_at    |-> ExpiryFrom(now),
         fencing_token |-> nextToken,
         demand        |-> calls[c].req.demand,
         device_tokens |-> calls[c].req.device_tokens] \in Row
    BY <1>1, <1>3, RowType DEF CallRecord, Statuses
  <2> QED BY <1>2, <1>3, <2>1, <2>2, <2>3 DEF RowsOnlyAdvance
<1>5. CASE Renew(c)
  <2>1. calls[c].lease \in LeaseId
    BY <1>5 DEF Renew, Granted, LeaseInv, CallsSane
  <2>2. /\ clock' = clock /\ calls' = [calls EXCEPT ![c] = Idle]
        /\ nextToken' = nextToken
        /\ \/ rows' = R
           \/ /\ R[calls[c].lease].status = "active"
              /\ rows' = [R EXCEPT ![calls[c].lease].expires_at = ExpiryFrom(now)]
    BY <1>5 DEF Renew, Granted, Return, R, now
  <2>3. /\ rows' \in [LeaseId -> Row]
        /\ \A l \in LeaseId :
              \/ rows'[l] = R[l]
              \/ /\ R[l].status = "active" /\ rows'[l].status = "active"
                 /\ rows'[l].fencing_token = R[l].fencing_token
                 /\ rows'[l].device_tokens = R[l].device_tokens
    BY <1>1, <1>2, <2>1, <2>2, SetExpiry
  <2> QED BY <1>2, <1>3, <2>2, <2>3 DEF RowsOnlyAdvance
<1>6. CASE Release(c)
  <2>1. calls[c].lease \in LeaseId
    BY <1>6 DEF Release, Granted, LeaseInv, CallsSane
  <2>2. /\ clock' = clock /\ calls' = [calls EXCEPT ![c] = Idle]
        /\ nextToken' = nextToken
        /\ \E S \in {R, rows} :
              \/ rows' = S
              \/ /\ S[calls[c].lease].status = "active"
                 /\ rows' = [S EXCEPT ![calls[c].lease].status = "released"]
    BY <1>6 DEF Release, Granted, Return, R, now
  <2>3. PICK S \in {R, rows} :
              \/ rows' = S
              \/ /\ S[calls[c].lease].status = "active"
                 /\ rows' = [S EXCEPT ![calls[c].lease].status = "released"]
    BY <2>2
  <2>4. S \in [LeaseId -> Row]
    BY <1>2, <1>3
  <2>5. /\ rows' \in [LeaseId -> Row]
        /\ \A l \in LeaseId :
              \/ rows'[l] = S[l]
              \/ /\ S[l].status = "active" /\ rows'[l].status = "released"
                 /\ rows'[l].fencing_token = S[l].fencing_token
                 /\ rows'[l].device_tokens = S[l].device_tokens
    BY <2>1, <2>3, <2>4, SetStatus DEF Statuses
  <2> QED BY <1>2, <1>3, <2>2, <2>3, <2>5 DEF RowsOnlyAdvance
<1>7. CASE IsCurrent(c)
  <2>1. /\ clock' = clock /\ calls' = [calls EXCEPT ![c] = Idle]
        /\ nextToken' = nextToken /\ rows' \in {rows, R}
    BY <1>7 DEF IsCurrent, Granted, Return, R, now
  <2> QED BY <1>2, <1>3, <2>1 DEF RowsOnlyAdvance
<1>8. CASE Scan(c)
  <2>1. /\ clock' = clock /\ calls' = [calls EXCEPT ![c] = Idle]
        /\ nextToken' = nextToken /\ rows' = R
    BY <1>8 DEF Scan, Granted, Return, R, now
  <2> QED BY <1>2, <1>3, <2>1 DEF RowsOnlyAdvance
<1> QED BY <1>4, <1>5, <1>6, <1>7, <1>8

Transaction(c) == Acquire(c) \/ Renew(c) \/ Release(c) \/ IsCurrent(c) \/ Scan(c)

\* The shape of a Call* step.
BeginStep(c) ==
    \E op \in Ops, l \in LeaseId \cup {NoLease}, tok \in Nat, q \in Request :
        /\ Begin(c, op, l, tok, q)
        /\ op \in {"acquire", "renew", "release", "is_current"} => l \in LeaseId
        /\ op = "acquire" => l \in Fresh

\* Every step of the specification has one of five shapes.
LEMMA NextShapes ==
    ASSUME LeaseTypeOK, LeaseNext
    PROVE  \/ \E c \in Client : BeginStep(c) \/ Transaction(c) \/ Abandon(c)
           \/ Tick
<1>1. NoRequest \in Request
  BY LeaseConstants DEF NoRequest
<1>2. Issued \subseteq Nat /\ 0 \in Nat
  BY DEF Issued, LeaseTypeOK
<1>3. ASSUME NEW c \in Client, NEW l \in LeaseId, NEW q \in Request,
             CallAcquire(c, l, q)
      PROVE  BeginStep(c)
  BY <1>2, <1>3 DEF CallAcquire, BeginStep, Ops
<1>4. ASSUME NEW c \in Client, NEW l \in LeaseId, NEW tok \in Issued \cup {0},
             CallRenew(c, l, tok) \/ CallRelease(c, l, tok) \/ CallIsCurrent(c, l, tok)
      PROVE  BeginStep(c)
  <2>1. PICK op \in {"renew", "release", "is_current"} : Begin(c, op, l, tok, NoRequest)
    BY <1>4 DEF CallRenew, CallRelease, CallIsCurrent
  <2> QED BY <1>1, <1>2, <2>1 DEF BeginStep, Ops
<1>5. ASSUME NEW c \in Client, NEW op \in {"list", "recover"}, CallScan(c, op)
      PROVE  BeginStep(c)
  BY <1>1, <1>2, <1>5 DEF CallScan, BeginStep, Ops
<1> QED BY <1>3, <1>4, <1>5 DEF LeaseNext, Transaction

\* An empty store satisfies the inductive invariant.
LEMMA LeaseInvInit == LeaseInit => LeaseInv
<1> SUFFICES ASSUME LeaseInit PROVE LeaseInv
  OBVIOUS
<1>1. LeaseTypeOK
  BY RowType, IdleType DEF LeaseInit, LeaseTypeOK
<1>2. CallsSane /\ InsertsFresh
  BY DEF LeaseInit, CallsSane, InsertsFresh, Idle
<1>3. FencesUsed
  BY DEF LeaseInit, FencesUsed, NoRow
<1> QED BY <1>1, <1>2, <1>3 DEF LeaseInv

\* Every step of a client, of the store or of the clock keeps it.
LEMMA LeaseInvNext == LeaseInv /\ [LeaseNext]_leaseVars => LeaseInv'
<1> SUFFICES ASSUME LeaseInv, [LeaseNext]_leaseVars PROVE LeaseInv'
  OBVIOUS
<1> USE DEF LeaseInv
<1>1. ASSUME NEW c \in Client, BeginStep(c) PROVE LeaseInv'
  <2>1. PICK op \in Ops, l \in LeaseId \cup {NoLease}, tok \in Nat, q \in Request :
            /\ Begin(c, op, l, tok, q)
            /\ op \in {"acquire", "renew", "release", "is_current"} => l \in LeaseId
            /\ op = "acquire" => l \in Fresh
    BY <1>1 DEF BeginStep
  <2> DEFINE call == [op |-> op, lease |-> l, token |-> tok, req |-> q, now |-> clock]
  <2>2. /\ calls' = [calls EXCEPT ![c] = call]
        /\ UNCHANGED <<clock, rows, nextToken>>
    BY <2>1 DEF Begin
  <2>3. call \in CallRecord
    BY DEF CallRecord, LeaseTypeOK
  <2>4. call.op = op /\ call.lease = l /\ call.now = clock
    OBVIOUS
  <2> HIDE DEF call
  <2>5. LeaseTypeOK'
    BY <2>2, <2>3 DEF LeaseTypeOK
  <2>6. CallsSane'
    BY <2>1, <2>2, <2>4 DEF CallsSane, LeaseTypeOK
  <2>7. FencesUsed'
    BY <2>2 DEF FencesUsed
  <2>8. InsertsFresh'
    BY <2>1, <2>2, <2>4 DEF InsertsFresh, Fresh, LeaseTypeOK
  <2> QED BY <2>5, <2>6, <2>7, <2>8
<1>2. ASSUME NEW c \in Client, Transaction(c) PROVE LeaseInv'
  <2>1. /\ clock' = clock
        /\ calls' = [calls EXCEPT ![c] = Idle]
        /\ rows' \in [LeaseId -> Row]
        /\ nextToken' \in {nextToken, nextToken + 1}
        /\ \A l \in LeaseId : RowsOnlyAdvance(l)
        /\ \A l \in LeaseId : rows[l].status = "none" =>
              \/ rows'[l] = rows[l]
              \/ calls[c].op = "acquire" /\ calls[c].lease = l
    BY <1>2, TransactionEffect DEF Transaction
  <2>2. LeaseTypeOK'
    BY <2>1, IdleType DEF LeaseTypeOK
  <2>3. CallsSane'
    BY <2>1 DEF CallsSane, Idle, LeaseTypeOK
  <2>4. FencesUsed'
    <3> SUFFICES ASSUME NEW l \in LeaseId
                 PROVE  /\ rows'[l].status = "none" <=> rows'[l].fencing_token = 0
                        /\ rows'[l].fencing_token < nextToken'
      BY DEF FencesUsed
    <3>1. /\ rows[l].status = "none" <=> rows[l].fencing_token = 0
          /\ rows[l].fencing_token < nextToken
          /\ rows[l].fencing_token \in Nat
          /\ nextToken \in Nat /\ nextToken > 0
      BY DEF FencesUsed, LeaseTypeOK, Row
    <3>2. RowsOnlyAdvance(l) /\ nextToken' \in {nextToken, nextToken + 1}
      BY <2>1
    <3> QED BY <3>1, <3>2 DEF RowsOnlyAdvance
  <2>5. InsertsFresh'
    BY <2>1 DEF InsertsFresh, CallsSane, Idle, LeaseTypeOK
  <2> QED BY <2>2, <2>3, <2>4, <2>5
<1>3. ASSUME NEW c \in Client, Abandon(c) PROVE LeaseInv'
  <2>1. calls' = [calls EXCEPT ![c] = Idle] /\ UNCHANGED <<clock, rows, nextToken>>
    BY <1>3 DEF Abandon, Return
  <2>2. LeaseTypeOK'
    BY <2>1, IdleType DEF LeaseTypeOK
  <2>3. CallsSane' /\ InsertsFresh'
    BY <2>1 DEF CallsSane, InsertsFresh, Idle, LeaseTypeOK
  <2>4. FencesUsed'
    BY <2>1 DEF FencesUsed
  <2> QED BY <2>2, <2>3, <2>4
<1>4. ASSUME Tick PROVE LeaseInv'
  <2>1. clock' = clock + 1 /\ UNCHANGED <<rows, nextToken, calls>>
    BY <1>4 DEF Tick
  <2>2. LeaseTypeOK' /\ FencesUsed' /\ InsertsFresh'
    BY <2>1 DEF LeaseTypeOK, FencesUsed, InsertsFresh
  <2>3. CallsSane'
    BY <2>1 DEF CallsSane, LeaseTypeOK, CallRecord
  <2> QED BY <2>2, <2>3
<1>5. ASSUME UNCHANGED leaseVars PROVE LeaseInv'
  BY <1>5 DEF leaseVars, LeaseTypeOK, CallsSane, FencesUsed, InsertsFresh
<1> QED BY <1>1, <1>2, <1>3, <1>4, <1>5, NextShapes

\* The rows, the calls and the fencing counter always have their types, in
\* all three stores.
THEOREM LeaseTypes == LeaseSpec => []LeaseTypeOK
<1>1. LeaseInv => LeaseTypeOK
  BY DEF LeaseInv
<1> QED BY <1>1, LeaseInvInit, LeaseInvNext, PTL DEF LeaseSpec

\* A call in progress read the clock in the past, a fence in the table is below
\* the counter, and an admission under way inserts an id that is not in the
\* table: what the other proofs need to know of every reachable state.
THEOREM LeaseInvariant == LeaseSpec => []LeaseInv
BY LeaseInvInit, LeaseInvNext, PTL DEF LeaseSpec

-----------------------------------------------------------------------------
(* What a step may never do, in all three stores. *)

\* A fence is issued once and above every earlier fence.
THEOREM FencesIncreaseThm == LeaseSpec => FencesIncrease
<1>1. LeaseInv /\ [LeaseNext]_leaseVars =>
        [\A l \in LeaseId :
            rows'[l].fencing_token # rows[l].fencing_token
               => \A m \in LeaseId : rows'[l].fencing_token > rows[m].fencing_token]_leaseVars
  <2> SUFFICES ASSUME LeaseInv, LeaseNext, NEW l \in LeaseId,
                      rows'[l].fencing_token # rows[l].fencing_token, NEW m \in LeaseId
               PROVE  rows'[l].fencing_token > rows[m].fencing_token
    OBVIOUS
  <2>1. PICK c \in Client : Transaction(c)
    BY NextShapes DEF LeaseInv, BeginStep, Begin, Abandon, Tick
  <2>2. RowsOnlyAdvance(l)
    BY <2>1, TransactionEffect DEF Transaction
  <2>3. rows[m].fencing_token < nextToken /\ rows[m].fencing_token \in Nat
        /\ nextToken \in Nat
    BY DEF LeaseInv, FencesUsed, LeaseTypeOK, Row
  <2> QED BY <2>2, <2>3 DEF RowsOnlyAdvance
<1> QED BY <1>1, LeaseInvariant, PTL DEF LeaseSpec, FencesIncrease

\* A lease that was released or expired is never touched again.
THEOREM EndedStaysEndedThm == LeaseSpec => EndedStaysEnded
<1>1. LeaseInv /\ [LeaseNext]_leaseVars =>
        [\A l \in LeaseId :
            rows[l].status \in {"released", "expired"} => rows'[l] = rows[l]]_leaseVars
  <2> SUFFICES ASSUME LeaseInv, LeaseNext, NEW l \in LeaseId,
                      rows[l].status \in {"released", "expired"}
               PROVE  rows'[l] = rows[l]
    OBVIOUS
  <2>1. CASE \E c \in Client : Transaction(c)
    BY <2>1, TransactionEffect DEF Transaction, RowsOnlyAdvance
  <2>2. CASE ~\E c \in Client : Transaction(c)
    BY <2>2, NextShapes DEF LeaseInv, BeginStep, Begin, Abandon, Tick
  <2> QED BY <2>1, <2>2
<1> QED BY <1>1, LeaseInvariant, PTL DEF LeaseSpec, EndedStaysEnded

-----------------------------------------------------------------------------
(* Exclusive devices. SQLite admits against the status column, so an       *)
(* unmarked lease blocks its device however stale the caller's clock is.   *)
(* The other stores admit against the wall clock; they are safe when no    *)
(* transaction uses an older clock than that: always in memory, and for    *)
(* Redis when nobody waits for the lock and the clocks agree.              *)

ClocksAgree == Backend \in {"sqlite", "memory"} \/ (MaxWait = 0 /\ Skew = 0)

\* The leases that still count as holding their devices.
Holds(l) ==
    /\ rows[l].status = "active"
    /\ Backend = "sqlite" \/ Unexpired(rows[l], clock)

OvertakenReleased == \A l, m \in LeaseId : Overtaken(l, m) => ~Holds(l)

\* When the clocks agree, a Redis or in-memory transaction works with the
\* store's own time, and so does ResourceLease.active.
LEMMA FreshClock ==
    ASSUME LeaseInv, ClocksAgree, Backend # "sqlite", NEW c \in Client,
           clock - calls[c].now <= MaxWait
    PROVE  NowOf(calls[c]) = clock /\ WallClock = clock
<1>1. /\ calls[c].op \in Ops /\ calls[c].now \in Nat /\ clock \in Nat
      /\ calls[c].now <= clock
  BY DEF LeaseInv, LeaseTypeOK, CallRecord, CallsSane
<1>2. CASE Backend = "memory"
  BY <1>1, <1>2 DEF NowOf, FreshOps, WallClock
<1>3. CASE Backend = "redis" /\ MaxWait = 0 /\ Skew = 0
  BY <1>1, <1>3 DEF NowOf, FreshOps, WallClock
<1> QED BY <1>2, <1>3, LeaseConstants DEF ClocksAgree

\* Renewals, releases, fence checks and scans create no holder.
LEMMA NoNewHolder ==
    ASSUME LeaseInv, ClocksAgree, NEW c \in Client,
           Renew(c) \/ Release(c) \/ IsCurrent(c) \/ Scan(c)
    PROVE  \A l \in LeaseId :
              /\ rows'[l].fencing_token = rows[l].fencing_token
              /\ rows'[l].device_tokens = rows[l].device_tokens
              /\ rows'[l].demand = rows[l].demand
              /\ Holds(l)' => Holds(l)
<1> DEFINE now == NowOf(calls[c])
           R == Expire(rows, now)
<1>1. now \in Nat /\ ExpiryFrom(now) \in Nat /\ clock' = clock
      /\ rows \in [LeaseId -> Row] /\ clock - calls[c].now <= MaxWait
  BY NowType, ExpiryType
     DEF LeaseInv, LeaseTypeOK, Renew, Release, IsCurrent, Scan, Granted
<1>2. Backend # "sqlite" => now = clock
  BY <1>1, FreshClock
<1>3. /\ R \in [LeaseId -> Row]
      /\ \A l \in LeaseId :
            /\ R[l].fencing_token = rows[l].fencing_token
            /\ R[l].device_tokens = rows[l].device_tokens
            /\ R[l].demand = rows[l].demand
            /\ R[l].expires_at = rows[l].expires_at
            /\ R[l].status = "active" =>
                  rows[l].status = "active" /\ Unexpired(rows[l], now)
  BY <1>1, ExpireType DEF Row, Statuses
<1> HIDE DEF R, now
<1>4. CASE rows' \in {rows, R}
  BY <1>1, <1>3, <1>4 DEF Holds, Unexpired
<1>5. CASE Renew(c)
  <2>1. calls[c].lease \in LeaseId
    BY <1>5 DEF Renew, Granted, LeaseInv, CallsSane
  <2>2. \/ rows' = R
        \/ /\ R[calls[c].lease].status = "active"
           /\ rows' = [R EXCEPT ![calls[c].lease].expires_at = ExpiryFrom(now)]
    BY <1>5 DEF Renew, R, now
  <2>3. CASE R[calls[c].lease].status = "active"
             /\ rows' = [R EXCEPT ![calls[c].lease].expires_at = ExpiryFrom(now)]
    <3>1. /\ \A l \in LeaseId \ {calls[c].lease} : rows'[l] = R[l]
          /\ rows'[calls[c].lease].fencing_token = R[calls[c].lease].fencing_token
          /\ rows'[calls[c].lease].device_tokens = R[calls[c].lease].device_tokens
          /\ rows'[calls[c].lease].demand = R[calls[c].lease].demand
      BY <1>1, <1>3, <2>1, <2>3, SetExpiry
    <3>2. Holds(calls[c].lease)
      BY <1>2, <1>3, <2>1, <2>3 DEF Holds
    <3>3. \A l \in LeaseId \ {calls[c].lease} : Holds(l)' => Holds(l)
      BY <1>1, <1>3, <3>1 DEF Holds, Unexpired
    <3> QED BY <1>3, <3>1, <3>2, <3>3
  <2> QED BY <1>4, <2>2, <2>3
<1>6. CASE Release(c)
  <2>1. calls[c].lease \in LeaseId
    BY <1>6 DEF Release, Granted, LeaseInv, CallsSane
  <2>2. PICK S \in {R, rows} :
              \/ rows' = S
              \/ rows' = [S EXCEPT ![calls[c].lease].status = "released"]
    BY <1>6 DEF Release, R, now
  <2>3. CASE rows' = [S EXCEPT ![calls[c].lease].status = "released"]
    <3>1. /\ \A l \in LeaseId \ {calls[c].lease} : rows'[l] = S[l]
          /\ rows'[calls[c].lease].fencing_token = S[calls[c].lease].fencing_token
          /\ rows'[calls[c].lease].device_tokens = S[calls[c].lease].device_tokens
          /\ rows'[calls[c].lease].demand = S[calls[c].lease].demand
          /\ rows'[calls[c].lease].status = "released"
      BY <1>1, <1>3, <2>1, <2>3, SetStatus DEF Statuses
    <3>2. \A l \in LeaseId : Holds(l)' => Holds(l)
      BY <1>1, <1>3, <3>1 DEF Holds, Unexpired
    <3> QED BY <1>3, <3>1, <3>2
  <2> QED BY <1>4, <2>2, <2>3
<1>7. CASE IsCurrent(c) \/ Scan(c)
  <2>1. rows' \in {rows, R}
    BY <1>7 DEF IsCurrent, Scan, R, now
  <2> QED BY <1>4, <2>1
<1> QED BY <1>5, <1>6, <1>7

\* Admission is where a device changes hands: every earlier holder of one of
\* the new lease's devices has stopped holding it.
LEMMA AdmissionKeepsOrder ==
    ASSUME LeaseInv, ClocksAgree, OvertakenReleased, NEW c \in Client, Acquire(c)
    PROVE  OvertakenReleased'
<1> DEFINE now == NowOf(calls[c])
           R == Expire(rows, now)
           k == calls[c].lease
           q == calls[c].req
           new == [status        |-> "active",
                   expires_at    |-> ExpiryFrom(now),
                   fencing_token |-> nextToken,
                   demand        |-> q.demand,
                   device_tokens |-> q.device_tokens]
<1>1. now \in Nat /\ clock' = clock /\ rows \in [LeaseId -> Row] /\ k \in LeaseId
      /\ clock - calls[c].now <= MaxWait /\ nextToken \in Nat
  BY NowType DEF LeaseInv, LeaseTypeOK, Acquire, Granted, CallsSane
<1>2. Backend # "sqlite" => WallClock = clock
  BY <1>1, FreshClock
<1>3. /\ R \in [LeaseId -> Row]
      /\ \A l \in LeaseId :
            /\ R[l].fencing_token = rows[l].fencing_token
            /\ R[l].device_tokens = rows[l].device_tokens
            /\ R[l].expires_at = rows[l].expires_at
            /\ R[l].status = "active" => rows[l].status = "active"
            /\ rows[l].fencing_token \in Nat
            /\ rows[l].fencing_token < nextToken
  BY <1>1, ExpireType DEF Row, Statuses, LeaseInv, FencesUsed
<1>4. \/ /\ FitsBudget(R, q, ActiveLeases(R))
         /\ rows' = [R EXCEPT ![k] = new]
      \/ rows' \in {rows, R}
  BY <1>1 DEF Acquire
<1> HIDE DEF R, now
<1>5. CASE rows' \in {rows, R}
  BY <1>1, <1>3, <1>5 DEF OvertakenReleased, Overtaken, Holds, Unexpired
<1>6. CASE FitsBudget(R, q, ActiveLeases(R)) /\ rows' = [R EXCEPT ![k] = new]
  <2>1. new.status = "active" /\ new.fencing_token = nextToken
        /\ new.device_tokens = q.device_tokens
    OBVIOUS
  <2> HIDE DEF new
  <2>2. rows'[k] = new /\ \A l \in LeaseId \ {k} : rows'[l] = R[l]
    BY <1>1, <1>3, <1>6
  <2> SUFFICES ASSUME NEW l \in LeaseId, NEW m \in LeaseId, Overtaken(l, m)'
               PROVE  ~Holds(l)'
    BY DEF OvertakenReleased
  <2>3. l # k
    <3> SUFFICES ASSUME l = k PROVE FALSE
      OBVIOUS
    <3>1. rows'[k].fencing_token < rows'[m].fencing_token
      BY DEF Overtaken
    <3> QED BY <1>1, <1>3, <2>1, <2>2, <3>1
  <2>4. CASE m = k
    <3>1. R[l].device_tokens \cap q.device_tokens # {}
      BY <2>1, <2>2, <2>3, <2>4 DEF Overtaken
    <3>2. l \notin ActiveLeases(R)
      BY <1>6, <3>1 DEF FitsBudget
    <3> QED BY <1>1, <1>2, <2>2, <2>3, <3>2 DEF ActiveLeases, Active, Holds, Unexpired
  <2>5. CASE m # k
    <3>1. Overtaken(l, m)
      BY <1>3, <2>2, <2>3, <2>5 DEF Overtaken
    <3> QED BY <1>1, <1>3, <2>2, <2>3, <3>1 DEF OvertakenReleased, Holds, Unexpired
  <2> QED BY <2>4, <2>5
<1> QED BY <1>4, <1>5, <1>6

\* No step gives a device back to a lease that was overtaken.
LEMMA OvertakenReleasedNext ==
    ASSUME LeaseInv, ClocksAgree, OvertakenReleased, [LeaseNext]_leaseVars
    PROVE  OvertakenReleased'
<1>1. ASSUME NEW c \in Client, Renew(c) \/ Release(c) \/ IsCurrent(c) \/ Scan(c)
      PROVE  OvertakenReleased'
  BY <1>1, NoNewHolder DEF OvertakenReleased, Overtaken
<1>2. ASSUME UNCHANGED <<clock, rows>> PROVE OvertakenReleased'
  BY <1>2 DEF OvertakenReleased, Overtaken, Holds, Unexpired
<1>3. ASSUME Tick PROVE OvertakenReleased'
  <2>1. /\ rows' = rows /\ clock' = clock + 1 /\ clock \in Nat
        /\ \A l \in LeaseId : rows[l].expires_at \in Nat
    BY <1>3 DEF Tick, LeaseInv, LeaseTypeOK, Row
  <2>2. \A l \in LeaseId : Holds(l)' => Holds(l)
    BY <2>1 DEF Holds, Unexpired
  <2> QED BY <2>1, <2>2 DEF OvertakenReleased, Overtaken
<1>4. ASSUME NEW c \in Client, BeginStep(c) \/ Abandon(c) PROVE UNCHANGED <<clock, rows>>
  BY <1>4 DEF BeginStep, Begin, Abandon
<1>5. (UNCHANGED leaseVars) => UNCHANGED <<clock, rows>>
  BY DEF leaseVars
<1> QED BY <1>1, <1>2, <1>3, <1>4, <1>5, AdmissionKeepsOrder, NextShapes
        DEF LeaseInv, Transaction

\* Hence an overtaken lease never holds its device.
LEMMA OvertakenReleasedAlways == ASSUME ClocksAgree PROVE LeaseSpec => []OvertakenReleased
<1>1. LeaseInit => OvertakenReleased
  BY DEF LeaseInit, OvertakenReleased, Overtaken, NoRow
<1>2. OvertakenReleased /\ LeaseInv /\ [LeaseNext]_leaseVars => OvertakenReleased'
  BY OvertakenReleasedNext
<1> QED BY <1>1, <1>2, LeaseInvariant, PTL DEF LeaseSpec

\* A device that was issued again is lost to its earlier lease for good, for
\* SQLite however long callers wait for the write lock.
THEOREM OvertakenIsDeadThm == ASSUME ClocksAgree PROVE LeaseSpec => []OvertakenIsDead
<1>1. OvertakenReleased => OvertakenIsDead
  BY DEF OvertakenReleased, OvertakenIsDead, Holds, Current
<1> QED BY <1>1, OvertakenReleasedAlways, PTL

\* is_current never says yes for a device that belongs to a newer lease.
THEOREM YesIsExclusiveThm == ASSUME ClocksAgree PROVE LeaseSpec => []YesIsExclusive
<1>1. LeaseInv /\ OvertakenReleased => YesIsExclusive
  <2> SUFFICES ASSUME LeaseInv, OvertakenReleased, NEW c \in Client,
                      calls[c].op = "is_current", clock - calls[c].now <= MaxWait,
                      IsCurrentAnswer(IF Backend = "sqlite" THEN rows
                                      ELSE Expire(rows, NowOf(calls[c])), calls[c]),
                      NEW m \in LeaseId, Overtaken(calls[c].lease, m)
               PROVE  FALSE
    BY DEF YesIsExclusive
  <2>1. calls[c].lease \in LeaseId /\ rows \in [LeaseId -> Row] /\ NowOf(calls[c]) \in Nat
    BY NowType DEF LeaseInv, CallsSane, LeaseTypeOK
  <2>2. CASE Backend = "sqlite"
    BY <2>1, <2>2 DEF IsCurrentAnswer, OvertakenReleased, Holds
  <2>3. CASE Backend # "sqlite"
    <3>1. NowOf(calls[c]) = clock /\ WallClock = clock
      BY <2>3, FreshClock
    <3>2. rows[calls[c].lease].status = "active" /\ Unexpired(rows[calls[c].lease], clock)
      BY <2>1, <2>3, <3>1, ExpireType DEF IsCurrentAnswer, Unexpired
    <3> QED BY <2>1, <2>3, <3>2 DEF OvertakenReleased, Holds
  <2> QED BY <2>2, <2>3
<1> QED BY <1>1, OvertakenReleasedAlways, LeaseInvariant, PTL

-----------------------------------------------------------------------------
(* Capacity. The sum that admission keeps below the limit is that of the   *)
(* leases that still hold: for SQLite all those whose status column says   *)
(* active, which is more than the leases with authority.                   *)

Holders == {l \in LeaseId : Holds(l)}

HeldFits == \A r \in Resource : Total(rows, Holders, r) <= Limit[r]

\* Fewer leases with the same demands do not ask for more.
LEMMA TotalShrinks ==
    ASSUME NEW R \in [LeaseId -> Row], NEW Q \in [LeaseId -> Row],
           NEW T \in SUBSET LeaseId, NEW S \in SUBSET T, NEW r \in Resource,
           \A l \in S : Q[l].demand = R[l].demand
    PROVE  /\ Total(Q, S, r) <= Total(R, T, r)
           /\ Total(Q, S, r) \in Nat /\ Total(R, T, r) \in Nat
<1> DEFINE f == [l \in LeaseId |-> Q[l].demand[r]]
           g == [l \in LeaseId |-> R[l].demand[r]]
<1>1. IsFiniteSet(T) /\ IsFiniteSet(S)
  BY LeaseConstants, FS_Subset
<1>2. \A l \in LeaseId : f[l] \in Nat /\ g[l] \in Nat
  BY DEF Row
<1>3. \A l \in S : f[l] = g[l]
  OBVIOUS
<1> HIDE DEF f, g
<1>4. SumFunctionOnSet(f, S) <= SumFunctionOnSet(g, T)
  BY <1>1, <1>2, <1>3, SumSubset
<1>5. SumFunctionOnSet(f, S) \in Nat /\ SumFunctionOnSet(g, T) \in Nat
  BY <1>1, <1>2, SumType
<1> QED BY <1>4, <1>5 DEF Total, f, g

\* The table with one more lease asks for what that lease asks for on top.
LEMMA TotalGrows ==
    ASSUME NEW Q \in [LeaseId -> Row], NEW S \in SUBSET LeaseId,
           NEW k \in LeaseId, k \notin S, NEW r \in Resource
    PROVE  Total(Q, S \cup {k}, r) = Total(Q, S, r) + Q[k].demand[r]
<1> DEFINE f == [l \in LeaseId |-> Q[l].demand[r]]
<1>1. IsFiniteSet(S)
  BY LeaseConstants, FS_Subset
<1>2. \A l \in LeaseId : f[l] \in Int
  BY DEF Row
<1>3. SumFunctionOnSet(f, S \cup {k}) = SumFunctionOnSet(f, S) + f[k]
  <2> HIDE DEF f
  <2> QED BY <1>1, <1>2, SumInsert
<1> QED BY <1>3 DEF Total

\* Admission adds a lease only when it fits on top of the ones that hold.
LEMMA AdmissionFits ==
    ASSUME LeaseInv, ClocksAgree, HeldFits, NEW c \in Client, Acquire(c)
    PROVE  HeldFits'
<1> DEFINE now == NowOf(calls[c])
           R == Expire(rows, now)
           k == calls[c].lease
           q == calls[c].req
           new == [status        |-> "active",
                   expires_at    |-> ExpiryFrom(now),
                   fencing_token |-> nextToken,
                   demand        |-> q.demand,
                   device_tokens |-> q.device_tokens]
<1>1. now \in Nat /\ clock' = clock /\ rows \in [LeaseId -> Row] /\ k \in LeaseId
      /\ clock - calls[c].now <= MaxWait /\ rows' \in [LeaseId -> Row]
  BY NowType, TransactionEffect DEF LeaseInv, LeaseTypeOK, Acquire, Granted, CallsSane
<1>2. Backend # "sqlite" => WallClock = clock
  BY <1>1, FreshClock
<1>3. /\ R \in [LeaseId -> Row]
      /\ \A l \in LeaseId :
            /\ R[l].demand = rows[l].demand
            /\ R[l].expires_at = rows[l].expires_at
            /\ R[l].status = "active" => rows[l].status = "active"
  BY <1>1, ExpireType
<1>4. \/ /\ FitsBudget(R, q, ActiveLeases(R))
         /\ rows' = [R EXCEPT ![k] = new]
      \/ rows' \in {rows, R}
  BY <1>1 DEF Acquire
<1> HIDE DEF R, now
<1> SUFFICES ASSUME NEW r \in Resource
             PROVE  Total(rows', Holders', r) <= Limit[r]
  BY DEF HeldFits, Total
<1>5. CASE rows' \in {rows, R}
  <2>1. Holders' \in SUBSET Holders /\ Holders \in SUBSET LeaseId
    BY <1>1, <1>3, <1>5 DEF Holders, Holds, Unexpired
  <2>2. \A l \in Holders' : rows'[l].demand = rows[l].demand
    BY <1>3, <1>5, <2>1
  <2>3. /\ Total(rows', Holders', r) <= Total(rows, Holders, r)
        /\ Total(rows', Holders', r) \in Nat /\ Total(rows, Holders, r) \in Nat
    BY <1>1, <2>1, <2>2, TotalShrinks
  <2>4. Limit[r] \in Nat
    BY LeaseConstants
  <2> QED BY <2>3, <2>4 DEF HeldFits
<1>6. CASE FitsBudget(R, q, ActiveLeases(R)) /\ rows' = [R EXCEPT ![k] = new]
  <2>1. new.demand = q.demand
    OBVIOUS
  <2> HIDE DEF new
  <2>2. rows'[k] = new /\ \A l \in LeaseId \ {k} : rows'[l] = R[l]
    BY <1>1, <1>3, <1>6
  <2> DEFINE S == Holders' \ {k}
  <2>3. ActiveLeases(R) \in SUBSET LeaseId /\ S \in SUBSET ActiveLeases(R)
    BY <1>1, <1>2, <2>2 DEF Holders, Holds, ActiveLeases, Active, Unexpired
  <2>4. /\ Total(rows', S, r) <= Total(R, ActiveLeases(R), r)
        /\ Total(rows', S, r) \in Nat /\ Total(R, ActiveLeases(R), r) \in Nat
    <3>1. \A l \in S : rows'[l].demand = R[l].demand
      BY <2>2, <2>3
    <3> QED BY <1>1, <1>3, <2>3, <3>1, TotalShrinks
  <2>5. Total(rows', S \cup {k}, r) = Total(rows', S, r) + rows'[k].demand[r]
    <3>1. S \in SUBSET LeaseId /\ k \notin S
      BY <2>3
    <3> HIDE DEF S, k
    <3> QED BY <1>1, <3>1, TotalGrows
  <2>6. /\ Total(rows', Holders', r) <= Total(rows', S \cup {k}, r)
        /\ Total(rows', Holders', r) \in Nat
    <3>1. S \cup {k} \in SUBSET LeaseId /\ Holders' \in SUBSET (S \cup {k})
      BY <1>1, <2>3
    <3> HIDE DEF S, k
    <3> QED BY <1>1, <3>1, TotalShrinks
  <2>7. Total(R, ActiveLeases(R), r) + q.demand[r] <= Limit[r]
    BY <1>6 DEF FitsBudget
  <2>8. rows'[k].demand[r] = q.demand[r] /\ rows'[k].demand[r] \in Nat /\ Limit[r] \in Nat
    BY <1>1, <2>1, <2>2, LeaseConstants DEF Row
  <2> HIDE DEF S, k, q
  <2> QED BY <2>4, <2>5, <2>6, <2>7, <2>8
<1> QED BY <1>4, <1>5, <1>6

\* The other steps create no holder, and time only takes holders away.
LEMMA HeldFitsNext ==
    ASSUME LeaseInv, ClocksAgree, HeldFits, [LeaseNext]_leaseVars
    PROVE  HeldFits'
<1>1. rows \in [LeaseId -> Row] /\ rows' \in [LeaseId -> Row]
  BY LeaseInvNext DEF LeaseInv, LeaseTypeOK
<1>2. ASSUME \A l \in LeaseId : /\ rows'[l].demand = rows[l].demand
                                /\ Holds(l)' => Holds(l)
      PROVE  HeldFits'
  <2> SUFFICES ASSUME NEW r \in Resource
               PROVE  Total(rows', Holders', r) <= Limit[r]
    BY DEF HeldFits, Total
  <2>1. Holders \in SUBSET LeaseId /\ Holders' \in SUBSET Holders
    BY <1>2 DEF Holders
  <2>2. /\ Total(rows', Holders', r) <= Total(rows, Holders, r)
        /\ Total(rows', Holders', r) \in Nat /\ Total(rows, Holders, r) \in Nat
    <3>1. \A l \in Holders' : rows'[l].demand = rows[l].demand
      BY <1>2, <2>1
    <3> QED BY <1>1, <2>1, <3>1, TotalShrinks
  <2>3. Total(rows, Holders, r) <= Limit[r] /\ Limit[r] \in Nat
    BY LeaseConstants DEF HeldFits
  <2> QED BY <2>2, <2>3
<1>3. ASSUME NEW c \in Client, Renew(c) \/ Release(c) \/ IsCurrent(c) \/ Scan(c)
      PROVE  HeldFits'
  BY <1>2, <1>3, NoNewHolder
<1>4. ASSUME UNCHANGED <<clock, rows>> PROVE HeldFits'
  BY <1>2, <1>4 DEF Holds, Unexpired
<1>5. ASSUME Tick PROVE HeldFits'
  <2>1. /\ rows' = rows /\ clock' = clock + 1 /\ clock \in Nat
        /\ \A l \in LeaseId : rows[l].expires_at \in Nat
    BY <1>5 DEF Tick, LeaseInv, LeaseTypeOK, Row
  <2> QED BY <1>2, <2>1 DEF Holds, Unexpired
<1>6. ASSUME NEW c \in Client, BeginStep(c) \/ Abandon(c) PROVE UNCHANGED <<clock, rows>>
  BY <1>6 DEF BeginStep, Begin, Abandon
<1>7. (UNCHANGED leaseVars) => UNCHANGED <<clock, rows>>
  BY DEF leaseVars
<1> QED BY <1>3, <1>4, <1>5, <1>6, <1>7, AdmissionFits, NextShapes DEF LeaseInv, Transaction

\* The leases with authority never add up to more than the policy allows,
\* however many processes admit, renew and release, and for SQLite however
\* long they wait for the write lock between reading the clock and committing.
THEOREM CapacityRespectedThm ==
    ASSUME ClocksAgree PROVE LeaseSpec => []CapacityRespected
<1>1. LeaseInit => HeldFits
  <2> SUFFICES ASSUME LeaseInit, NEW r \in Resource
               PROVE  Total(rows, Holders, r) <= Limit[r]
    BY DEF HeldFits
  <2>1. Holders = {}
    BY DEF LeaseInit, Holders, Holds, NoRow
  <2>2. Total(rows, Holders, r) = 0
    BY <2>1, SumEmpty DEF Total
  <2> QED BY <2>2, LeaseConstants
<1>2. HeldFits /\ LeaseInv /\ [LeaseNext]_leaseVars => HeldFits'
  BY HeldFitsNext
<1>3. LeaseInv /\ HeldFits => CapacityRespected
  <2> SUFFICES ASSUME LeaseInv, HeldFits, NEW r \in Resource
               PROVE  Total(rows, CurrentLeases, r) <= Limit[r]
    BY DEF CapacityRespected
  <2>1. /\ rows \in [LeaseId -> Row]
        /\ Holders \in SUBSET LeaseId /\ CurrentLeases \in SUBSET Holders
    BY DEF LeaseInv, LeaseTypeOK, Holders, Holds, CurrentLeases, Current
  <2>2. /\ Total(rows, CurrentLeases, r) <= Total(rows, Holders, r)
        /\ Total(rows, CurrentLeases, r) \in Nat /\ Total(rows, Holders, r) \in Nat
    BY <2>1, TotalShrinks
  <2>3. Total(rows, Holders, r) <= Limit[r] /\ Limit[r] \in Nat
    BY LeaseConstants DEF HeldFits
  <2> QED BY <2>2, <2>3
<1> QED BY <1>1, <1>2, <1>3, LeaseInvariant, PTL DEF LeaseSpec

-----------------------------------------------------------------------------
(* The stores implement LeaseFence. *)

\* The refinement mapping reads one fence off each row.
LEMMA FencesOfType ==
    ASSUME NEW R \in [LeaseId -> Row], NEW l \in LeaseId
    PROVE  /\ FencesOf(R)[l].status = R[l].status
           /\ FencesOf(R)[l].expires_at = R[l].expires_at
           /\ FencesOf(R)[l].token = R[l].fencing_token
BY DEF FencesOf

\* Recovery commutes with the view.
LEMMA ExpireCommutes ==
    ASSUME NEW R \in [LeaseId -> Row], NEW now \in Nat
    PROVE  Fences!ExpireFences(FencesOf(R), now) = FencesOf(Expire(R, now))
<1> DEFINE A == Fences!ExpireFences(FencesOf(R), now)
           B == FencesOf(Expire(R, now))
<1>1. ASSUME NEW l \in LeaseId PROVE A[l] = B[l]
  <2>1. A[l] = IF R[l].status = "active" /\ ~Unexpired(R[l], now)
               THEN [FencesOf(R)[l] EXCEPT !.status = "expired"] ELSE FencesOf(R)[l]
    BY DEF Fences!ExpireFences, Fences!InTime, FencesOf, Unexpired
  <2>2. FencesOf(R)[l] = [status     |-> R[l].status,
                          expires_at |-> R[l].expires_at,
                          token      |-> R[l].fencing_token]
    BY DEF FencesOf
  <2>3. B[l] = [status     |-> Expire(R, now)[l].status,
                expires_at |-> Expire(R, now)[l].expires_at,
                token      |-> Expire(R, now)[l].fencing_token]
    BY DEF FencesOf
  <2>4. /\ Expire(R, now)[l].fencing_token = R[l].fencing_token
        /\ Expire(R, now)[l].expires_at = R[l].expires_at
        /\ Expire(R, now)[l].status =
              IF R[l].status = "active" /\ ~Unexpired(R[l], now)
              THEN "expired" ELSE R[l].status
    BY ExpireType
  <2> HIDE DEF A, B
  <2> QED BY <2>1, <2>2, <2>3, <2>4
<1>2. A = [l \in LeaseId |-> A[l]] /\ B = [l \in LeaseId |-> B[l]]
  BY DEF Fences!ExpireFences, FencesOf
<1> HIDE DEF A, B
<1>3. A = B
  BY <1>1, <1>2
<1> QED BY <1>3 DEF A, B

\* Initial states map to initial states.
LEMMA FencesImplementedInit == LeaseInit => Fences!FenceInit
BY DEF LeaseInit, Fences!FenceInit, FencesOf, NoRow, Fences!NoFence

\* A transaction uses a time that is at most MaxWait old.
LEMMA NowIsRecent ==
    ASSUME LeaseInv, NEW c \in Client, clock - calls[c].now <= MaxWait
    PROVE  NowOf(calls[c]) \in Fences!Recent
<1>1. calls[c].now \in Nat /\ clock \in Nat /\ calls[c].now <= clock
  BY DEF LeaseInv, LeaseTypeOK, CallRecord, CallsSane
<1> QED BY <1>1, LeaseConstants DEF NowOf, Fences!Recent

\* Every step of the store is a step of the fence table or a stutter.
LEMMA FencesImplementedNext ==
    LeaseInv /\ [LeaseNext]_leaseVars => [Fences!FenceNext]_(Fences!fenceVars)
<1> SUFFICES ASSUME LeaseInv, [LeaseNext]_leaseVars
             PROVE  Fences!FenceNext \/ UNCHANGED Fences!fenceVars
  OBVIOUS
<1>1. ASSUME UNCHANGED <<clock, rows, nextToken>> PROVE UNCHANGED Fences!fenceVars
  BY <1>1 DEF Fences!fenceVars, FencesOf
<1>2. ASSUME Tick PROVE Fences!FenceNext
  BY <1>2 DEF Tick, Fences!FenceNext, Fences!Advance, FencesOf
<1>3. ASSUME NEW c \in Client, Transaction(c)
      PROVE  Fences!FenceNext \/ UNCHANGED Fences!fenceVars
  <2> DEFINE now == NowOf(calls[c])
             R == Expire(rows, now)
             k == calls[c].lease
  <2>1. /\ now \in Nat /\ ExpiryFrom(now) = Fences!Deadline(now) /\ now \in Fences!Recent
        /\ clock' = clock /\ rows \in [LeaseId -> Row]
    BY <1>3, NowType, NowIsRecent
       DEF LeaseInv, LeaseTypeOK, ExpiryFrom, Fences!Deadline, Transaction,
           Acquire, Renew, Release, IsCurrent, Scan, Granted
  <2>2. R \in [LeaseId -> Row] /\ Fences!ExpireFences(FencesOf(rows), now) = FencesOf(R)
    BY <2>1, ExpireType, ExpireCommutes
  <2> HIDE DEF R, now
  <2>3. ASSUME rows' = R, nextToken' = nextToken PROVE Fences!FenceNext
    BY <2>1, <2>2, <2>3 DEF Fences!FenceNext, Fences!RecoverFences
  <2>4. CASE Acquire(c)
    <3>1. k \in LeaseId /\ rows[k].status = "none"
      BY <2>4 DEF Acquire, Granted, LeaseInv, CallsSane, InsertsFresh
    <3>2. \/ rows' \in {rows, R} /\ nextToken' = nextToken
          \/ /\ rows' = [R EXCEPT ![k] = [status        |-> "active",
                                          expires_at    |-> ExpiryFrom(now),
                                          fencing_token |-> nextToken,
                                          demand        |-> calls[c].req.demand,
                                          device_tokens |-> calls[c].req.device_tokens]]
             /\ nextToken' = nextToken + 1
      BY <2>4 DEF Acquire, R, now
    <3>3. ASSUME rows' = [R EXCEPT ![k] = [status        |-> "active",
                                          expires_at    |-> ExpiryFrom(now),
                                          fencing_token |-> nextToken,
                                          demand        |-> calls[c].req.demand,
                                          device_tokens |-> calls[c].req.device_tokens]],
                 nextToken' = nextToken + 1
          PROVE  Fences!FenceNext
      <4>1. FencesOf(rows)' = [FencesOf(R) EXCEPT ![k] = [status     |-> "active",
                                                         expires_at |-> ExpiryFrom(now),
                                                         token      |-> nextToken]]
        BY <2>2, <3>1, <3>3 DEF FencesOf
      <4>2. FencesOf(R)[k].status = "none"
        BY <2>1, <2>2, <3>1, ExpireType, FencesOfType DEF R
      <4> QED BY <2>1, <2>2, <3>1, <3>3, <4>1, <4>2
              DEF Fences!FenceNext, Fences!IssueFence
    <3> QED BY <1>1, <2>1, <2>3, <3>2, <3>3
  <2>5. CASE Renew(c)
    <3>1. k \in LeaseId
      BY <2>5 DEF Renew, Granted, LeaseInv, CallsSane
    <3>2. /\ nextToken' = nextToken
          /\ \/ rows' = R
             \/ /\ R[k].status = "active"
                /\ rows' = [R EXCEPT ![k].expires_at = ExpiryFrom(now)]
      BY <2>5 DEF Renew, R, now
    <3>3. ASSUME R[k].status = "active", rows' = [R EXCEPT ![k].expires_at = ExpiryFrom(now)]
          PROVE  Fences!FenceNext
      <4>1. FencesOf(rows)' = [FencesOf(R) EXCEPT ![k] = [@ EXCEPT !.expires_at = ExpiryFrom(now)]]
        <5>1. /\ \A l \in LeaseId \ {k} : rows'[l] = R[l]
              /\ rows'[k].status = R[k].status
              /\ rows'[k].fencing_token = R[k].fencing_token
              /\ rows'[k].expires_at = ExpiryFrom(now)
          BY <2>1, <2>2, <3>1, <3>3, ExpiryType, SetExpiry
        <5>2. [FencesOf(R)[k] EXCEPT !.expires_at = ExpiryFrom(now)]
                = [status     |-> R[k].status,
                   expires_at |-> ExpiryFrom(now),
                   token      |-> R[k].fencing_token]
          BY <3>1 DEF FencesOf
        <5> QED BY <3>1, <5>1, <5>2 DEF FencesOf
      <4>2. FencesOf(R)[k].status = "active"
        BY <2>2, <3>1, <3>3, FencesOfType
      <4> QED BY <2>1, <2>2, <3>1, <3>2, <4>1, <4>2
              DEF Fences!FenceNext, Fences!RenewFence
    <3> QED BY <2>3, <3>2, <3>3
  <2>6. CASE Release(c)
    <3>1. k \in LeaseId
      BY <2>6 DEF Release, Granted, LeaseInv, CallsSane
    <3>2. /\ nextToken' = nextToken
          /\ \E S \in {R, rows} :
                \/ rows' = S
                \/ /\ S[k].status = "active"
                   /\ rows' = [S EXCEPT ![k].status = "released"]
      BY <2>6 DEF Release, R, now
    <3>3. ASSUME NEW S \in {R, rows}, S[k].status = "active",
                 rows' = [S EXCEPT ![k].status = "released"]
          PROVE  Fences!FenceNext
      <4>1. S \in [LeaseId -> Row]
        BY <2>1, <2>2
      <4>2. FencesOf(rows)' = [FencesOf(S) EXCEPT ![k] = [@ EXCEPT !.status = "released"]]
        BY <3>1, <3>3, <4>1 DEF FencesOf
      <4>3. FencesOf(S)[k].status = "active"
        BY <3>1, <3>3, <4>1, FencesOfType
      <4>4. FencesOf(S) \in {FencesOf(rows), Fences!ExpireFences(FencesOf(rows), now)}
        BY <2>2
      <4>5. Fences!ReleaseFence(k, now)
        BY <2>1, <3>2, <4>2, <4>3, <4>4 DEF Fences!ReleaseFence
      <4> QED BY <2>1, <3>1, <4>5 DEF Fences!FenceNext
    <3> QED BY <1>1, <2>1, <2>3, <3>2, <3>3
  <2>7. CASE IsCurrent(c) \/ Scan(c)
    <3>1. rows' \in {rows, R} /\ nextToken' = nextToken
      BY <2>7 DEF IsCurrent, Scan, R, now
    <3> QED BY <1>1, <2>1, <2>3, <3>1
  <2> QED BY <1>3, <2>4, <2>5, <2>6, <2>7 DEF Transaction
<1>4. ASSUME NEW c \in Client, BeginStep(c) \/ Abandon(c)
      PROVE  UNCHANGED <<clock, rows, nextToken>>
  BY <1>4 DEF BeginStep, Begin, Abandon
<1>5. (UNCHANGED leaseVars) => UNCHANGED <<clock, rows, nextToken>>
  BY DEF leaseVars
<1> QED BY <1>1, <1>2, <1>3, <1>4, <1>5, NextShapes DEF LeaseInv

\* All three stores, with any lock wait and any clock skew, implement the
\* abstract fence table.
THEOREM ImplementsFencesThm == LeaseSpec => ImplementsFences
BY FencesImplementedInit, FencesImplementedNext, LeaseInvariant, PTL
   DEF LeaseSpec, ImplementsFences, Fences!FenceSpec
-----------------------------------------------------------------------------
(* The queue of the transports: a sequence that lists each task of a set   *)
(* once.                                                                   *)

\* The sequence q lists the members of S, each of them once.
Lists(q, S) ==
    /\ q \in Seq(S)
    /\ \A i, j \in 1 .. Len(q) : q[i] = q[j] => i = j
    /\ \A t \in S : \E i \in 1 .. Len(q) : q[i] = t

\* The empty list and lists of one.
LEMMA ListsFew ==
    /\ Lists(<<>>, {})
    /\ \A t : Lists(<<t>>, {t})
BY DEF Lists

\* Two lists without a common member make one.
LEMMA ListsJoin ==
    ASSUME NEW p, NEW q, NEW S, NEW U, Lists(p, S), Lists(q, U), S \cap U = {}
    PROVE  Lists(p \o q, S \cup U)
<1>1. /\ p \in Seq(S \cup U) /\ q \in Seq(S \cup U)
      /\ Len(p) \in Nat /\ Len(q) \in Nat
  BY DEF Lists
<1> PICK r : r = p \o q
  OBVIOUS
<1>0. /\ \A i, j \in 1 .. Len(p) : p[i] = p[j] => i = j
      /\ \A i, j \in 1 .. Len(q) : q[i] = q[j] => i = j
      /\ \A t \in S : \E i \in 1 .. Len(p) : p[i] = t
      /\ \A t \in U : \E i \in 1 .. Len(q) : q[i] = t
  BY DEF Lists
<1>2. /\ r \in Seq(S \cup U) /\ Len(r) = Len(p) + Len(q)
      /\ \A i \in 1 .. (Len(p) + Len(q)) :
            r[i] = IF i <= Len(p) THEN p[i] ELSE q[i - Len(p)]
  BY <1>1, ConcatProperties
<1>3. \A i \in 1 .. Len(p) : i \in 1 .. Len(r) /\ r[i] = p[i] /\ r[i] \in S
  BY <1>1, <1>2 DEF Lists
<1>4. \A i \in 1 .. Len(q) :
         Len(p) + i \in 1 .. Len(r) /\ r[Len(p) + i] = q[i] /\ q[i] \in U
  <2> SUFFICES ASSUME NEW i \in 1 .. Len(q)
               PROVE  Len(p) + i \in 1 .. Len(r) /\ r[Len(p) + i] = q[i] /\ q[i] \in U
    OBVIOUS
  <2>1. /\ Len(p) + i \in 1 .. (Len(p) + Len(q)) /\ ~(Len(p) + i <= Len(p))
        /\ (Len(p) + i) - Len(p) = i
    BY <1>1
  <2>2. r[Len(p) + i] = q[(Len(p) + i) - Len(p)]
    BY <1>2, <2>1
  <2>3. q[i] \in U
    BY <1>1 DEF Lists
  <2> QED  BY <1>2, <2>1, <2>2, <2>3
<1>5. \A k \in 1 .. Len(r) : k \in 1 .. Len(p) \/ \E i \in 1 .. Len(q) : k = Len(p) + i
  <2> SUFFICES ASSUME NEW k \in 1 .. Len(r), k \notin 1 .. Len(p)
               PROVE  \E i \in 1 .. Len(q) : k = Len(p) + i
    OBVIOUS
  <2>1. k - Len(p) \in 1 .. Len(q) /\ k = Len(p) + (k - Len(p))
    BY <1>1, <1>2
  <2> QED  BY <2>1
<1>6. ASSUME NEW i \in 1 .. Len(r), NEW j \in 1 .. Len(r), r[i] = r[j]
      PROVE  i = j
  <2>1. CASE i \in 1 .. Len(p) /\ j \in 1 .. Len(p)
    BY <1>0, <1>3, <1>6, <2>1
  <2>2. CASE \E a, b \in 1 .. Len(q) : i = Len(p) + a /\ j = Len(p) + b
    <3> PICK a \in 1 .. Len(q), b \in 1 .. Len(q) : i = Len(p) + a /\ j = Len(p) + b
      BY <2>2
    <3>1. q[a] = q[b]
      BY <1>4, <1>6
    <3>2. a = b
      BY <1>0, <3>1
    <3> QED  BY <3>2
  <2>3. CASE i \in 1 .. Len(p) /\ \E b \in 1 .. Len(q) : j = Len(p) + b
    BY <1>3, <1>4, <1>6, <2>3
  <2>4. CASE j \in 1 .. Len(p) /\ \E b \in 1 .. Len(q) : i = Len(p) + b
    BY <1>3, <1>4, <1>6, <2>4
  <2> QED  BY <1>5, <2>1, <2>2, <2>3, <2>4
<1>7. ASSUME NEW t \in S \cup U
      PROVE  \E i \in 1 .. Len(r) : r[i] = t
  <2>1. CASE t \in S
    BY <1>0, <1>3, <2>1
  <2>2. CASE t \in U
    BY <1>0, <1>4, <2>2
  <2> QED  BY <2>1, <2>2
<1> QED  BY <1>2, <1>6, <1>7 DEF Lists

\* A part of a list lists the members it has.
LEMMA ListsPart ==
    ASSUME NEW q, NEW S, Lists(q, S), NEW a \in 1 .. (Len(q) + 1), NEW b \in 0 .. Len(q),
           a <= b + 1
    PROVE  Lists(SubSeq(q, a, b), {q[i] : i \in a .. b})
<1>1. q \in Seq(S) /\ Len(q) \in Nat
  BY DEF Lists
<1> PICK T : T = {q[i] : i \in a .. b}
  OBVIOUS
<1> PICK n \in Nat : n = b - a + 1
  BY <1>1
<1> PICK p : p = SubSeq(q, a, b)
  OBVIOUS
<1>2. /\ p \in Seq(S) /\ Len(p) = n
      /\ \A i \in 1 .. n : p[i] = q[a + i - 1] /\ a + i - 1 \in a .. b /\ a + i - 1 \in 1 .. Len(q)
  BY <1>1
<1>3. p \in Seq(T)
  BY <1>2
<1>4. \A i, j \in 1 .. n : p[i] = p[j] => i = j
  <2> SUFFICES ASSUME NEW i \in 1 .. n, NEW j \in 1 .. n, p[i] = p[j]
               PROVE  i = j
    OBVIOUS
  <2>0. \A x, y \in 1 .. Len(q) : q[x] = q[y] => x = y
    BY DEF Lists
  <2>1. a + i - 1 = a + j - 1
    BY <1>2, <2>0
  <2> QED  BY <2>1
<1>5. \A t \in T : \E i \in 1 .. n : p[i] = t
  <2> SUFFICES ASSUME NEW k \in a .. b
               PROVE  \E i \in 1 .. n : p[i] = q[k]
    OBVIOUS
  <2>1. k - a + 1 \in 1 .. n /\ a + (k - a + 1) - 1 = k
    OBVIOUS
  <2> QED  BY <1>2, <2>1
<1> QED  BY <1>2, <1>3, <1>4, <1>5 DEF Lists

\* A new member at any place.
LEMMA ListsInsert ==
    ASSUME NEW q, NEW S, Lists(q, S), NEW t, t \notin S, NEW k \in 1 .. (Len(q) + 1)
    PROVE  /\ Lists(InsertAt(q, k, t), S \cup {t})
           /\ Lists(Append(q, t), S \cup {t})
<1>1. q \in Seq(S) /\ Len(q) \in Nat
  BY DEF Lists
<1> PICK A : A = {q[i] : i \in 1 .. (k - 1)}
  OBVIOUS
<1> PICK B : B = {q[i] : i \in k .. Len(q)}
  OBVIOUS
<1>2. Lists(SubSeq(q, 1, k - 1), A) /\ Lists(SubSeq(q, k, Len(q)), B)
  <2>1. 1 \in 1 .. (Len(q) + 1) /\ k - 1 \in 0 .. Len(q) /\ 1 <= (k - 1) + 1
    BY <1>1
  <2>2. Len(q) \in 0 .. Len(q) /\ k <= Len(q) + 1
    BY <1>1
  <2> QED  BY <2>1, <2>2, ListsPart
<1>3. A \cup B = S /\ A \cap B = {}
  <2>1. \A i \in 1 .. Len(q) : i \in 1 .. (k - 1) \/ i \in k .. Len(q)
    BY <1>1
  <2>2. \A i \in 1 .. (k - 1) : i \in 1 .. Len(q)
    BY <1>1
  <2>3. \A i \in k .. Len(q) : i \in 1 .. Len(q)
    BY <1>1
  <2>4. \A i \in 1 .. (k - 1), j \in k .. Len(q) : i # j
    BY <1>1
  <2>5. A \subseteq S /\ B \subseteq S
    BY <1>1, <2>2, <2>3
  <2>0. /\ \A x, y \in 1 .. Len(q) : q[x] = q[y] => x = y
        /\ \A u \in S : \E i \in 1 .. Len(q) : q[i] = u
    BY DEF Lists
  <2>6. S \subseteq A \cup B
    BY <2>0, <2>1
  <2>7. A \cap B = {}
    BY <2>0, <2>2, <2>3, <2>4
  <2> QED  BY <2>5, <2>6, <2>7
<1>4. Lists(SubSeq(q, 1, k - 1) \o <<t>>, A \cup {t})
  BY <1>2, <1>3, ListsFew, ListsJoin
<1>5. Lists((SubSeq(q, 1, k - 1) \o <<t>>) \o SubSeq(q, k, Len(q)), (A \cup {t}) \cup B)
  <2>1. (A \cup {t}) \cap B = {}
    BY <1>3
  <2> QED  BY <1>2, <1>4, <2>1, ListsJoin
<1>6. (A \cup {t}) \cup B = S \cup {t}
  BY <1>3
<1>7. Append(q, t) = q \o <<t>>
  BY <1>1
<1>8. Lists(q \o <<t>>, S \cup {t})
  BY ListsFew, ListsJoin
<1> QED  BY <1>5, <1>6, <1>7, <1>8 DEF InsertAt

\* The first entry of a member is its only one.
LEMMA ListsRemove ==
    ASSUME NEW q, NEW S, Lists(q, S), NEW t \in S
    PROVE  Lists(RemoveFirst(q, t), S \ {t})
<1>1. q \in Seq(S) /\ Len(q) \in Nat
  BY DEF Lists
<1>2. PICK k \in 1 .. Len(q) : q[k] = t
  BY DEF Lists
<1> DEFINE I == {i \in 1 .. Len(q) : q[i] = t}
<1>3. \A i \in I : i = k
  BY <1>2 DEF Lists
<1>4. k \in I /\ k \in Int
  BY <1>2
<1>5. RemoveFirst(q, t) = RemoveAt(q, IF I # {} THEN Min(I) ELSE 0)
  BY <1>2, Zenon DEF RemoveFirst, SelectInSeq
<1> HIDE DEF I
<1>6. Min(I) = k
  <2>1. k \in I /\ \A i \in I : k <= i
    BY <1>3, <1>4
  <2> QED  BY <1>3, <2>1 DEF Min
<1>7. RemoveFirst(q, t) = SubSeq(q, 1, k - 1) \o SubSeq(q, k + 1, Len(q))
  BY <1>4, <1>5, <1>6 DEF RemoveAt
<1> PICK A : A = {q[i] : i \in 1 .. (k - 1)}
  OBVIOUS
<1> PICK B : B = {q[i] : i \in (k + 1) .. Len(q)}
  OBVIOUS
<1>8. Lists(SubSeq(q, 1, k - 1), A) /\ Lists(SubSeq(q, k + 1, Len(q)), B)
  <2>1. 1 \in 1 .. (Len(q) + 1) /\ k - 1 \in 0 .. Len(q) /\ 1 <= (k - 1) + 1
    BY <1>1
  <2>2. k + 1 \in 1 .. (Len(q) + 1) /\ Len(q) \in 0 .. Len(q) /\ k + 1 <= Len(q) + 1
    BY <1>1
  <2> QED  BY <2>1, <2>2, ListsPart
<1>9. A \cup B = S \ {t} /\ A \cap B = {}
  <2>1. \A i \in 1 .. Len(q) : i \in 1 .. (k - 1) \/ i \in (k + 1) .. Len(q) \/ i = k
    BY <1>1
  <2>2. \A i \in 1 .. (k - 1) : i \in 1 .. Len(q) /\ i # k
    BY <1>1
  <2>3. \A i \in (k + 1) .. Len(q) : i \in 1 .. Len(q) /\ i # k
    BY <1>1
  <2>4. \A i \in 1 .. (k - 1), j \in (k + 1) .. Len(q) : i # j
    BY <1>1
  <2>0. /\ \A x, y \in 1 .. Len(q) : q[x] = q[y] => x = y
        /\ \A u \in S : \E i \in 1 .. Len(q) : q[i] = u
        /\ \A i \in 1 .. Len(q) : q[i] \in S
    BY <1>1 DEF Lists
  <2>5. A \subseteq S \ {t}
    BY <1>2, <2>0, <2>2
  <2>6. B \subseteq S \ {t}
    BY <1>2, <2>0, <2>3
  <2>7. S \ {t} \subseteq A \cup B
    BY <1>2, <2>0, <2>1
  <2>8. A \cap B = {}
    BY <2>0, <2>2, <2>3, <2>4
  <2> QED  BY <2>5, <2>6, <2>7, <2>8
<1> QED  BY <1>7, <1>8, <1>9, ListsJoin

\* What is left of a list without some members.
LEMMA ListsWithout ==
    ASSUME NEW q, NEW S, Lists(q, S), NEW U
    PROVE  Lists(Without(q, U), S \ U)
<1> DEFINE I == {i \in 1 .. Len(q) : q[i] \notin U}
           r == [n \in 1 .. Cardinality(I) |-> q[Ranked(I, n)]]
<1>1. q \in Seq(S) /\ Len(q) \in Nat
  BY DEF Lists
<1>2. Without(q, U) = IF I = 1 .. Len(q) THEN q ELSE r
  BY DEF Without, Ranked
<1>3. I \subseteq 1 .. Len(q) /\ \A i \in I : q[i] \in S \ U
  BY <1>1
<1>4. \A i \in 1 .. Len(q) : q[i] \notin U => i \in I
  OBVIOUS
<1> HIDE DEF I
<1>5. IsFiniteSet(I) /\ I \subseteq Int
  <2>1. IsFiniteSet(1 .. Len(q)) /\ \A i \in 1 .. Len(q) : i \in Int
    BY <1>1, FS_Interval
  <2> QED  BY <1>3, <2>1, FS_Subset
<1> PICK m : m = Cardinality(I)
  OBVIOUS
<1>6. /\ m \in Nat /\ \A n \in 1 .. m : Ranked(I, n) \in I
      /\ \A n, k \in 1 .. m : Ranked(I, n) = Ranked(I, k) => n = k
      /\ \A i \in I : \E n \in 1 .. m : Ranked(I, n) = i
  BY <1>5, RankedIsOnto
<1>7. \A n \in 1 .. m : r[n] = q[Ranked(I, n)] /\ r[n] \in S \ U
  BY <1>3, <1>6
<1>8. r \in Seq(S \ U) /\ Len(r) = m
  BY <1>6, <1>7
<1>9. \A n, k \in 1 .. m : r[n] = r[k] => n = k
  <2>1. \A i, j \in 1 .. Len(q) : q[i] = q[j] => i = j
    BY DEF Lists
  <2>2. \A n \in 1 .. m : Ranked(I, n) \in 1 .. Len(q)
    BY <1>3, <1>6
  <2> QED  BY <1>6, <1>7, <2>1, <2>2
<1>10. \A t \in S \ U : \E n \in 1 .. m : r[n] = t
  <2> SUFFICES ASSUME NEW t \in S \ U
               PROVE  \E n \in 1 .. m : r[n] = t
    OBVIOUS
  <2>1. PICK i \in 1 .. Len(q) : q[i] = t
    BY DEF Lists
  <2>2. i \in I
    BY <1>4, <2>1
  <2> QED  BY <1>6, <1>7, <2>1, <2>2
<1> HIDE DEF r
<1>11. Lists(r, S \ U)
  BY <1>8, <1>9, <1>10 DEF Lists
<1>12. I = 1 .. Len(q) => Lists(q, S \ U)
  <2> SUFFICES ASSUME I = 1 .. Len(q)
               PROVE  Lists(q, S \ U)
    OBVIOUS
  <2>1. \A i \in 1 .. Len(q) : q[i] \in S \ U
    BY <1>3
  <2>2. q \in Seq(S \ U)
    BY <1>1, <2>1
  <2> QED  BY <2>2 DEF Lists
<1> QED  BY <1>2, <1>11, <1>12

\* The orders of a finite set list it.
LEMMA OrdersList ==
    ASSUME NEW S, IsFiniteSet(S), NEW p \in SetToSeqs(S)
    PROVE  Lists(p, S)
<1> PICK n : n = Cardinality(S)
  OBVIOUS
<1>1. n \in Nat
  BY FS_CardinalityType
<1>2. p \in [1 .. n -> S] /\ \A i, j \in 1 .. n : i # j => p[i] # p[j]
  BY DEF SetToSeqs
<1>3. p \in Seq(S) /\ Len(p) = n
  BY <1>1, <1>2
<1>4. \A t \in S : \E i \in 1 .. n : p[i] = t
  <2>1. p \in Injection(1 .. n, S)
    BY <1>2 DEF Injection, IsInjective
  <2>2. IsFiniteSet(1 .. n) /\ Cardinality(1 .. n) = n
    BY <1>1, FS_Interval
  <2>3. p \in Surjection(1 .. n, S)
    BY <2>1, <2>2, FS_Injection
  <2> QED  BY <2>3 DEF Surjection
<1> QED  BY <1>2, <1>3, <1>4 DEF Lists

-----------------------------------------------------------------------------
(* The task transport. Submission, claim, recovery and cancellation each    *)
(* write a record and the indexes that go with it: a record that is queued *)
(* is listed once, one that is leased is in the Redis set of leases, and   *)
(* a result is that of the record's attempt.                               *)
LatestRecord ==
    {r \in Record : /\ r.result > 0 => r.result = r.attempt
                    /\ r.worker # NoWorker <=> r.status = "leased"}

\* A record that loses its lease keeps its attempt; the result it gets is
\* none, that of recovery or of cancellation, or that of its own attempt.
LEMMA UnleasedFields ==
    ASSUME NEW r \in Record, NEW s, NEW v
    PROVE  Unleased(r, s, v) = [status |-> s, attempt |-> r.attempt, worker |-> NoWorker,
                                left |-> 0, result |-> v]
<1>1. PICK st, a, w, l, x :
           r = [status |-> st, attempt |-> a, worker |-> w, left |-> l, result |-> x]
  BY DEF Record
<1>2. r.attempt = a
  BY <1>1
<1>3. PICK r1 : r1 = [r EXCEPT !.status = s]
    OBVIOUS
<1>4. PICK r2 : r2 = [r1 EXCEPT !.worker = NoWorker]
    OBVIOUS
<1>5. PICK r3 : r3 = [r2 EXCEPT !.left = 0]
    OBVIOUS
<1>6. Unleased(r, s, v) = [r3 EXCEPT !.result = v]
  BY <1>3, <1>4, <1>5, Zenon DEF Unleased
<1>7. r1 = [status |-> s, attempt |-> a, worker |-> w, left |-> l, result |-> x]
  BY <1>1, <1>3
<1>8. r2 = [status |-> s, attempt |-> a, worker |-> NoWorker, left |-> l, result |-> x]
  BY <1>4, <1>7
<1>9. r3 = [status |-> s, attempt |-> a, worker |-> NoWorker, left |-> 0, result |-> x]
  BY <1>5, <1>8
<1>10. [r3 EXCEPT !.result = v] = [status |-> s, attempt |-> r.attempt, worker |-> NoWorker, left |-> 0, result |-> v]
  BY <1>2, <1>9
<1> QED  BY <1>6, <1>10

\* What a record is unleased to is one of the four results it may have.
LEMMA UnleasedIsLatest ==
    ASSUME NEW r \in LatestRecord, NEW s \in {"queued"} \cup Final, NEW v,
           v \in {NoResult, RecoveryResult, CancelResult, r.attempt}
    PROVE  Unleased(r, s, v) \in LatestRecord
<1>1. r \in Record /\ r.attempt \in Nat
  BY DEF LatestRecord, Record
<1>2. v \in Int /\ (v > 0 => v = r.attempt)
  BY <1>1 DEF NoResult, RecoveryResult, CancelResult
<1>3. PICK u : u = [status |-> s, attempt |-> r.attempt, worker |-> NoWorker, left |-> 0,
                    result |-> v]
  OBVIOUS
<1>4. u \in LatestRecord
  BY <1>1, <1>2, <1>3 DEF LatestRecord, Record, Final
<1>5. Unleased(r, s, v) = u
  BY <1>1, <1>3, UnleasedFields
<1> QED  BY <1>4, <1>5

\* A lease or its heartbeat is a record without a result, or leaves it alone.
LEMMA LeasedIsLatest ==
    ASSUME NEW r \in LatestRecord, NEW lag \in Lags
    PROVE  /\ [r EXCEPT !.left = Lease - lag] \in LatestRecord
           /\ [r EXCEPT !.left = @ - 1] \in LatestRecord
           /\ \A w \in Worker :
                 [status |-> "leased", worker |-> w, attempt |-> r.attempt + 1,
                  left |-> Lease - lag, result |-> NoResult] \in LatestRecord
BY TransportConstants DEF LatestRecord, Record, Lags, NoResult

\* Recovery of any set of expired tasks, in a transaction of its own or at
\* the beginning of a claim.
LEMMA RecoveryKeepsLatest ==
    ASSUME records \in [Task -> LatestRecord], NEW E
    PROVE  RecoveredRecords(E) \in [Task -> LatestRecord]
<1> SUFFICES ASSUME NEW t \in Task
             PROVE  RecoveredRecords(E)[t] \in LatestRecord
  BY DEF RecoveredRecords
<1>1. records[t] \in LatestRecord
  OBVIOUS
<1>2. /\ Unleased(records[t], "queued", NoResult) \in LatestRecord
      /\ Unleased(records[t], "failed", RecoveryResult) \in LatestRecord
  BY <1>1, UnleasedIsLatest DEF Final
<1> QED  BY <1>1, <1>2 DEF RecoveredRecords

\* One record that is replaced by a good one leaves all of them good.
LEMMA ReplacedIsLatest ==
    ASSUME NEW R \in [Task -> LatestRecord], NEW t, NEW r,
           t \in Task => r \in LatestRecord
    PROVE  [R EXCEPT ![t] = r] \in [Task -> LatestRecord]
OBVIOUS


\* What a list says of the number of entries of a task.
LEMMA ListedOnce ==
    ASSUME NEW S, Lists(queue, S), NEW t
    PROVE  Occurrences(t) = IF t \in S THEN 1 ELSE 0
<1> DEFINE I == {i \in 1 .. Len(queue) : queue[i] = t}
<1>1. CASE t \in S
  <2>1. PICK i \in 1 .. Len(queue) : queue[i] = t
    BY <1>1 DEF Lists
  <2>2. I = {i}
    BY <2>1 DEF Lists
  <2>3. Cardinality({i}) = 1
    BY FS_Singleton
  <2> QED  BY <1>1, <2>2, <2>3 DEF Occurrences
<1>2. CASE t \notin S
  <2>1. \A i \in 1 .. Len(queue) : queue[i] \in S
    BY DEF Lists
  <2>2. I = {}
    BY <1>2, <2>1
  <2> QED  BY <1>2, <2>2, FS_EmptySet DEF Occurrences
<1> QED  BY <1>1, <1>2

\* The task that claim selects is one of the queue, and it is queued.
LEMMA SelectedIsQueued ==
    ASSUME NEW R, NEW S, NEW q \in Seq(S), NEW w, Selected(R, q, w) # 0
    PROVE  /\ Selected(R, q, w) \in 1 .. Len(q)
           /\ R[q[Selected(R, q, w)]].status = "queued"
<1> DEFINE I == {i \in 1 .. Len(q) : R[q[i]].status = "queued" /\ <<w, q[i]>> \in CanRun}
<1>1. Selected(R, q, w) = IF I # {} THEN Min(I) ELSE 0
  BY Zenon DEF Selected, SelectInSeq
<1>2. I \subseteq 1 .. Len(q) /\ \A i \in I : R[q[i]].status = "queued"
  OBVIOUS
<1> HIDE DEF I
<1>3. IsFiniteSet(I) /\ I \subseteq Int
  <2>1. Len(q) \in Nat
    OBVIOUS
  <2>2. IsFiniteSet(1 .. Len(q)) /\ \A i \in 1 .. Len(q) : i \in Int
    BY <2>1, FS_Interval
  <2> QED  BY <1>2, <2>2, FS_Subset
<1>4. I # {}
  BY <1>1
<1>5. PICK k \in I : \A i \in I : k <= i
  BY <1>3, <1>4, SmallestExists
<1>6. Min(I) \in I
  BY <1>5 DEF Min
<1> QED  BY <1>1, <1>2, <1>4, <1>6

-----------------------------------------------------------------------------
(* The transports' tables. In Redis the queue lists the queued tasks and   *)
(* the set of leased ids the leased ones; elsewhere the submission order   *)
(* lists every task that was submitted.                                    *)

Indexed(R) == {t \in Task : IF store = "redis" THEN R[t].status = "queued"
                            ELSE R[t].status # "none"}

\* The tables R, q and L agree.
Agreeing(R, q, L) ==
    /\ R \in [Task -> LatestRecord]
    /\ Lists(q, Indexed(R))
    /\ L \subseteq Task /\ IsFiniteSet(L)
    /\ store = "redis" => L = {t \in Task : R[t].status = "leased"}

TransportInv ==
    /\ store \in Stores
    /\ Agreeing(records, queue, leased)
    /\ claims \in [Worker -> SUBSET Claim]

\* Invariant and property.
LEMMA AgreeingSuffices == TransportInv => TypeOK /\ IndexesAgree
<1> SUFFICES ASSUME TransportInv
             PROVE  TypeOK /\ IndexesAgree
  OBVIOUS
<1>1. /\ records \in [Task -> LatestRecord] /\ Lists(queue, Indexed(records))
      /\ store = "redis" => leased = {t \in Task : records[t].status = "leased"}
  BY DEF TransportInv, Agreeing
<1>2. \A t \in Task : Occurrences(t) = IF t \in Indexed(records) THEN 1 ELSE 0
  BY <1>1, ListedOnce
<1>3. IndexesAgree
  <2> SUFFICES ASSUME NEW t \in Task
               PROVE  /\ records[t].status = "queued" => Occurrences(t) = 1
                      /\ store = "redis" =>
                            /\ records[t].status # "queued" => Occurrences(t) = 0
                            /\ t \in leased <=> records[t].status = "leased"
    BY DEF IndexesAgree
  <2> QED  BY <1>1, <1>2 DEF Indexed
<1>4. queue \in Seq(Task)
  <2>1. queue \in Seq(Indexed(records)) /\ Indexed(records) \subseteq Task
    BY <1>1 DEF Lists, Indexed
  <2> QED  BY <2>1
<1>5. records \in [Task -> Record]
      /\ \A t \in Task : records[t].worker # NoWorker <=> records[t].status = "leased"
  BY <1>1 DEF LatestRecord
<1> QED  BY <1>3, <1>4, <1>5 DEF TypeOK, TransportInv, Agreeing

\* What recovery makes of one record, and of its place in the indexes.
LEMMA RecoveredStatus ==
    ASSUME records \in [Task -> LatestRecord], NEW lag, NEW E \in SUBSET Expired(lag),
           NEW t \in Task
    PROVE  /\ t \in E => records[t].status = "leased" /\ t \in LeasedIds
           /\ RecoveredRecords(E)[t].status =
                 IF t \in Retried(E) THEN "queued"
                 ELSE IF t \in E THEN "failed" ELSE records[t].status
<1>1. t \in E => records[t].status = "leased" /\ t \in LeasedIds
  BY DEF Expired
<1>2. /\ Unleased(records[t], "queued", NoResult).status = "queued"
      /\ Unleased(records[t], "failed", RecoveryResult).status = "failed"
  <2>1. records[t] \in Record
    BY DEF LatestRecord
  <2> QED  BY <2>1, UnleasedFields
<1> QED  BY <1>1, <1>2 DEF RecoveredRecords

\* Recovery of any part of the expired tasks keeps the tables in agreement.
LEMMA RecoveryAgrees ==
    ASSUME Agreeing(records, queue, leased), NEW lag, NEW E \in SUBSET Expired(lag),
           NEW q \in RecoveredQueues(E)
    PROVE  Agreeing(RecoveredRecords(E), q, RecoveredLeased(E))
<1> DEFINE R == RecoveredRecords(E)
<1>1. records \in [Task -> LatestRecord] /\ R \in [Task -> LatestRecord]
  BY RecoveryKeepsLatest DEF Agreeing
<1>2. \A t \in Task :
         /\ t \in E => records[t].status = "leased" /\ t \in LeasedIds
         /\ R[t].status = IF t \in Retried(E) THEN "queued"
                          ELSE IF t \in E THEN "failed" ELSE records[t].status
  BY <1>1, RecoveredStatus
<1> HIDE DEF R
<1>3. /\ Lists(queue, Indexed(records)) /\ leased \subseteq Task /\ IsFiniteSet(leased)
      /\ Retried(E) \subseteq E
  BY DEF Agreeing, Retried
<1>4. RecoveredLeased(E) \in SUBSET leased
  BY DEF RecoveredLeased
<1>5. RecoveredLeased(E) \subseteq Task /\ IsFiniteSet(RecoveredLeased(E))
  BY <1>3, <1>4, FS_Subset
<1>6. CASE store = "redis"
  <2>1. leased = {t \in Task : records[t].status = "leased"} /\ LeasedIds = leased
    BY <1>6 DEF Agreeing, LeasedIds
  <2>2. E \subseteq leased
    BY <2>1 DEF Expired
  <2>3. PICK p \in SetToSeqs(Retried(E)) : q = queue \o p
    BY <1>6 DEF RecoveredQueues
  <2>4. IsFiniteSet(Retried(E))
    BY <1>3, <2>2, FS_Subset
  <2>5. Lists(p, Retried(E))
    BY <2>3, <2>4, OrdersList
  <2>6. Indexed(records) \cap Retried(E) = {}
    BY <1>2, <1>3, <1>6 DEF Indexed
  <2>7. Lists(q, Indexed(records) \cup Retried(E))
    BY <1>3, <2>3, <2>5, <2>6, ListsJoin
  <2>8. Indexed(R) = Indexed(records) \cup Retried(E)
    <3>1. \A t \in Task : R[t].status = "queued" <=>
                            records[t].status = "queued" \/ t \in Retried(E)
      BY <1>2, <1>3
    <3>2. Retried(E) \subseteq Task
      BY <1>3, <2>1, <2>2
    <3> QED  BY <1>6, <3>1, <3>2 DEF Indexed
  <2>9. RecoveredLeased(E) = {t \in Task : R[t].status = "leased"}
    BY <1>2, <1>3, <2>1 DEF RecoveredLeased
  <2> QED  BY <1>1, <1>5, <2>7, <2>8, <2>9 DEF Agreeing, R
<1>7. CASE store # "redis"
  <2>1. q = queue
    BY <1>7 DEF RecoveredQueues
  <2>2. Indexed(R) = Indexed(records)
    BY <1>2, <1>3, <1>7 DEF Indexed
  <2> QED  BY <1>1, <1>3, <1>5, <1>7, <2>1, <2>2 DEF Agreeing, R
<1> QED  BY <1>6, <1>7

\* In tables that agree no entry of the Redis queue is stale.
LEMMA NothingPruned ==
    ASSUME NEW R, NEW q, NEW L, Agreeing(R, q, L), store = "redis", NEW n
    PROVE  Lists(Pruned(R, q, n), Indexed(R))
<1> PICK stale : stale = {q[i] : i \in {j \in 1 .. Len(q) :
                                         (n = 0 \/ j < n) /\ R[q[j]].status # "queued"}}
  OBVIOUS
<1>1. Lists(q, Indexed(R))
  BY DEF Agreeing
<1>2. \A i \in 1 .. Len(q) : R[q[i]].status = "queued"
  BY <1>1 DEF Lists, Indexed
<1>3. stale = {}
  BY <1>2
<1>4. Lists(Without(q, stale), Indexed(R) \ stale)
  BY <1>1, ListsWithout
<1> QED  BY <1>3, <1>4 DEF Pruned

\* A record that is replaced: what becomes of the indexes.
LEMMA ReplacedAgrees ==
    ASSUME NEW R, NEW q, NEW L, Agreeing(R, q, L), NEW t \in Task, NEW r \in LatestRecord,
           NEW q2, NEW L2 \in SUBSET Task, IsFiniteSet(L2),
           store = "redis" =>
               /\ L2 = IF r.status = "leased" THEN L \cup {t} ELSE L \ {t}
               /\ r.status = "queued" => Lists(q2, Indexed(R) \cup {t})
               /\ r.status # "queued" => Lists(q2, Indexed(R) \ {t}),
           store # "redis" =>
               /\ r.status # "none" /\ Lists(q2, Indexed(R) \cup {t})
    PROVE  Agreeing([R EXCEPT ![t] = r], q2, L2)
<1> PICK R2 : R2 = [R EXCEPT ![t] = r]
  OBVIOUS
<1>1. R \in [Task -> LatestRecord] /\ R2 \in [Task -> LatestRecord]
  BY DEF Agreeing
<1>2. R2[t] = r /\ \A u \in Task \ {t} : R2[u] = R[u]
  BY <1>1
<1>3. CASE store = "redis"
  <2>1. L2 = {u \in Task : R2[u].status = "leased"}
    BY <1>2, <1>3 DEF Agreeing
  <2>2. Indexed(R2) = IF r.status = "queued" THEN Indexed(R) \cup {t} ELSE Indexed(R) \ {t}
    BY <1>2, <1>3 DEF Indexed
  <2> QED  BY <1>1, <1>3, <2>1, <2>2 DEF Agreeing
<1>4. CASE store # "redis"
  <2>1. Indexed(R2) = Indexed(R) \cup {t}
    BY <1>2, <1>4 DEF Indexed
  <2> QED  BY <1>1, <1>4, <2>1 DEF Agreeing
<1> QED  BY <1>3, <1>4

\* A claim: recovery, then the first queued task the worker can run is leased.
LEMMA ClaimKeeps ==
    ASSUME TransportInv, NEW w \in Worker, NEW lag \in Lags, ClaimTask(w, lag)
    PROVE  TransportInv'
<1> PICK R : R = RecoveredRecords(Expired(lag))
  OBVIOUS
<1> PICK L : L = RecoveredLeased(Expired(lag))
  OBVIOUS
<1> PICK Q \in RecoveredQueues(Expired(lag)) : 
      LET n == Selected(R, Q, w)
          t == Q[n]
      IN  \/ /\ records' = R /\ queue' = Q /\ leased' = L
             /\ UNCHANGED <<store, claims>>
          \/ /\ n = 0
             /\ records' = R /\ leased' = L
             /\ queue' = IF store = "redis" THEN Pruned(R, Q, n) ELSE Q
             /\ UNCHANGED <<store, claims>>
          \/ /\ n # 0
             /\ records' = [R EXCEPT ![t] = [status |-> "leased", worker |-> w,
                                             attempt |-> R[t].attempt + 1,
                                             left |-> Lease - lag, result |-> NoResult]]
             /\ queue' = IF store = "redis" THEN RemoveFirst(Pruned(R, Q, n), t) ELSE Q
             /\ leased' = IF store = "redis" THEN L \cup {t} ELSE L
             /\ claims' = [claims EXCEPT ![w] = claims[w] \cup
                                 {[task |-> t, attempt |-> R[t].attempt + 1]}]
             /\ UNCHANGED store
  BY DEF ClaimTask
<1> PICK n : n = Selected(R, Q, w)
  OBVIOUS
<1> PICK t : t = Q[n]
  OBVIOUS
<1> PICK P : P = Pruned(R, Q, n)
  OBVIOUS
<1>1. Agreeing(R, Q, L)
  BY RecoveryAgrees DEF TransportInv
<1>2. store = "redis" => Lists(P, Indexed(R))
  BY <1>1, NothingPruned
<1>3. CASE /\ records' = R /\ queue' = Q /\ leased' = L
           /\ UNCHANGED <<store, claims>>
  <2>1. Agreeing(records', queue', leased')
    BY <1>1, <1>3
  <2> QED  BY <1>3, <2>1 DEF TransportInv, Agreeing, Indexed
<1>4. CASE /\ records' = R /\ leased' = L
           /\ queue' = IF store = "redis" THEN P ELSE Q
           /\ UNCHANGED <<store, claims>>
  <2>1. Agreeing(records', queue', leased')
    BY <1>1, <1>2, <1>4 DEF Agreeing
  <2> QED  BY <1>4, <2>1 DEF TransportInv, Agreeing, Indexed
<1>5. CASE /\ n # 0
           /\ records' = [R EXCEPT ![t] = [status |-> "leased", worker |-> w,
                                           attempt |-> R[t].attempt + 1,
                                           left |-> Lease - lag, result |-> NoResult]]
           /\ queue' = IF store = "redis" THEN RemoveFirst(P, t) ELSE Q
           /\ leased' = IF store = "redis" THEN L \cup {t} ELSE L
           /\ claims' = [claims EXCEPT ![w] = claims[w] \cup
                               {[task |-> t, attempt |-> R[t].attempt + 1]}]
           /\ UNCHANGED store
  <2>1. Lists(Q, Indexed(R)) /\ R \in [Task -> LatestRecord] /\ L \in SUBSET Task /\ IsFiniteSet(L)
    BY <1>1 DEF Agreeing
  <2>2. n \in 1 .. Len(Q) /\ R[t].status = "queued"
    BY <1>5, <2>1, SelectedIsQueued DEF Lists
  <2>3. t \in Indexed(R) /\ t \in Task
    BY <2>1, <2>2 DEF Lists, Indexed
  <2>4. PICK r : r = [status |-> "leased", worker |-> w, attempt |-> R[t].attempt + 1,
                      left |-> Lease - lag, result |-> NoResult]
    OBVIOUS
  <2>5. r \in LatestRecord /\ r.status = "leased" /\ R[t].attempt + 1 \in Nat
    <3>1. R[t] \in LatestRecord
      BY <2>1, <2>3
    <3>2. R[t].attempt \in Nat
      BY <3>1 DEF LatestRecord, Record
    <3>3. R[t].attempt + 1 \in Nat
      BY <3>2
    <3>4. [status |-> "leased", worker |-> w, attempt |-> R[t].attempt + 1,
           left |-> Lease - lag, result |-> NoResult] \in LatestRecord
      BY <3>1, LeasedIsLatest
    <3>5. r \in LatestRecord
      BY <2>4, <3>4
    <3>6. r.status = "leased"
      BY <2>4
    <3> QED  BY <3>3, <3>5, <3>6
  <2>6. store = "redis" => Lists(RemoveFirst(P, t), Indexed(R) \ {t})
    BY <1>2, <2>3, ListsRemove
  <2>7. leased' \in SUBSET Task /\ IsFiniteSet(leased')
    BY <1>5, <2>1, <2>3, FS_AddElement
  <2>8. store # "redis" => Lists(queue', Indexed(R) \cup {t})
    <3>1. Indexed(R) \cup {t} = Indexed(R)
      BY <2>3
    <3> QED  BY <1>5, <2>1, <3>1
  <2>9. Agreeing([R EXCEPT ![t] = r], queue', leased')
    BY <1>1, <1>5, <2>3, <2>5, <2>6, <2>7, <2>8, ReplacedAgrees
  <2>10. Agreeing(records', queue', leased')
    BY <1>5, <2>4, <2>9
  <2>11. claims' \in [Worker -> SUBSET Claim]
    <3>1. [task |-> t, attempt |-> R[t].attempt + 1] \in Claim
      BY <2>3, <2>5 DEF Claim
    <3> QED  BY <1>5, <3>1 DEF TransportInv
  <2> QED  BY <1>5, <2>10, <2>11 DEF TransportInv, Agreeing, Indexed
<1> QED  BY <1>3, <1>4, <1>5

\* A task that is not known is listed last, or anywhere in SQLite.
LEMMA SubmitKeeps ==
    ASSUME TransportInv, NEW t \in Task, Submit(t)
    PROVE  TransportInv'
<1>1. /\ records[t].status = "none" /\ UNCHANGED <<store, leased, claims>>
      /\ queue' \in SubmittedQueues(t)
  BY DEF Submit
<1>2. PICK r : r = [Missing EXCEPT !.status = "queued"]
  OBVIOUS
<1>3. r \in LatestRecord /\ r.status = "queued" /\ records' = [records EXCEPT ![t] = r]
  BY <1>2, TransportConstants DEF LatestRecord, Record, Missing, NoResult, Submit
<1>4. Agreeing(records, queue, leased) /\ Lists(queue, Indexed(records)) /\ t \notin Indexed(records)
  BY <1>1 DEF TransportInv, Agreeing, Indexed
<1>5. Lists(queue', Indexed(records) \cup {t})
  <2>1. CASE store = "sqlite"
    <3>1. PICK k \in 1 .. Len(queue) + 1 : queue' = InsertAt(queue, k, t)
      BY <1>1, <2>1 DEF SubmittedQueues
    <3> QED  BY <1>4, <3>1, ListsInsert
  <2>2. CASE store # "sqlite"
    <3>1. queue' = Append(queue, t)
      BY <1>1, <2>2 DEF SubmittedQueues
    <3>2. Len(queue) \in Nat
      BY <1>4 DEF Lists
    <3>3. 1 \in 1 .. (Len(queue) + 1)
      BY <3>2
    <3> QED  BY <1>4, <3>1, <3>3, ListsInsert
  <2> QED  BY <2>1, <2>2
<1>6. store = "redis" => leased' = leased \ {t}
  BY <1>1, <1>4 DEF Agreeing
<1>7. leased' \in SUBSET Task /\ IsFiniteSet(leased')
  BY <1>1, <1>4 DEF Agreeing
<1>8. Agreeing([records EXCEPT ![t] = r], queue', leased')
  BY <1>3, <1>4, <1>5, <1>6, <1>7, ReplacedAgrees
<1>9. Agreeing(records', queue', leased')
  BY <1>3, <1>8
<1> QED  BY <1>1, <1>9 DEF TransportInv, Agreeing, Indexed

\* A record that loses its lease or is cancelled, and what becomes of its entry.
LEMMA UnleaseKeeps ==
    ASSUME TransportInv, NEW t \in Task, NEW s \in {"queued"} \cup Final, NEW v,
           v \in {NoResult, RecoveryResult, CancelResult, records[t].attempt},
           records[t].status # "none",
           records' = [records EXCEPT ![t] = Unleased(records[t], s, v)],
           leased' \in SUBSET leased,
           store = "redis" =>
               /\ leased' = leased \ {t}
               /\ s = "queued" => Lists(queue', Indexed(records) \cup {t})
               /\ s # "queued" => Lists(queue', Indexed(records) \ {t}),
           store # "redis" => queue' = queue,
           store' = store, claims' \in [Worker -> SUBSET Claim]
    PROVE  TransportInv'
<1>1. PICK r : r = Unleased(records[t], s, v)
  OBVIOUS
<1>2. records[t] \in LatestRecord /\ records[t] \in Record
  BY DEF TransportInv, Agreeing, LatestRecord
<1>3. r \in LatestRecord /\ r.status = s
  BY <1>1, <1>2, UnleasedIsLatest, UnleasedFields
<1>4. /\ Agreeing(records, queue, leased) /\ Lists(queue, Indexed(records))
      /\ leased' \in SUBSET Task /\ IsFiniteSet(leased')
  BY FS_Subset DEF TransportInv, Agreeing
<1>5. store # "redis" => Lists(queue', Indexed(records) \cup {t})
  <2>1. store # "redis" => Indexed(records) \cup {t} = Indexed(records)
    BY DEF Indexed
  <2> QED  BY <1>4, <2>1
<1>6. s # "leased" /\ s # "none"
  BY DEF Final
<1>7. Agreeing([records EXCEPT ![t] = r], queue', leased')
  BY <1>3, <1>4, <1>5, <1>6, ReplacedAgrees
<1>8. Agreeing(records', queue', leased')
  BY <1>1, <1>7
<1> QED  BY <1>8 DEF TransportInv, Agreeing, Indexed

\* Cancellation takes the task out of the Redis queue.
LEMMA CancelKeeps ==
    ASSUME TransportInv, NEW t \in Task, Cancel(t)
    PROVE  TransportInv'
<1>1. PICK v \in {NoResult, CancelResult} :
         records' = [records EXCEPT ![t] = Unleased(records[t], "cancelled", v)]
  BY DEF Cancel
<1>2. /\ records[t].status \in {"queued", "leased"}
      /\ store = "redis" => records[t].status = "queued"
      /\ queue' = IF store = "redis" THEN Without(queue, {t}) ELSE queue
      /\ UNCHANGED <<store, leased, claims>>
  BY DEF Cancel
<1>3. store = "redis" => leased' = leased \ {t}
  BY <1>2 DEF TransportInv, Agreeing
<1>4. store = "redis" => Lists(queue', Indexed(records) \ {t})
  BY <1>2, ListsWithout DEF TransportInv, Agreeing
<1>5. claims' \in [Worker -> SUBSET Claim]
  BY <1>2 DEF TransportInv
<1>6. "cancelled" \in {"queued"} \cup Final /\ "cancelled" # "queued" /\ records[t].status # "none"
  BY <1>2 DEF Final
<1> QED  BY <1>1, <1>2, <1>3, <1>4, <1>5, <1>6, UnleaseKeeps

\* A report on a claim, current or not.
LEMMA FinishKeeps ==
    ASSUME TransportInv, NEW w \in Worker, NEW cl \in claims[w], NEW lag \in Lags,
           NEW status \in Final, NEW retry, Finish(w, cl, lag, status, retry)
    PROVE  TransportInv'
<1> PICK t : t = cl.task
  OBVIOUS
<1>0. cl \in Claim /\ t \in Task
  BY DEF TransportInv, Claim
<1>1. claims' \in [Worker -> SUBSET Claim] /\ store' = store
  BY DEF Finish, TransportInv
<1>2. CASE ClaimIsCurrent(w, cl, lag)
  <2>1. records[t].status = "leased" /\ records[t].attempt = cl.attempt
    BY <1>2 DEF ClaimIsCurrent
  <2>2. PICK s \in {"queued"} \cup Final, v \in {NoResult, records[t].attempt} :
           /\ records' = [records EXCEPT ![t] = Unleased(records[t], s, v)]
           /\ s = "queued" <=> retry
    BY <1>2, <2>1 DEF Finish, Final
  <2>3. /\ leased' = leased \ {t}
        /\ queue' = IF retry /\ store = "redis" THEN Append(queue, t) ELSE queue
    BY <1>2 DEF Finish
  <2>4. store = "redis" =>
           /\ s = "queued" => Lists(queue', Indexed(records) \cup {t})
           /\ s # "queued" => Lists(queue', Indexed(records) \ {t})
    <3> SUFFICES ASSUME store = "redis"
                 PROVE  /\ s = "queued" => Lists(queue', Indexed(records) \cup {t})
                        /\ s # "queued" => Lists(queue', Indexed(records) \ {t})
      OBVIOUS
    <3>1. t \notin Indexed(records)
      BY <2>1 DEF Indexed
    <3>2. Lists(queue, Indexed(records)) /\ Indexed(records) \ {t} = Indexed(records)
      BY <3>1 DEF TransportInv, Agreeing
    <3>3. s = "queued" => Lists(queue', Indexed(records) \cup {t})
      <4>1. 1 \in 1 .. (Len(queue) + 1)
        BY <3>2 DEF Lists
      <4> QED  BY <2>2, <2>3, <3>1, <3>2, <4>1, ListsInsert
    <3> QED  BY <2>2, <2>3, <3>2, <3>3
  <2>5. store # "redis" => queue' = queue
    BY <2>3
  <2>6. records[t].status # "none"
    BY <2>1
  <2> QED  BY <1>0, <1>1, <2>2, <2>3, <2>4, <2>5, <2>6, UnleaseKeeps
<1>3. CASE ~ClaimIsCurrent(w, cl, lag)
  <2>1. CASE store = "redis"
    <3>1. /\ records' = RecoveredRecords(Expired(lag))
          /\ queue' \in RecoveredQueues(Expired(lag))
          /\ leased' = RecoveredLeased(Expired(lag))
      BY <1>3, <2>1 DEF Finish
    <3>2. Agreeing(records', queue', leased')
      BY <3>1, RecoveryAgrees DEF TransportInv
    <3> QED  BY <1>1, <3>2 DEF TransportInv, Agreeing, Indexed
  <2>2. CASE store # "redis"
    BY <1>1, <1>3, <2>2 DEF Finish, TransportInv, Agreeing, Indexed
  <2> QED  BY <2>1, <2>2
<1> QED  BY <1>2, <1>3

\* Nothing but the time that is left changes.
LEMMA OnlyTimeChanges ==
    ASSUME TransportInv, records' \in [Task -> LatestRecord],
           \A t \in Task : records'[t].status = records[t].status,
           UNCHANGED <<store, queue, leased, claims>>
    PROVE  TransportInv'
<1>1. Indexed(records)' = Indexed(records)
  BY DEF Indexed
<1> QED  BY <1>1 DEF TransportInv, Agreeing

\* Every step keeps the tables in agreement.
LEMMA TransportStep == TransportInv /\ [Next]_vars => TransportInv'
<1> SUFFICES ASSUME TransportInv, [Next]_vars
             PROVE  TransportInv'
  OBVIOUS
<1>0. records \in [Task -> LatestRecord] /\ claims \in [Worker -> SUBSET Claim]
  BY DEF TransportInv, Agreeing
<1>1. ASSUME NEW w \in Worker, WorkerStep(w)
      PROVE  TransportInv'
  <2> PICK lag \in Lags :
        \/ ClaimTask(w, lag)
        \/ \E cl \in claims[w] :
              HeartbeatTask(w, cl, lag) \/ Complete(w, cl, lag) \/ Fail(w, cl, lag)
    BY <1>1 DEF WorkerStep
  <2>1. ASSUME NEW cl \in claims[w], HeartbeatTask(w, cl, lag)
        PROVE  TransportInv'
    <3>1. PICK r : r = [records[cl.task] EXCEPT !.left = Lease - lag]
      OBVIOUS
    <3>2. records' = [records EXCEPT ![cl.task] = r] /\ UNCHANGED <<store, queue, leased, claims>>
      BY <2>1, <3>1 DEF HeartbeatTask
    <3>3. cl.task \in Task
      BY <1>0 DEF Claim
    <3>4. r \in LatestRecord /\ r.status = records[cl.task].status
      BY <1>0, <3>1, <3>3, LeasedIsLatest DEF LatestRecord, Record
    <3> QED  BY <1>0, <3>2, <3>3, <3>4, OnlyTimeChanges
  <2>2. ASSUME NEW cl \in claims[w], Complete(w, cl, lag)
        PROVE  TransportInv'
    BY <2>2, FinishKeeps DEF Complete, Final
  <2>3. ASSUME NEW cl \in claims[w], Fail(w, cl, lag)
        PROVE  TransportInv'
    BY <2>3, FinishKeeps DEF Fail, Final
  <2> QED  BY <2>1, <2>2, <2>3, ClaimKeeps
<1>2. ASSUME NEW w \in Worker, Crash(w)
      PROVE  TransportInv'
  <2>1. claims' \in [Worker -> SUBSET Claim] /\ UNCHANGED <<store, records, queue, leased>>
    BY <1>0, <1>2 DEF Crash
  <2> QED  BY <2>1 DEF TransportInv, Agreeing, Indexed
<1>3. CASE RecoverExpired
  <2> PICK E \in SUBSET Expired(0) :
         /\ records' = RecoveredRecords(E) /\ queue' \in RecoveredQueues(E)
         /\ leased' = RecoveredLeased(E) /\ UNCHANGED <<store, claims>>
    BY <1>3 DEF RecoverExpired
  <2>1. Agreeing(records', queue', leased')
    BY RecoveryAgrees DEF TransportInv
  <2> QED  BY <2>1 DEF TransportInv, Agreeing, Indexed
<1>4. CASE TimePasses
  <2> SUFFICES ASSUME NEW t \in Task
               PROVE  records'[t] \in LatestRecord /\ records'[t].status = records[t].status
    <3>1. records' = [t \in Task |-> records'[t]] /\ UNCHANGED <<store, queue, leased, claims>>
      BY <1>4 DEF TimePasses
    <3> QED  BY <3>1, OnlyTimeChanges
  <2> PICK r : r = records[t]
    OBVIOUS
  <2>1. r \in LatestRecord
    BY <1>0
  <2>2. PICK s : s = [r EXCEPT !.left = @ - 1]
    OBVIOUS
  <2>3. s \in LatestRecord /\ s.status = r.status
    BY <2>1, <2>2 DEF LatestRecord, Record
  <2>4. records'[t] \in {r, s}
    BY <1>4, <2>2 DEF TimePasses
  <2> QED  BY <2>1, <2>3, <2>4
<1>5. CASE UNCHANGED vars
  BY <1>5 DEF vars, TransportInv, Agreeing, Indexed
<1> QED  BY <1>1, <1>2, <1>3, <1>4, <1>5, SubmitKeeps, CancelKeeps DEF Next

\* The invariant of the tables, from the empty ones on.
LEMMA TransportInvariant == Spec => []TransportInv
<1>1. Init => TransportInv
  <2> SUFFICES ASSUME Init
               PROVE  TransportInv
    OBVIOUS
  <2>1. /\ store \in Stores /\ records = [t \in Task |-> Missing] /\ queue = <<>>
        /\ leased = {} /\ claims = [w \in Worker |-> {}]
    BY DEF Init
  <2>2. Missing \in LatestRecord /\ Missing.status = "none"
    BY DEF LatestRecord, Record, Missing, NoResult
  <2>3. Indexed(records) = {}
    BY <2>1, <2>2 DEF Indexed
  <2>4. Lists(queue, Indexed(records))
    BY <2>1, <2>3, ListsFew
  <2>5. Agreeing(records, queue, leased)
    BY <2>1, <2>2, <2>4, FS_EmptySet DEF Agreeing
  <2> QED  BY <2>1, <2>5 DEF TransportInv
<1> QED  BY <1>1, TransportStep, PTL DEF Spec

\* For any tasks and workers on each of the three transports: no task is lost
\* and none is run from a stale entry, whatever is recovered, retried,
\* cancelled or submitted in between.
THEOREM IndexesAgreeThm == Spec => []IndexesAgree
BY TransportInvariant, AgreeingSuffices, PTL

\* The shapes of the tables: a worker's id is on a record while it is leased.
THEOREM TransportTypes == Spec => []TypeOK
BY TransportInvariant, AgreeingSuffices, PTL

\* Whatever number of workers crash, stall and report late, on each of the
\* three transports: a stored result is that of the last claim handed out,
\* for it is written only over a record whose attempt is that of the claim,
\* and a new attempt clears the result.
THEOREM ResultIsLatestThm == Spec => []ResultIsLatest
<1>1. TransportInv => ResultIsLatest
  BY DEF TransportInv, Agreeing, LatestRecord, ResultIsLatest
<1> QED  BY <1>1, TransportInvariant, PTL
=============================================================================
