--------------------------- MODULE BudgetAuthority ---------------------------
(***************************************************************************)
(* The lease-fenced shared budget (SQLiteBudgetAuthority and               *)
(* RedisBudgetAuthority), composed with the lease authority it reads.      *)
(* Every operation is one transaction under the lock the two share. SQLite *)
(* reads the clock before the transaction, so `now` may be up to MaxWait   *)
(* old; Redis reads it under the lock. An operation that raises leaves no  *)
(* trace in SQLite; in Redis a refused reserve keeps its reclamation.      *)
(***************************************************************************)
EXTENDS LeaseFence, FiniteSetsExt

CONSTANTS
    ReservationId,
    MaxLimit,     \* largest limit configured
    Stores        \* the implementations considered

ASSUME BudgetConstants ==
    /\ IsFiniteSet(ReservationId)
    /\ MaxLimit \in Nat /\ Stores \subseteq {"sqlite", "redis"}

VARIABLES
    store,        \* the implementation in use, fixed from the start
    limit,        \* limit_amount; -1 while the budget is not configured
    committed,    \* committed_amount
    reservations  \* reservation_id -> its row; status "none" is a missing row

budgetVars == <<store, limit, committed, reservations>>
vars == <<fenceVars, budgetVars>>

Amounts == 1 .. MaxLimit
Settled == {"completed", "cancelled", "reclaimed"}
Reservation == [status : {"none", "active"} \cup Settled, amount : Nat,
                completed : Nat, lease : LeaseId \cup {"none"}, token : Nat]
\* A missing row; its lease is never read.
NoReservation == [status |-> "none", amount |-> 0, completed |-> 0,
                  lease |-> "none", token |-> 0]

Init ==
    /\ FenceInit
    /\ store \in Stores
    /\ limit = -1
    /\ committed = 0
    /\ reservations = [r \in ReservationId |-> NoReservation]

-----------------------------------------------------------------------------

NowChoices == IF store = "sqlite" THEN Recent ELSE {clock}

Owned(row, now) == FenceCurrent(row.lease, row.token, now)

\* _reclaim_stale_locked
Reclaim(B, now) ==
    [r \in ReservationId |-> IF B[r].status = "active" /\ ~Owned(B[r], now)
                             THEN [B[r] EXCEPT !.status = "reclaimed"] ELSE B[r]]

\* _reserved_locked
Reserved(B) ==
    SumFunctionOnSet([r \in ReservationId |-> B[r].amount - B[r].completed],
                     {r \in ReservationId : B[r].status = "active"})

\* Mutant: open reservations are not deducted.
RemainingUnreserved(B) == IF limit > committed THEN limit - committed ELSE 0

Remaining(B) == LET rest == limit - committed - Reserved(B)
                IN  IF rest > 0 THEN rest ELSE 0

\* configure: the first limit wins, a different one raises.
Configure(lim) ==
    /\ limit = -1
    /\ limit' = lim
    /\ UNCHANGED <<fenceVars, store, committed, reservations>>

\* status and reservation; both reclaim, status raises without a budget.
Inspect(now) ==
    /\ reservations' = Reclaim(reservations, now)
    /\ UNCHANGED <<fenceVars, store, limit, committed>>

\* reserve: fence, reclaim, then the existing row, a new row or a refusal.
Reserve(r, amount, l, tok, now) ==
    LET B   == Reclaim(reservations, now)
        new == [status |-> "active", amount |-> amount, completed |-> 0,
                lease |-> l, token |-> tok]
        same == /\ B[r].status # "none"
                /\ B[r].amount = amount /\ B[r].lease = l /\ B[r].token = tok
        fits == B[r].status = "none" /\ limit # -1 /\ amount <= Remaining(B)
    IN  /\ FenceCurrent(l, tok, now)
        /\ \/ /\ fits
              /\ reservations' = [B EXCEPT ![r] = new]
           \/ /\ ~fits
              /\ same \/ store = "redis"
              /\ reservations' = B
        /\ UNCHANGED <<fenceVars, store, limit, committed>>

\* Mutant: the fence is not read.
ConsumeUnfenced(r, amount, now) ==
    LET row == reservations[r]
    IN  /\ row.status = "active"
        /\ row.completed + amount <= row.amount
        /\ committed' = committed + amount
        /\ reservations' = [reservations EXCEPT
                              ![r] = [@ EXCEPT !.completed = row.completed + amount]]
        /\ UNCHANGED <<fenceVars, store, limit>>

\* consume: units are spent before the work is dispatched.
Consume(r, amount, now) ==
    LET row == reservations[r]
    IN  /\ row.status = "active"
        /\ row.completed + amount <= row.amount
        /\ Owned(row, now)
        /\ committed' = committed + amount
        /\ reservations' = [reservations EXCEPT
                              ![r] = [@ EXCEPT !.completed = row.completed + amount]]
        /\ UNCHANGED <<fenceVars, store, limit>>

\* complete: the final count, at least what was consumed. Repeating a
\* completion with the same count changes nothing.
Complete(r, count, now) ==
    LET row == reservations[r]
    IN  /\ row.status = "active"
        /\ row.completed <= count /\ count <= row.amount
        /\ Owned(row, now)
        /\ committed' = committed + (count - row.completed)
        /\ reservations' = [reservations EXCEPT
                              ![r] = [@ EXCEPT !.status = "completed", !.completed = count]]
        /\ UNCHANGED <<fenceVars, store, limit>>

Cancel(r, now) ==
    /\ reservations[r].status = "active"
    /\ Owned(reservations[r], now)
    /\ reservations' = [reservations EXCEPT ![r] = [@ EXCEPT !.status = "cancelled"]]
    /\ UNCHANGED <<fenceVars, store, limit, committed>>

BudgetNext ==
    \/ \E lim \in 0 .. MaxLimit : Configure(lim)
    \/ \E now \in NowChoices :
          \/ Inspect(now)
          \/ \E r \in ReservationId :
                \/ \E amount \in Amounts, l \in LeaseId, tok \in 1 .. nextToken - 1 :
                      Reserve(r, amount, l, tok, now)
                \/ \E amount \in Amounts : Consume(r, amount, now)
                \/ \E count \in 0 .. MaxLimit : Complete(r, count, now)
                \/ Cancel(r, now)

Next == BudgetNext \/ (FenceNext /\ UNCHANGED budgetVars)

Spec == Init /\ [][Next]_vars

-----------------------------------------------------------------------------
(* Properties *)

\* Amounts never turn negative and rows keep their shapes.
TypeOK ==
    /\ store \in Stores
    /\ clock \in Nat /\ nextToken \in Nat \ {0}
    /\ fence \in [LeaseId -> FenceRow]
    /\ limit \in Int /\ committed \in Nat
    /\ reservations \in [ReservationId -> Reservation]

\* The two tables agree: what the budget row says was spent is what the
\* reservations say they spent, whichever of them were reclaimed or cancelled
\* half way.
SpentAddsUp ==
    committed = SumFunction([r \in ReservationId |-> reservations[r].completed])

\* Units are never promised twice: the tables agree, and spent units and the
\* open part of every reservation that can still spend fit the limit, even
\* while the holder of an expired lease races its replacement.
NeverOversold ==
    SpentAddsUp /\ (limit = -1 \/ committed + Reserved(reservations) <= limit)

\* Nothing is spent through a fence that has ended: at the commit the lease
\* row is still active, carries the reservation's token and expired at most
\* one lock wait ago.
SpendsAreFenced ==
    [][\A r \in ReservationId :
          reservations'[r].completed # reservations[r].completed
             => \E now \in Recent : Owned(reservations[r], now)]_vars
=============================================================================
