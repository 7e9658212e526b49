---------------------------- MODULE BudgetProofs ----------------------------
(***************************************************************************)
(* TLAPS proofs about the budget modules: the authority (BudgetAuthority), *)
(* for every set of leases and reservations, every TTL, lock wait and      *)
(* limit, and its clients, the account of a Case (BudgetAccount) and the   *)
(* delegation of budgets to child Cases (BudgetDelegation).                *)
(***************************************************************************)
EXTENDS BudgetAuthority, BudgetAccount, BudgetDelegation, SumTheorems, TLAPS

-----------------------------------------------------------------------------
(* The authority: rows and the two sums over them.                         *)

\* No reservation has spent more than it reserved, a missing row has spent
\* nothing, and there are no rows before the budget is configured.
RowsSane ==
    /\ limit \in Nat \cup {-1}
    /\ \A r \in ReservationId :
          /\ reservations[r].completed <= reservations[r].amount
          /\ reservations[r].status = "none" => reservations[r].completed = 0
          /\ limit = -1 => reservations[r].status = "none"

BudgetInv == TypeOK /\ RowsSane /\ NeverOversold

\* The part of each reservation that can still be spent.
OpenPart(B) == [r \in ReservationId |-> IF B[r].status = "active"
                                        THEN B[r].amount - B[r].completed ELSE 0]

CompletedPart(B) == [r \in ReservationId |-> B[r].completed]

\* _reserved_locked is the sum of the open parts of all rows.
LEMMA ReservedIsOpen ==
    ASSUME NEW B \in [ReservationId -> Reservation]
    PROVE  Reserved(B) = SumFunctionOnSet(OpenPart(B), ReservationId)
<1> DEFINE f == [r \in ReservationId |-> B[r].amount - B[r].completed]
           S == {r \in ReservationId : B[r].status = "active"}
<1>1. /\ \A r \in S : f[r] \in Int
      /\ \A r \in ReservationId : OpenPart(B)[r] = IF r \in S THEN f[r] ELSE 0
  BY DEF Reservation, OpenPart
<1>2. S \in SUBSET ReservationId /\ IsFiniteSet(ReservationId)
  BY BudgetConstants
<1> HIDE DEF f, S
<1>3. SumFunctionOnSet(f, S) = SumFunctionOnSet(OpenPart(B), ReservationId)
  BY <1>1, <1>2, SumRestrict
<1> QED BY <1>3 DEF Reserved, f, S

\* Both sums are integers.
LEMMA SumsType ==
    ASSUME NEW B \in [ReservationId -> Reservation]
    PROVE  /\ Reserved(B) \in Int
           /\ \A r \in ReservationId : OpenPart(B)[r] \in Int /\ CompletedPart(B)[r] \in Nat
           /\ SumFunctionOnSet(CompletedPart(B), ReservationId) \in Nat
<1>1. \A r \in ReservationId : OpenPart(B)[r] \in Int /\ CompletedPart(B)[r] \in Nat
  BY DEF Reservation, OpenPart, CompletedPart
<1> QED BY <1>1, ReservedIsOpen, SumType, BudgetConstants

\* The first conjunct of NeverOversold in terms of CompletedPart.
LEMMA SpentAddsUpEq ==
    SpentAddsUp <=> committed = SumFunctionOnSet(CompletedPart(reservations), ReservationId)
BY DEF SpentAddsUp, CompletedPart, SumFunction

\* A reservation that stops being active gives its open part back, and nothing
\* else changes: reclamation and cancellation.
LEMMA EndingRows ==
    ASSUME NEW B \in [ReservationId -> Reservation], NEW C,
           \A r \in ReservationId : B[r].completed <= B[r].amount,
           C \in [ReservationId -> Reservation],
           \A r \in ReservationId :
              \/ C[r] = B[r]
              \/ /\ B[r].status = "active" /\ C[r].status \in Settled
                 /\ C[r].amount = B[r].amount /\ C[r].completed = B[r].completed
    PROVE  /\ Reserved(C) <= Reserved(B)
           /\ CompletedPart(C) = CompletedPart(B)
<1>1. \A r \in ReservationId :
         OpenPart(C)[r] \in Int /\ OpenPart(B)[r] \in Int /\ OpenPart(C)[r] <= OpenPart(B)[r]
  BY DEF OpenPart, Reservation, Settled
<1>2. SumFunctionOnSet(OpenPart(C), ReservationId) <= SumFunctionOnSet(OpenPart(B), ReservationId)
  BY <1>1, BudgetConstants, SumMonotone
<1>3. CompletedPart(C) = CompletedPart(B)
  BY DEF CompletedPart
<1> QED BY <1>2, <1>3, ReservedIsOpen

\* Changing one row changes the sums by what that row contributes.
LEMMA ChangingRow ==
    ASSUME NEW B \in [ReservationId -> Reservation], NEW k \in ReservationId,
           NEW C \in [ReservationId -> Reservation], NEW row, C[k] = row,
           \A r \in ReservationId : r # k => C[r] = B[r]
    PROVE  /\ Reserved(C) = Reserved(B) - OpenPart(B)[k] +
                 (IF row.status = "active" THEN row.amount - row.completed ELSE 0)
           /\ SumFunctionOnSet(CompletedPart(C), ReservationId) =
                 SumFunctionOnSet(CompletedPart(B), ReservationId)
                     - B[k].completed + row.completed
<1>2. /\ OpenPart(C)[k] =
            (IF row.status = "active" THEN row.amount - row.completed ELSE 0)
      /\ CompletedPart(C)[k] = row.completed /\ CompletedPart(B)[k] = B[k].completed
      /\ \A r \in ReservationId : r # k => OpenPart(B)[r] = OpenPart(C)[r]
                                          /\ CompletedPart(B)[r] = CompletedPart(C)[r]
  BY DEF OpenPart, CompletedPart
<1>3. \A r \in ReservationId : OpenPart(B)[r] \in Int /\ OpenPart(C)[r] \in Int
         /\ CompletedPart(B)[r] \in Int /\ CompletedPart(C)[r] \in Int
  BY SumsType
<1>4. SumFunctionOnSet(OpenPart(C), ReservationId) =
         SumFunctionOnSet(OpenPart(B), ReservationId) - OpenPart(B)[k] + OpenPart(C)[k]
  BY <1>2, <1>3, BudgetConstants, SumUpdate
<1>5. SumFunctionOnSet(CompletedPart(C), ReservationId) =
         SumFunctionOnSet(CompletedPart(B), ReservationId)
             - CompletedPart(B)[k] + CompletedPart(C)[k]
  <2> DEFINE f == CompletedPart(B)
             g == CompletedPart(C)
  <2>1. /\ \A r \in ReservationId : f[r] \in Int /\ g[r] \in Int
        /\ \A r \in ReservationId : r # k => f[r] = g[r]
    BY <1>2, <1>3
  <2> HIDE DEF f, g
  <2>2. SumFunctionOnSet(g, ReservationId) =
            SumFunctionOnSet(f, ReservationId) - f[k] + g[k]
    BY <2>1, BudgetConstants, SumUpdate
  <2> QED BY <2>2 DEF f, g
<1> QED BY <1>2, <1>4, <1>5, ReservedIsOpen

-----------------------------------------------------------------------------
(* The authority: every step keeps the invariant.                          *)

\* An operation works with a clock value at most one lock wait old.
LEMMA NowIsTime ==
    ASSUME TypeOK
    PROVE  NowChoices \subseteq Recent /\ Recent \subseteq Nat /\ clock \in Recent
BY FenceConstants DEF TypeOK, NowChoices, Recent

\* Reclamation only ends rows.
LEMMA ReclaimEnds ==
    ASSUME TypeOK, NEW now
    PROVE  /\ Reclaim(reservations, now) \in [ReservationId -> Reservation]
           /\ \A r \in ReservationId :
                 LET C == Reclaim(reservations, now) IN
                 \/ C[r] = reservations[r]
                 \/ /\ reservations[r].status = "active" /\ C[r].status = "reclaimed"
                    /\ C[r].amount = reservations[r].amount
                    /\ C[r].completed = reservations[r].completed
                    /\ C[r].lease = reservations[r].lease
                    /\ C[r].token = reservations[r].token
BY DEF TypeOK, Reclaim, Reservation, Settled

\* The fence table keeps its shape, whoever moves it.
LEMMA FenceTypes ==
    ASSUME TypeOK, FenceNext
    PROVE  clock' \in Nat /\ nextToken' \in Nat \ {0} /\ fence' \in [LeaseId -> FenceRow]
<1> USE FenceConstants
<1>1. ASSUME NEW now \in Recent
      PROVE  now \in Nat /\ Deadline(now) \in Nat
             /\ ExpireFences(fence, now) \in [LeaseId -> FenceRow]
  BY NowIsTime DEF TypeOK, Deadline, ExpireFences, FenceRow, FenceStatuses
<1>2. ASSUME NEW l \in LeaseId, NEW now \in Recent, IssueFence(l, now)
      PROVE  clock' \in Nat /\ nextToken' \in Nat \ {0} /\ fence' \in [LeaseId -> FenceRow]
  <2> DEFINE row == [status |-> "active", expires_at |-> Deadline(now), token |-> nextToken]
  <2>1. row \in FenceRow
    BY <1>1 DEF FenceRow, FenceStatuses, TypeOK
  <2>2. /\ fence' = [ExpireFences(fence, now) EXCEPT ![l] = row]
        /\ nextToken' = nextToken + 1 /\ clock' = clock
    BY <1>2 DEF IssueFence
  <2> HIDE DEF row
  <2> QED BY <1>1, <2>1, <2>2 DEF TypeOK
<1>3. ASSUME NEW F \in [LeaseId -> FenceRow], NEW l \in LeaseId, NEW e \in Nat,
             NEW s \in FenceStatuses
      PROVE  /\ [F EXCEPT ![l] = [@ EXCEPT !.expires_at = e]] \in [LeaseId -> FenceRow]
             /\ [F EXCEPT ![l] = [@ EXCEPT !.status = s]] \in [LeaseId -> FenceRow]
  <2>1. F[l] \in FenceRow
    OBVIOUS
  <2>2. /\ [F[l] EXCEPT !.expires_at = e] \in FenceRow
        /\ [F[l] EXCEPT !.status = s] \in FenceRow
    BY <2>1 DEF FenceRow
  <2> QED BY <2>2
<1>4. ASSUME NEW l \in LeaseId, NEW now \in Recent,
             RenewFence(l, now) \/ ReleaseFence(l, now) \/ RecoverFences(now)
      PROVE  fence' \in [LeaseId -> FenceRow] /\ clock' = clock /\ nextToken' = nextToken
  <2>1. CASE RenewFence(l, now)
    BY <1>1, <1>3, <2>1 DEF RenewFence, FenceStatuses
  <2>2. CASE ReleaseFence(l, now)
    <3>1. PICK F \in {fence, ExpireFences(fence, now)} :
             /\ fence' = [F EXCEPT ![l] = [@ EXCEPT !.status = "released"]]
             /\ UNCHANGED <<clock, nextToken>>
      BY <2>2 DEF ReleaseFence
    <3>2. F \in [LeaseId -> FenceRow] /\ "released" \in FenceStatuses /\ 0 \in Nat
      BY <1>1 DEF TypeOK, FenceStatuses
    <3> QED BY <1>3, <3>1, <3>2
  <2>3. CASE RecoverFences(now)
    BY <1>1, <2>3 DEF RecoverFences
  <2> QED BY <1>4, <2>1, <2>2, <2>3
<1>5. ASSUME NEW now \in Recent, RecoverFences(now)
      PROVE  fence' \in [LeaseId -> FenceRow] /\ clock' = clock /\ nextToken' = nextToken
  BY <1>1, <1>5 DEF RecoverFences
<1>6. ASSUME Advance
      PROVE  fence' = fence /\ clock' = clock + 1 /\ nextToken' = nextToken
  BY <1>6 DEF Advance
<1> QED BY <1>2, <1>4, <1>5, <1>6 DEF FenceNext, TypeOK

\* The books are balanced before the first call.
LEMMA BudgetInvInit == Init => BudgetInv
<1> SUFFICES ASSUME Init PROVE BudgetInv
  OBVIOUS
<1>1. TypeOK
  BY DEF Init, FenceInit, TypeOK, FenceRow, FenceStatuses, NoFence, Reservation,
         NoReservation
<1>2. RowsSane
  BY DEF Init, RowsSane, NoReservation
<1>3. SpentAddsUp
  <2>1. \A r \in ReservationId : CompletedPart(reservations)[r] = 0
    BY DEF Init, CompletedPart, NoReservation
  <2>2. SumFunctionOnSet(CompletedPart(reservations), ReservationId) = 0
    BY <2>1, BudgetConstants, SumZero
  <2> QED BY <2>2, SpentAddsUpEq DEF Init
<1> QED BY <1>1, <1>2, <1>3 DEF BudgetInv, NeverOversold, Init


\* Operations that only end rows: status, reservation, cancel, and a reserve
\* that was refused or answered with the existing row.
LEMMA EndingStep ==
    ASSUME BudgetInv,
           UNCHANGED <<fenceVars, store, limit, committed>>,
           reservations' \in [ReservationId -> Reservation],
           \A r \in ReservationId :
              \/ reservations'[r] = reservations[r]
              \/ /\ reservations[r].status = "active"
                 /\ reservations'[r].status \in Settled
                 /\ reservations'[r].amount = reservations[r].amount
                 /\ reservations'[r].completed = reservations[r].completed
    PROVE  BudgetInv'
<1> USE DEF BudgetInv
<1>1. TypeOK'
  BY DEF TypeOK, fenceVars
<1>2. RowsSane'
  BY DEF RowsSane, TypeOK, Settled
<1>3. /\ Reserved(reservations') <= Reserved(reservations)
      /\ CompletedPart(reservations') = CompletedPart(reservations)
  BY EndingRows DEF TypeOK, RowsSane
<1>4. Reserved(reservations') \in Int /\ Reserved(reservations) \in Int
      /\ committed \in Nat /\ limit \in Int
  BY SumsType DEF TypeOK
<1>5. /\ committed = SumFunctionOnSet(CompletedPart(reservations), ReservationId)
      /\ limit = -1 \/ committed + Reserved(reservations) <= limit
  BY SpentAddsUpEq DEF NeverOversold
<1>6. SpentAddsUp'
  BY <1>3, <1>5 DEF SpentAddsUp, CompletedPart, SumFunction
<1>7. Reserved(reservations)' = Reserved(reservations')
  BY DEF Reserved
<1> QED BY <1>1, <1>2, <1>3, <1>4, <1>5, <1>6, <1>7 DEF NeverOversold

\* Operations that rewrite one row (after reclamation, if any): what the row
\* newly has spent is added to committed_amount, and the units it newly ties
\* up, spent or open, fit what remains.
LEMMA RewritingStep ==
    ASSUME BudgetInv,
           UNCHANGED <<fenceVars, store, limit>>, limit # -1,
           NEW B \in [ReservationId -> Reservation],
           NEW k \in ReservationId, NEW row \in Reservation,
           row.status # "none", row.completed <= row.amount,
           \A r \in ReservationId :
              /\ B[r].completed <= B[r].amount
              /\ B[r].status = "none" => B[r].completed = 0,
           SumFunctionOnSet(CompletedPart(B), ReservationId) = committed,
           reservations' = [B EXCEPT ![k] = row],
           committed' = committed + (row.completed - B[k].completed),
           B[k].completed <= row.completed,
           committed' + (Reserved(B) - OpenPart(B)[k] +
               (IF row.status = "active" THEN row.amount - row.completed ELSE 0)) <= limit
    PROVE  BudgetInv'
<1> USE DEF BudgetInv
<1>1. B[k] \in Reservation /\ B[k].completed \in Nat /\ row.completed \in Nat
      /\ committed \in Nat
  BY DEF Reservation, TypeOK
<1>2. committed' \in Nat
  BY <1>1
<1>3. TypeOK'
  BY <1>2 DEF TypeOK, fenceVars
<1>4. RowsSane'
  BY DEF RowsSane
<1>5. /\ reservations' \in [ReservationId -> Reservation]
      /\ Reserved(reservations') = Reserved(B) - OpenPart(B)[k] +
             (IF row.status = "active" THEN row.amount - row.completed ELSE 0)
      /\ SumFunctionOnSet(CompletedPart(reservations'), ReservationId) =
             SumFunctionOnSet(CompletedPart(B), ReservationId) - B[k].completed + row.completed
  <2> DEFINE C == reservations'
  <2>1. /\ C \in [ReservationId -> Reservation] /\ C[k] = row
        /\ \A r \in ReservationId : r # k => C[r] = B[r]
    OBVIOUS
  <2> HIDE DEF C
  <2>2. /\ Reserved(C) = Reserved(B) - OpenPart(B)[k] +
               (IF row.status = "active" THEN row.amount - row.completed ELSE 0)
        /\ SumFunctionOnSet(CompletedPart(C), ReservationId) =
               SumFunctionOnSet(CompletedPart(B), ReservationId) - B[k].completed + row.completed
    BY ONLY <2>1, ChangingRow, B \in [ReservationId -> Reservation], k \in ReservationId
  <2> QED BY <2>1, <2>2 DEF C
<1>6. committed' = SumFunctionOnSet(CompletedPart(reservations'), ReservationId)
  BY <1>1, <1>5
<1>7. SpentAddsUp'
  BY <1>6 DEF SpentAddsUp, CompletedPart, SumFunction
<1>8. Reserved(reservations)' = Reserved(reservations')
  BY DEF Reserved
<1> QED BY <1>3, <1>4, <1>5, <1>7, <1>8 DEF NeverOversold

\* configure, with the books still empty.
LEMMA ConfigureStep ==
    ASSUME BudgetInv, NEW lim \in 0 .. MaxLimit, Configure(lim)
    PROVE  BudgetInv'
<1> USE BudgetConstants DEF BudgetInv
<1>1. /\ limit = -1 /\ limit' = lim /\ lim \in Nat
      /\ UNCHANGED <<fenceVars, store, committed, reservations>>
  BY DEF Configure
<1>2. \A r \in ReservationId : /\ reservations[r].status = "none"
                               /\ reservations[r].completed = 0
  BY <1>1 DEF RowsSane
<1>3. Reserved(reservations) = 0 /\ committed = 0
  <2>1. \A r \in ReservationId : OpenPart(reservations)[r] = 0
                                 /\ CompletedPart(reservations)[r] = 0
    BY <1>2 DEF OpenPart, CompletedPart
  <2>2. SumFunctionOnSet(OpenPart(reservations), ReservationId) = 0
    BY <2>1, SumZero
  <2>3. SumFunctionOnSet(CompletedPart(reservations), ReservationId) = 0
    BY <2>1, SumZero
  <2> QED BY <2>2, <2>3, ReservedIsOpen, SpentAddsUpEq DEF TypeOK, NeverOversold
<1>4. TypeOK' /\ RowsSane'
  BY <1>1 DEF TypeOK, RowsSane, fenceVars
<1>5. SpentAddsUp' /\ Reserved(reservations)' = Reserved(reservations)
  BY <1>1 DEF SpentAddsUp, NeverOversold, Reserved
<1> QED BY <1>1, <1>3, <1>4, <1>5 DEF NeverOversold

\* reserve: what is promised fits what remains after reclamation.
LEMMA ReserveStep ==
    ASSUME BudgetInv, NEW r \in ReservationId, NEW amount \in Amounts,
           NEW l \in LeaseId, NEW tok \in 1 .. nextToken - 1, NEW now,
           Reserve(r, amount, l, tok, now)
    PROVE  BudgetInv'
<1> USE DEF BudgetInv
<1> DEFINE B   == Reclaim(reservations, now)
           new == [status |-> "active", amount |-> amount, completed |-> 0,
                   lease |-> l, token |-> tok]
<1>1. /\ B \in [ReservationId -> Reservation]
      /\ \A k \in ReservationId :
            \/ B[k] = reservations[k]
            \/ /\ reservations[k].status = "active" /\ B[k].status \in Settled
               /\ B[k].amount = reservations[k].amount
               /\ B[k].completed = reservations[k].completed
  BY ReclaimEnds DEF Settled
<1>2. /\ UNCHANGED <<fenceVars, store, limit, committed>>
      /\ \/ reservations' = B
         \/ /\ B[r].status = "none" /\ limit # -1 /\ amount <= Remaining(B)
            /\ reservations' = [B EXCEPT ![r] = new]
  BY DEF Reserve
<1>3. amount \in Nat \ {0} /\ tok \in Nat /\ new \in Reservation
  BY BudgetConstants DEF Amounts, Reservation, TypeOK
<1>4. /\ new.status = "active" /\ new.completed = 0 /\ new.amount = amount
  OBVIOUS
<1> HIDE DEF B, new
<1>5. CASE reservations' = B
  BY <1>1, <1>2, <1>5, EndingStep
<1>6. CASE /\ B[r].status = "none" /\ limit # -1 /\ amount <= Remaining(B)
           /\ reservations' = [B EXCEPT ![r] = new]
  <2>1. /\ \A k \in ReservationId : /\ B[k].completed <= B[k].amount
                                    /\ B[k].status = "none" => B[k].completed = 0
  BY <1>1 DEF RowsSane, Settled
  <2>2. CompletedPart(B) = CompletedPart(reservations)
    BY <1>1, EndingRows DEF TypeOK, RowsSane
  <2>3. SumFunctionOnSet(CompletedPart(B), ReservationId) = committed
    BY <2>2, SpentAddsUpEq DEF NeverOversold
  <2>4. OpenPart(B)[r] = 0 /\ B[r].completed = 0
    BY <1>6, <2>1 DEF OpenPart
  <2>5. committed + Reserved(B) + amount <= limit
    <3>1. Reserved(B) \in Int /\ committed \in Nat /\ limit \in Int
      BY <1>1, SumsType DEF TypeOK
    <3> QED BY <1>3, <1>6, <3>1 DEF Remaining
  <2>6. Reserved(B) \in Int /\ committed \in Nat /\ limit \in Int
    BY <1>1, SumsType DEF TypeOK
  <2>7. /\ committed' = committed + (new.completed - B[r].completed)
        /\ B[r].completed <= new.completed
        /\ new.status # "none" /\ new.completed <= new.amount
        /\ committed' + (Reserved(B) - OpenPart(B)[r] +
             (IF new.status = "active" THEN new.amount - new.completed ELSE 0)) <= limit
    BY <1>2, <1>3, <1>4, <2>4, <2>5, <2>6
  <2> QED BY <1>1, <1>2, <1>3, <1>6, <2>1, <2>3, <2>7, RewritingStep
<1> QED BY <1>2, <1>5, <1>6

\* consume and complete: spent units come out of the row's own open part.
LEMMA SpendStep ==
    ASSUME BudgetInv, NEW r \in ReservationId, NEW now,
           \/ \E amount \in Amounts : Consume(r, amount, now)
           \/ \E count \in 0 .. MaxLimit : Complete(r, count, now)
    PROVE  BudgetInv'
<1> USE BudgetConstants DEF BudgetInv
<1> DEFINE old == reservations[r]
           Spends(row) ==
         /\ reservations' = [reservations EXCEPT ![r] = row]
         /\ old.status = "active" /\ row.status \in {"active", "completed"}
         /\ row.amount = old.amount
         /\ old.completed <= row.completed /\ row.completed <= row.amount
         /\ committed' = committed + (row.completed - old.completed)
         /\ UNCHANGED <<fenceVars, store, limit>>
<1>1. PICK row \in Reservation : Spends(row)
  <2>1. ASSUME NEW amount \in Amounts, Consume(r, amount, now)
        PROVE  \E row \in Reservation : Spends(row)
    <3> DEFINE row == [old EXCEPT !.completed = old.completed + amount]
    <3>1. old \in Reservation /\ amount \in Nat /\ committed \in Nat
      BY DEF TypeOK, Amounts
    <3>2. row \in Reservation /\ row.completed = old.completed + amount
          /\ row.amount = old.amount /\ row.status = old.status
      BY <3>1 DEF Reservation
    <3>3. /\ reservations' = [reservations EXCEPT ![r] = row]
          /\ old.status = "active" /\ old.completed + amount <= old.amount
          /\ committed' = committed + amount /\ UNCHANGED <<fenceVars, store, limit>>
      BY <2>1 DEF Consume, TypeOK
    <3>4. old.completed \in Nat /\ old.amount \in Nat
      BY <3>1 DEF Reservation
    <3> HIDE DEF row, old
    <3> row \in Reservation
      BY <3>2
    <3> WITNESS row \in Reservation
    <3> QED BY <3>1, <3>2, <3>3, <3>4
  <2>2. ASSUME NEW count \in 0 .. MaxLimit, Complete(r, count, now)
        PROVE  \E row \in Reservation : Spends(row)
    <3> DEFINE row == [old EXCEPT !.status = "completed", !.completed = count]
    <3>1. old \in Reservation /\ count \in Nat /\ committed \in Nat
      BY DEF TypeOK
    <3>2. row \in Reservation /\ row.completed = count
          /\ row.amount = old.amount /\ row.status = "completed"
      BY <3>1 DEF Reservation, Settled
    <3>3. /\ reservations' = [reservations EXCEPT ![r] = row]
          /\ old.status = "active" /\ old.completed <= count /\ count <= old.amount
          /\ committed' = committed + (count - old.completed)
          /\ UNCHANGED <<fenceVars, store, limit>>
      BY <2>2 DEF Complete, TypeOK
    <3> HIDE DEF row, old
    <3> row \in Reservation
      BY <3>2
    <3> WITNESS row \in Reservation
    <3> QED BY <3>2, <3>3
  <2> QED BY <2>1, <2>2
<1>2. old \in Reservation /\ old.completed \in Nat /\ old.amount \in Nat
      /\ row.completed \in Nat
  BY DEF TypeOK, Reservation
<1>3. limit # -1 /\ limit \in Int /\ committed \in Nat /\ Reserved(reservations) \in Int
  BY <1>1, SumsType DEF RowsSane, TypeOK
<1>4. OpenPart(reservations)[r] = old.amount - old.completed
  BY <1>1 DEF OpenPart
<1>5. committed + Reserved(reservations) <= limit
  BY <1>3 DEF NeverOversold
<1>6. committed' + (Reserved(reservations) - OpenPart(reservations)[r] +
          (IF row.status = "active" THEN row.amount - row.completed ELSE 0)) <= limit
  BY <1>1, <1>2, <1>3, <1>4, <1>5
<1>7. /\ reservations \in [ReservationId -> Reservation]
      /\ \A k \in ReservationId :
            /\ reservations[k].completed <= reservations[k].amount
            /\ reservations[k].status = "none" => reservations[k].completed = 0
      /\ SumFunctionOnSet(CompletedPart(reservations), ReservationId) = committed
  BY SpentAddsUpEq DEF TypeOK, RowsSane, NeverOversold
<1> QED BY <1>1, <1>3, <1>6, <1>7, RewritingStep

\* Every step of the budget and of the leases keeps the invariant.
LEMMA BudgetInvNext == BudgetInv /\ [Next]_vars => BudgetInv'
<1> SUFFICES ASSUME BudgetInv, [Next]_vars PROVE BudgetInv'
  OBVIOUS
<1>1. ASSUME NEW now, Inspect(now) PROVE BudgetInv'
  <2>1. /\ reservations' = Reclaim(reservations, now)
        /\ UNCHANGED <<fenceVars, store, limit, committed>>
    BY <1>1 DEF Inspect
  <2> QED BY <2>1, ReclaimEnds, EndingStep DEF BudgetInv, Settled
<1>2. ASSUME NEW now, NEW r \in ReservationId, Cancel(r, now) PROVE BudgetInv'
  <2>1. /\ reservations' = [reservations EXCEPT ![r] = [@ EXCEPT !.status = "cancelled"]]
        /\ UNCHANGED <<fenceVars, store, limit, committed>>
        /\ reservations[r].status = "active"
    BY <1>2 DEF Cancel
  <2>2. reservations[r] \in Reservation
    BY DEF BudgetInv, TypeOK
  <2>3. [reservations[r] EXCEPT !.status = "cancelled"] \in Reservation
    BY <2>2 DEF Reservation, Settled
  <2>4. /\ reservations' \in [ReservationId -> Reservation]
        /\ \A k \in ReservationId :
              \/ reservations'[k] = reservations[k]
              \/ /\ reservations[k].status = "active"
                 /\ reservations'[k].status \in Settled
                 /\ reservations'[k].amount = reservations[k].amount
                 /\ reservations'[k].completed = reservations[k].completed
    BY <2>1, <2>2, <2>3 DEF BudgetInv, TypeOK, Reservation, Settled
  <2> QED BY <2>1, <2>4, EndingStep
<1>3. ASSUME UNCHANGED budgetVars,
             clock' \in Nat, nextToken' \in Nat \ {0}, fence' \in [LeaseId -> FenceRow]
      PROVE  BudgetInv'
  BY <1>3 DEF BudgetInv, TypeOK, RowsSane, NeverOversold, SpentAddsUp, Reserved, budgetVars
<1>4. CASE FenceNext /\ UNCHANGED budgetVars
  BY <1>3, <1>4, FenceTypes DEF BudgetInv
<1>5. CASE UNCHANGED vars
  BY <1>3, <1>5 DEF BudgetInv, TypeOK, vars, fenceVars
<1>6. CASE BudgetNext
  BY <1>1, <1>2, <1>6, ConfigureStep, ReserveStep, SpendStep DEF BudgetNext
<1> QED BY <1>4, <1>5, <1>6 DEF Next

\* The invariant of the budget authority holds in every state.
THEOREM BudgetInvariance == Spec => []BudgetInv
BY BudgetInvInit, BudgetInvNext, PTL DEF Spec

\* The two tables keep their shapes; amounts never turn negative.
THEOREM BudgetTypes == Spec => []TypeOK
<1>1. BudgetInv => TypeOK
  BY DEF BudgetInv
<1> QED BY <1>1, BudgetInvariance, PTL

\* The budget is never promised twice, for any number of reservations, however
\* leases expire, are renewed and are replaced while operations wait for the
\* lock: committed_amount is the sum of what the rows spent, and it fits the
\* limit together with every open reservation.
THEOREM NeverOversoldThm == Spec => []NeverOversold
<1>1. BudgetInv => NeverOversold
  BY DEF BudgetInv
<1> QED BY <1>1, BudgetInvariance, PTL

\* consume and complete are the only operations that change what a row has
\* spent, and both read the fence inside their transaction.
THEOREM SpendsAreFencedThm == Spec => SpendsAreFenced
<1> DEFINE Fenced == \A r \in ReservationId :
          reservations'[r].completed # reservations[r].completed
             => \E now \in Recent : Owned(reservations[r], now)
<1>1. BudgetInv /\ [Next]_vars => [Fenced]_vars
  <2> SUFFICES ASSUME BudgetInv, Next PROVE Fenced
    BY DEF vars, fenceVars, budgetVars
  <2> USE DEF BudgetInv
  <2>1. ASSUME UNCHANGED reservations PROVE Fenced
    BY <2>1
  <2>2. ASSUME NEW now, NEW B, B = Reclaim(reservations, now)
        PROVE  \A k \in ReservationId : B[k].completed = reservations[k].completed
    BY <2>2, ReclaimEnds
  <2>3. ASSUME NEW now \in NowChoices, Inspect(now) PROVE Fenced
    BY <2>2, <2>3 DEF Inspect
  <2>4. ASSUME NEW now \in NowChoices, NEW r \in ReservationId, NEW amount \in Amounts,
               NEW l \in LeaseId, NEW tok \in 1 .. nextToken - 1,
               Reserve(r, amount, l, tok, now)
        PROVE  Fenced
    <3> DEFINE B   == Reclaim(reservations, now)
               new == [status |-> "active", amount |-> amount, completed |-> 0,
                       lease |-> l, token |-> tok]
    <3>1. \/ reservations' = B
          \/ B[r].status = "none" /\ reservations' = [B EXCEPT ![r] = new]
      BY <2>4 DEF Reserve
    <3>2. new.completed = 0
      OBVIOUS
    <3>3. B \in [ReservationId -> Reservation]
          /\ \A k \in ReservationId : B[k].completed = reservations[k].completed
      BY <2>2, ReclaimEnds
    <3>4. B[r].status = "none" => reservations[r].completed = 0
      BY ReclaimEnds DEF RowsSane
    <3> HIDE DEF B, new
    <3> QED BY <3>1, <3>2, <3>3, <3>4
  <2>5. ASSUME NEW now \in NowChoices, NEW r \in ReservationId, NEW row,
               reservations' = [reservations EXCEPT ![r] = row],
               Owned(reservations[r], now)
        PROVE  Fenced
    BY <2>5, NowIsTime DEF TypeOK
  <2>6. ASSUME NEW now \in NowChoices, NEW r \in ReservationId,
               \/ \E amount \in Amounts : Consume(r, amount, now)
               \/ \E count \in 0 .. MaxLimit : Complete(r, count, now)
               \/ Cancel(r, now)
        PROVE  Fenced
    <3>1. PICK row : /\ reservations' = [reservations EXCEPT ![r] = row]
                     /\ Owned(reservations[r], now)
      BY <2>6 DEF Consume, Complete, Cancel
    <3> QED BY <2>5, <3>1
  <2>7. CASE BudgetNext
    <3>1. ASSUME NEW lim \in 0 .. MaxLimit, Configure(lim) PROVE Fenced
      BY <2>1, <3>1 DEF Configure
    <3> HIDE DEF Fenced
    <3> QED BY <2>3, <2>4, <2>6, <2>7, <3>1 DEF BudgetNext
  <2>8. CASE FenceNext /\ UNCHANGED budgetVars
    BY <2>1, <2>8 DEF budgetVars
  <2> QED BY <2>7, <2>8 DEF Next
<1> QED BY <1>1, BudgetInvariance, PTL DEF Spec, SpendsAreFenced

-----------------------------------------------------------------------------
(* The account and the authority: two sets of books.                       *)

ClaimRow == [status : {"none", "active"}, amount : Nat, consumed : Nat]
AuthorityRow == [status : {"none", "active", "completed", "cancelled"},
                 amount : Nat, consumed : Nat]

AccountTypes ==
    /\ claims \in [Account -> [ClaimId -> ClaimRow]]
    /\ spent \in [Account -> Nat]
    /\ rows \in [ClaimId -> AuthorityRow]

\* A claim never says more was consumed than the authority's row of its id
\* does, and only an open claim or an existing row has consumed anything.
ClaimsCovered ==
    /\ \A c \in ClaimId : rows[c].status = "none" => rows[c].consumed = 0
    /\ \A a \in Account, c \in ClaimId :
          /\ claims[a][c].status = "none" => claims[a][c].consumed = 0
          /\ kind = "shared" => claims[a][c].consumed <= rows[c].consumed

AccountInv == AccountTypes /\ ClaimsCovered /\ AccountBooksAgree

\* What an account with these books has consumed.
ConsumedPart(C) == [c \in ClaimId |-> C[c].consumed]
BookTotal(s, C) == s + SumFunctionOnSet(ConsumedPart(C), ClaimId)
BookTotals(S, C) == [a \in Account |-> BookTotal(S[a], C[a])]

\* A sum over the claims of one account moves with the one claim that changed.
LEMMA ClaimChange ==
    ASSUME NEW C, NEW D, NEW k \in ClaimId,
           \A c \in ClaimId : C[c].consumed \in Nat /\ D[c].consumed \in Nat,
           \A c \in ClaimId : c # k => D[c] = C[c]
    PROVE  /\ SumFunctionOnSet(ConsumedPart(C), ClaimId) \in Nat
           /\ SumFunctionOnSet(ConsumedPart(D), ClaimId) =
                 SumFunctionOnSet(ConsumedPart(C), ClaimId) - C[k].consumed + D[k].consumed
<1> DEFINE f == ConsumedPart(C)
           g == ConsumedPart(D)
<1>1. /\ \A c \in ClaimId : f[c] \in Nat
      /\ \A c \in ClaimId : f[c] \in Int /\ g[c] \in Int
      /\ \A c \in ClaimId : c # k => f[c] = g[c]
      /\ f[k] = C[k].consumed /\ g[k] = D[k].consumed
  BY DEF ConsumedPart
<1> HIDE DEF f, g
<1>2. IsFiniteSet(ClaimId)
  BY AccountAssumption
<1>3. SumFunctionOnSet(g, ClaimId) = SumFunctionOnSet(f, ClaimId) - f[k] + g[k]
  BY <1>1, <1>2, SumUpdate
<1>4. SumFunctionOnSet(f, ClaimId) \in Nat
  BY <1>1, <1>2, SumType
<1> QED BY <1>1, <1>3, <1>4 DEF f, g

\* Consumed and AllConsumed in these terms: claims that are not open have
\* consumed nothing.
LEMMA BooksEq ==
    ASSUME NEW C \in [Account -> [ClaimId -> ClaimRow]], NEW S \in [Account -> Nat],
           \A a \in Account, c \in ClaimId : C[a][c].status = "none" => C[a][c].consumed = 0
    PROVE  \A a \in Account :
              /\ S[a] + SumFunctionOnSet([c \in ClaimId |-> C[a][c].consumed],
                                         {c \in ClaimId : C[a][c].status = "active"})
                   = BookTotal(S[a], C[a])
              /\ BookTotal(S[a], C[a]) \in Nat
<1> SUFFICES ASSUME NEW a \in Account
             PROVE  /\ S[a] + SumFunctionOnSet([c \in ClaimId |-> C[a][c].consumed],
                                         {c \in ClaimId : C[a][c].status = "active"})
                          = BookTotal(S[a], C[a])
                    /\ BookTotal(S[a], C[a]) \in Nat
  OBVIOUS
<1> DEFINE f == [c \in ClaimId |-> C[a][c].consumed]
           g == ConsumedPart(C[a])
           O == {c \in ClaimId : C[a][c].status = "active"}
<1>1. /\ O \in SUBSET ClaimId
      /\ \A c \in O : f[c] \in Int
      /\ \A c \in ClaimId : g[c] = IF c \in O THEN f[c] ELSE 0
      /\ \A c \in ClaimId : g[c] \in Nat
  BY DEF ConsumedPart, ClaimRow
<1> HIDE DEF f, g, O
<1>2. IsFiniteSet(ClaimId)
  BY AccountAssumption
<1>3. SumFunctionOnSet(f, O) = SumFunctionOnSet(g, ClaimId)
  BY <1>1, <1>2, SumRestrict
<1>4. SumFunctionOnSet(g, ClaimId) \in Nat
  BY <1>1, <1>2, SumType
<1> QED BY <1>3, <1>4 DEF f, g, O, BookTotal

\* The books of all accounts, in a state with the shapes above.
AgreeOn(S, C, R) ==
    SumFunctionOnSet(BookTotals(S, C), Account) = SumFunctionOnSet(ConsumedPart(R), ClaimId)

\* AccountBooksAgree in terms of those sums.
LEMMA AllConsumedEq ==
    AccountTypes /\ ClaimsCovered =>
        (AccountBooksAgree <=> (kind = "shared" => AgreeOn(spent, claims, rows)))
<1> SUFFICES ASSUME AccountTypes, ClaimsCovered
             PROVE  AccountBooksAgree <=> (kind = "shared" => AgreeOn(spent, claims, rows))
  OBVIOUS
<1>1. \A a \in Account : Consumed(a) = BookTotals(spent, claims)[a]
  BY BooksEq DEF AccountTypes, ClaimsCovered, Consumed, ActiveClaims, BookTotals
<1>2. AllConsumed = SumFunctionOnSet([a \in Account |-> Consumed(a)], Account)
  BY DEF AllConsumed, SumFunction
<1>3. [a \in Account |-> Consumed(a)] = BookTotals(spent, claims)
  BY <1>1 DEF BookTotals
<1>4. SumFunction([c \in ClaimId |-> rows[c].consumed])
         = SumFunctionOnSet(ConsumedPart(rows), ClaimId)
  BY DEF SumFunction, ConsumedPart
<1> QED BY <1>2, <1>3, <1>4 DEF AccountBooksAgree, AgreeOn

\* One account and one row move together: what account a newly consumed is
\* what row k newly consumed.
MoveTogether(S, C, R, T, D, Q, a, k) ==
    /\ S \in [Account -> Nat] /\ T \in [Account -> Nat]
    /\ C \in [Account -> [ClaimId -> ClaimRow]] /\ D \in [Account -> [ClaimId -> ClaimRow]]
    /\ R \in [ClaimId -> AuthorityRow] /\ Q \in [ClaimId -> AuthorityRow]
    /\ a \in Account /\ k \in ClaimId
    /\ \A b \in Account : b # a => T[b] = S[b] /\ D[b] = C[b]
    /\ \A c \in ClaimId : c # k => D[a][c] = C[a][c] /\ Q[c] = R[c]
    /\ T[a] - S[a] + (D[a][k].consumed - C[a][k].consumed) = Q[k].consumed - R[k].consumed

\* Then agreement is kept.
LEMMA BooksMove ==
    ASSUME NEW S, NEW C, NEW R, NEW T, NEW D, NEW Q, NEW a, NEW k,
           MoveTogether(S, C, R, T, D, Q, a, k), AgreeOn(S, C, R)
    PROVE  AgreeOn(T, D, Q)
<1> USE DEF MoveTogether
<1>1. /\ \A b \in Account, c \in ClaimId : C[b][c].consumed \in Nat /\ D[b][c].consumed \in Nat
      /\ \A c \in ClaimId : R[c].consumed \in Nat /\ Q[c].consumed \in Nat
      /\ \A b \in Account : S[b] \in Nat /\ T[b] \in Nat
  BY DEF ClaimRow, AuthorityRow
<1> DEFINE SumOf(X) == SumFunctionOnSet(ConsumedPart(X), ClaimId)
<1>2. \A b \in Account : SumOf(C[b]) \in Nat /\ SumOf(D[b]) \in Nat
  BY <1>1, ClaimChange
<1>3. SumOf(D[a]) = SumOf(C[a]) - C[a][k].consumed + D[a][k].consumed
  BY <1>1, ClaimChange
<1>4. SumOf(Q) = SumOf(R) - R[k].consumed + Q[k].consumed /\ SumOf(R) \in Nat
  BY <1>1, ClaimChange
<1> HIDE DEF SumOf
<1> DEFINE f == BookTotals(S, C)
           g == BookTotals(T, D)
<1>5. \A b \in Account : f[b] = S[b] + SumOf(C[b]) /\ g[b] = T[b] + SumOf(D[b])
  BY DEF BookTotals, BookTotal, SumOf
<1>6. /\ \A b \in Account : f[b] \in Int /\ g[b] \in Int
      /\ \A b \in Account : b # a => f[b] = g[b]
  BY <1>1, <1>2, <1>5
<1>7. SumFunctionOnSet(f, Account) = SumOf(R)
  BY DEF AgreeOn, SumOf
<1>8. g[a] - f[a] = Q[k].consumed - R[k].consumed
  BY <1>1, <1>2, <1>3, <1>5
<1> HIDE DEF f, g
<1>9. IsFiniteSet(Account)
  BY AccountAssumption
<1>10. SumFunctionOnSet(g, Account) = SumFunctionOnSet(f, Account) - f[a] + g[a]
  BY <1>6, <1>9, SumUpdate
<1>11. SumFunctionOnSet(g, Account) = SumOf(Q)
  <2>1. /\ f[a] \in Int /\ g[a] \in Int
        /\ Q[k].consumed \in Int /\ R[k].consumed \in Int
    BY <1>1, <1>6
  <2>2. SumFunctionOnSet(g, Account) = SumOf(R) + (g[a] - f[a])
    BY <1>4, <1>7, <1>10, <2>1
  <2>3. SumOf(Q) = SumOf(R) + (Q[k].consumed - R[k].consumed)
    BY <1>4, <2>1
  <2> QED BY <1>8, <2>2, <2>3
<1> QED BY <1>11 DEF g, SumOf, AgreeOn

\* A call of an account: it changes one claim, its own sum of spent units and
\* at most the row of that id.
LEMMA AccountStep ==
    ASSUME AccountInv, kind' = kind, NEW a \in Account, NEW k \in ClaimId,
           NEW cl \in ClaimRow, NEW n \in Nat, NEW row \in AuthorityRow,
           claims' = [claims EXCEPT ![a][k] = cl],
           spent' = [spent EXCEPT ![a] = spent[a] + n],
           rows' = [rows EXCEPT ![k] = row],
           cl.status = "none" => cl.consumed = 0,
           row.status = "none" => row.consumed = 0,
           kind = "shared" =>
              /\ rows[k].consumed <= row.consumed
              /\ cl.consumed <= row.consumed
              /\ n + (cl.consumed - claims[a][k].consumed) = row.consumed - rows[k].consumed
    PROVE  AccountInv'
<1> USE DEF AccountInv
<1>1. /\ claims \in [Account -> [ClaimId -> ClaimRow]] /\ spent \in [Account -> Nat]
      /\ rows \in [ClaimId -> AuthorityRow]
  BY DEF AccountTypes
<1>2. /\ claims' \in [Account -> [ClaimId -> ClaimRow]] /\ spent' \in [Account -> Nat]
      /\ rows' \in [ClaimId -> AuthorityRow]
  BY <1>1
<1>3. /\ claims'[a][k] = cl /\ rows'[k] = row /\ spent'[a] = spent[a] + n
      /\ \A b \in Account : b # a => spent'[b] = spent[b] /\ claims'[b] = claims[b]
      /\ \A c \in ClaimId : c # k => claims'[a][c] = claims[a][c] /\ rows'[c] = rows[c]
  BY <1>1
<1>4. AccountTypes'
  BY <1>2 DEF AccountTypes
<1>5. /\ \A b \in Account, c \in ClaimId : claims[b][c].consumed \in Nat
      /\ \A c \in ClaimId : rows[c].consumed \in Nat
      /\ cl.consumed \in Nat /\ row.consumed \in Nat
  BY <1>1 DEF ClaimRow, AuthorityRow
<1>6. ClaimsCovered'
  <2> SUFFICES ASSUME NEW b \in Account, NEW c \in ClaimId
               PROVE  /\ rows'[c].status = "none" => rows'[c].consumed = 0
                      /\ claims'[b][c].status = "none" => claims'[b][c].consumed = 0
                      /\ kind = "shared" => claims'[b][c].consumed <= rows'[c].consumed
    BY DEF ClaimsCovered
  <2>1. CASE c # k
    BY <1>3, <2>1 DEF ClaimsCovered
  <2>2. CASE c = k /\ b = a
    BY <1>3, <2>2
  <2>3. CASE c = k /\ b # a
    <3>1. kind = "shared" => claims[b][k].consumed <= rows[k].consumed
      BY DEF ClaimsCovered
    <3> QED BY <1>3, <1>5, <2>3, <3>1 DEF ClaimsCovered
  <2> QED BY <2>1, <2>2, <2>3
<1>7. kind = "shared" => AgreeOn(spent', claims', rows')
  <2> SUFFICES ASSUME kind = "shared" PROVE AgreeOn(spent', claims', rows')
    OBVIOUS
  <2>1. AgreeOn(spent, claims, rows)
    BY AllConsumedEq
  <2>2. spent'[a] - spent[a] + (claims'[a][k].consumed - claims[a][k].consumed)
           = rows'[k].consumed - rows[k].consumed
    BY <1>1, <1>3, <1>5
  <2>3. MoveTogether(spent, claims, rows, spent', claims', rows', a, k)
    BY <1>1, <1>2, <1>3, <2>2 DEF MoveTogether
  <2> QED BY <2>1, <2>3, BooksMove
<1>8. (AccountBooksAgree <=> (kind = "shared" => AgreeOn(spent, claims, rows)))'
  BY <1>4, <1>6, AllConsumedEq, PTL
<1>9. AgreeOn(spent, claims, rows)' = AgreeOn(spent', claims', rows')
  BY DEF AgreeOn, BookTotals, BookTotal, ConsumedPart
<1> QED BY <1>4, <1>6, <1>7, <1>8, <1>9

\* A fresh claim, and the claim the account knows.
LEMMA AccountReserves ==
    ASSUME AccountInv, NEW a \in Account, NEW k \in ClaimId, NEW n \in 1 .. HandleLimit,
           ReserveClaim(a, k, n)
    PROVE  AccountInv'
<1> USE DEF AccountInv
<1> DEFINE fresh == [status |-> "active", amount |-> n, consumed |-> 0]
           cl == IF claims[a][k].status # "none" THEN claims[a][k] ELSE fresh
<1>1. /\ claims \in [Account -> [ClaimId -> ClaimRow]] /\ spent \in [Account -> Nat]
      /\ rows \in [ClaimId -> AuthorityRow]
  BY DEF AccountTypes
<1>2. fresh \in ClaimRow /\ fresh \in AuthorityRow /\ fresh.consumed = 0
      /\ fresh.status = "active"
  BY AccountAssumption DEF ClaimRow, AuthorityRow
<1>3. cl \in ClaimRow /\ cl.consumed = claims[a][k].consumed /\ cl.status # "none"
  BY <1>1, <1>2 DEF ClaimsCovered
<1>4. PICK row \in {rows[k], fresh} :
         /\ rows' = [rows EXCEPT ![k] = row]
         /\ row = rows[k] \/ rows[k].status = "none"
  <2>1. rows' = rows \/ (rows[k].status = "none" /\ rows' = [rows EXCEPT ![k] = fresh])
    BY DEF ReserveClaim
  <2>2. rows = [rows EXCEPT ![k] = rows[k]]
    BY <1>1
  <2>3. CASE rows' = rows
    BY <2>2, <2>3
  <2> HIDE DEF fresh
  <2>4. CASE rows[k].status = "none" /\ rows' = [rows EXCEPT ![k] = fresh]
    BY <2>4
  <2> QED BY <2>1, <2>3, <2>4
<1>5. /\ row \in AuthorityRow /\ row.consumed = rows[k].consumed
      /\ row.status = "none" => row.consumed = 0
  BY <1>1, <1>2, <1>4 DEF ClaimsCovered
<1>6. /\ claims' = [claims EXCEPT ![a][k] = cl]
      /\ spent' = [spent EXCEPT ![a] = spent[a] + 0]
      /\ kind' = kind
  BY <1>1 DEF ReserveClaim
<1>7. /\ claims[a][k].consumed \in Nat /\ rows[k].consumed \in Nat
      /\ kind = "shared" => claims[a][k].consumed <= rows[k].consumed
  BY <1>1 DEF ClaimRow, AuthorityRow, ClaimsCovered
<1> HIDE DEF cl, fresh
<1>8. kind = "shared" =>
         /\ rows[k].consumed <= row.consumed
         /\ cl.consumed <= row.consumed
         /\ 0 + (cl.consumed - claims[a][k].consumed) = row.consumed - rows[k].consumed
  BY <1>3, <1>5, <1>7
<1> QED BY <1>3, <1>4, <1>5, <1>6, <1>8, AccountStep

\* A unit is consumed in both books.
LEMMA AccountConsumes ==
    ASSUME AccountInv, NEW a \in Account, NEW k \in ClaimId, ConsumeClaim(a, k)
    PROVE  AccountInv'
<1> USE DEF AccountInv
<1> DEFINE cl == [claims[a][k] EXCEPT !.consumed = claims[a][k].consumed + 1]
           row == IF kind = "local" THEN rows[k]
                  ELSE [rows[k] EXCEPT !.consumed = rows[k].consumed + 1]
<1>1. /\ claims \in [Account -> [ClaimId -> ClaimRow]] /\ spent \in [Account -> Nat]
      /\ rows \in [ClaimId -> AuthorityRow]
  BY DEF AccountTypes
<1>2. /\ claims[a][k] \in ClaimRow /\ rows[k] \in AuthorityRow
      /\ claims[a][k].status = "active" /\ kind' = kind
      /\ kind = "local" \/ (kind = "shared" /\ rows[k].status = "active")
  BY <1>1 DEF ConsumeClaim
<1>3. /\ claims' = [claims EXCEPT ![a][k] = cl]
      /\ spent' = [spent EXCEPT ![a] = spent[a] + 0]
      /\ rows' = [rows EXCEPT ![k] = row]
  BY <1>1 DEF ConsumeClaim
<1>4. /\ cl \in ClaimRow /\ cl.consumed = claims[a][k].consumed + 1 /\ cl.status = "active"
      /\ row \in AuthorityRow
      /\ kind = "local" => row = rows[k]
      /\ kind = "shared" => row.consumed = rows[k].consumed + 1 /\ row.status = "active"
  BY <1>2 DEF ClaimRow, AuthorityRow
<1>5. /\ claims[a][k].consumed \in Nat /\ rows[k].consumed \in Nat
      /\ kind = "shared" => claims[a][k].consumed <= rows[k].consumed
      /\ rows[k].status = "none" => rows[k].consumed = 0
  BY <1>1 DEF ClaimRow, AuthorityRow, ClaimsCovered
<1>6. /\ kind = "shared" =>
            /\ rows[k].consumed <= row.consumed
            /\ cl.consumed <= row.consumed
            /\ 0 + (cl.consumed - claims[a][k].consumed) = row.consumed - rows[k].consumed
      /\ row.status = "none" => row.consumed = 0
  BY <1>2, <1>4, <1>5
<1> HIDE DEF cl, row
<1> QED BY <1>2, <1>3, <1>4, <1>6, AccountStep

\* A claim is closed: the row keeps or takes the claim's count.
LEMMA AccountCloses ==
    ASSUME AccountInv, NEW a \in Account, NEW k \in ClaimId,
           CompleteClaim(a, k) \/ CancelClaim(a, k)
    PROVE  AccountInv'
<1> USE DEF AccountInv
<1>1. /\ claims \in [Account -> [ClaimId -> ClaimRow]] /\ spent \in [Account -> Nat]
      /\ rows \in [ClaimId -> AuthorityRow]
  BY DEF AccountTypes
<1>2. /\ claims[a][k] \in ClaimRow /\ rows[k] \in AuthorityRow
      /\ claims[a][k].consumed \in Nat /\ rows[k].consumed \in Nat
      /\ kind = "shared" => claims[a][k].consumed <= rows[k].consumed
      /\ rows[k].status = "none" => rows[k].consumed = 0
  BY <1>1 DEF ClaimRow, AuthorityRow, ClaimsCovered
<1>3. NoClaim \in ClaimRow /\ NoClaim.consumed = 0
  BY DEF NoClaim, ClaimRow
<1>4. /\ claims' = [claims EXCEPT ![a][k] = NoClaim]
      /\ spent' = [spent EXCEPT ![a] = spent[a] + claims[a][k].consumed]
      /\ kind' = kind
  BY <1>1 DEF CompleteClaim, CancelClaim, CloseClaim
<1>5. PICK row \in AuthorityRow :
         /\ rows' = [rows EXCEPT ![k] = row] /\ row.consumed = rows[k].consumed
         /\ row.status = "none" => row = rows[k]
  <2>1. ASSUME NEW s \in {"completed", "cancelled"}
        PROVE  /\ [rows[k] EXCEPT !.status = s] \in AuthorityRow
               /\ [rows[k] EXCEPT !.status = s].consumed = rows[k].consumed
               /\ [rows[k] EXCEPT !.status = s].status # "none"
    BY <1>2 DEF AuthorityRow
  <2>2. rows = [rows EXCEPT ![k] = rows[k]]
    BY <1>1
  <2>3. CASE rows' = rows
    BY <1>2, <2>2, <2>3
  <2>4. CASE \E s \in {"completed", "cancelled"} :
                rows' = [rows EXCEPT ![k] = [rows[k] EXCEPT !.status = s]]
    <3>1. PICK s \in {"completed", "cancelled"} :
                rows' = [rows EXCEPT ![k] = [rows[k] EXCEPT !.status = s]]
      BY <2>4
    <3> QED BY <2>1, <3>1
  <2>5. CASE /\ kind = "shared" /\ rows[k].consumed <= claims[a][k].consumed
             /\ rows' = [rows EXCEPT ![k] = [rows[k] EXCEPT !.status = "completed",
                                                 !.consumed = claims[a][k].consumed]]
    <3>1. claims[a][k].consumed = rows[k].consumed
      BY <1>2, <2>5
    <3>2. [rows[k] EXCEPT !.status = "completed", !.consumed = claims[a][k].consumed]
            = [rows[k] EXCEPT !.status = "completed"]
      BY <1>2, <3>1 DEF AuthorityRow
    <3> QED BY <2>1, <2>5, <3>2
  <2>6. CASE CompleteClaim(a, k)
    BY <2>3, <2>5, <2>6 DEF CompleteClaim
  <2>7. CASE CancelClaim(a, k)
    <3>1. \/ rows' = rows
          \/ rows' = [rows EXCEPT ![k] = [rows[k] EXCEPT !.status = "cancelled"]]
      BY <1>1, <2>7 DEF CancelClaim
    <3> QED BY <2>3, <2>4, <3>1
  <2> QED BY <2>6, <2>7
<1>6. /\ row.status = "none" => row.consumed = 0
      /\ kind = "shared" =>
            /\ rows[k].consumed <= row.consumed
            /\ NoClaim.consumed <= row.consumed
            /\ claims[a][k].consumed + (NoClaim.consumed - claims[a][k].consumed)
                  = row.consumed - rows[k].consumed
  BY <1>2, <1>3, <1>5
<1> QED BY <1>2, <1>3, <1>4, <1>5, <1>6, AccountStep

\* Every call of every account keeps the invariant.
LEMMA AccountInvNext == AccountInv /\ [AccountNext]_accountVars => AccountInv'
<1> SUFFICES ASSUME AccountInv, [AccountNext]_accountVars PROVE AccountInv'
  OBVIOUS
<1>1. ASSUME UNCHANGED <<kind, claims, spent, rows>> PROVE AccountInv'
  BY <1>1 DEF AccountInv, AccountTypes, ClaimsCovered, AccountBooksAgree, AllConsumed,
              Consumed, ActiveClaims
<1>2. CASE AccountNext
  BY <1>1, <1>2, AccountReserves, AccountConsumes, AccountCloses DEF AccountNext, FenceLost
<1>3. CASE UNCHANGED accountVars
  BY <1>1, <1>3 DEF accountVars
<1> QED BY <1>2, <1>3

\* The invariant of the accounts at the start.
LEMMA AccountInvInit == AccountInit => AccountInv
<1> SUFFICES ASSUME AccountInit PROVE AccountInv
  OBVIOUS
<1>1. AccountTypes /\ ClaimsCovered
  BY DEF AccountInit, AccountTypes, ClaimsCovered, NoClaim, ClaimRow, AuthorityRow
<1>2. \A a \in Account, c \in ClaimId : claims[a][c].consumed = 0 /\ rows[c].consumed = 0
  BY DEF AccountInit, NoClaim
<1>3. SumFunctionOnSet(ConsumedPart(rows), ClaimId) = 0
  <2>1. \A c \in ClaimId : ConsumedPart(rows)[c] = 0
    BY <1>2 DEF ConsumedPart, AccountInit, NoClaim
  <2> QED BY <2>1, AccountAssumption, SumZero
<1>4. \A a \in Account : SumFunctionOnSet(ConsumedPart(claims[a]), ClaimId) = 0
  <2> TAKE a \in Account
  <2>1. \A c \in ClaimId : ConsumedPart(claims[a])[c] = 0
    BY <1>2 DEF ConsumedPart
  <2> QED BY <2>1, AccountAssumption, SumZero
<1>5. SumFunctionOnSet(BookTotals(spent, claims), Account) = 0
  <2>1. \A a \in Account : BookTotals(spent, claims)[a] = 0
    BY <1>4 DEF BookTotals, BookTotal, AccountInit
  <2> QED BY <2>1, AccountAssumption, SumZero
<1> QED BY <1>1, <1>3, <1>5, AllConsumedEq DEF AccountInv, AgreeOn

\* The accounts and the authority agree on every unit consumed, for any number
\* of accounts and reservation ids: although two accounts may hold claims on
\* one row, an account may reserve an id again after closing it, and the lease
\* may be lost between the authority's answer and the next call.
THEOREM AccountBooksAgreeThm == AccountSpec => []AccountBooksAgree
<1>1. AccountInv => AccountBooksAgree
  BY DEF AccountInv
<1> QED BY <1>1, AccountInvInit, AccountInvNext, PTL DEF AccountSpec


-----------------------------------------------------------------------------
(* Delegation: what holds of every delegation, and where its invocation is. *)

Steps == Live \cup {"idle", "ended", "dead"}
ReservationStatus == {"none", "active", "completed", "cancelled", "reclaimed"}

DelegationTypes ==
    /\ step \in [Invocation -> Steps]
    /\ at \in [Invocation -> Nat]
    /\ sweep \in [Invocation -> SUBSET (Delegation \X JournalStatus)]
    /\ marks \in [Invocation -> SUBSET (Delegation \X JournalStatus)]
    /\ undo \in [Invocation -> SUBSET (Nat \X {"cancel", "archive"})]
    /\ used \in [Invocation -> Nat]
    /\ journal \in [Delegation -> JournalStatus]
    /\ reserved \in [Delegation -> [status : ReservationStatus, completed : Nat]]
    /\ child \in [Delegation -> [spent : Nat, open : Nat]]

Charge(d) == child[d].spent + child[d].open
Charged(d) == reserved[d] = [status |-> "completed", completed |-> Charge(d)]

\* While a parent's lease is current its confirmed reservations stay active.
Confirmed(d) == reserved[d].status = "active" \/ ~Held(d)

\* No reservation and no record, because the invocation has not come to it.
Untouched(d) == reserved[d].status = "none" /\ journal[d] = "none"

\* A reservation and its child, whatever the invocation does.
Covered(d) ==
    /\ Charge(d) <= Amount
    /\ reserved[d].status \in {"none", "cancelled"} => Charge(d) = 0
    /\ reserved[d].status = "none" => reserved[d].completed = 0
    /\ reserved[d].status = "reclaimed" => ~Held(d)
    /\ reserved[d].status = "active" => reserved[d].completed <= Charge(d)
    /\ reserved[d].status = "completed" => Charged(d)
    /\ journal[d] \in {"none", "reserve_intent"} => Charge(d) = 0
    /\ journal[d] = "settled" => Charged(d)
    /\ journal[d] \in Archived => ~Active(d)

\* Where an invocation is says how far its own delegations are.
Progress(i) ==
    LET d == Mine(i) IN
    /\ step[i] \in {"prepare", "reserve", "mark", "usage", "consume", "complete", "close"}
          => at[i] \in Budget
    /\ step[i] \in {"idle", "sweep", "run"} => at[i] = 1
    /\ step[i] = "idle" => marks[i] = {}
    /\ \A b \in Budget :
          /\ step[i] \in {"idle", "sweep", "prepare"} /\ b >= at[i] => Untouched(<<i, b>>)
          /\ step[i] \in {"reserve", "mark"} /\ b > at[i] => Untouched(<<i, b>>)
          /\ step[i] \in {"prepare", "reserve", "mark"} /\ b < at[i]
                => Confirmed(<<i, b>>) /\ Charge(<<i, b>>) = 0
                   /\ journal[<<i, b>>] = "prepared"
          /\ step[i] = "rollback" =>
                /\ Charge(<<i, b>>) = 0
                /\ Active(<<i, b>>) => <<b, "cancel">> \in undo[i]
          /\ step[i] = "run" =>
                /\ Confirmed(<<i, b>>) /\ journal[<<i, b>>] = "prepared"
                /\ reserved[<<i, b>>].status = "active" => reserved[<<i, b>>].completed = 0
          /\ step[i] = "usage" /\ b >= at[i] => Confirmed(<<i, b>>)
          /\ step[i] \in {"consume", "complete", "close"} /\ b > at[i] => Confirmed(<<i, b>>)
    /\ step[i] = "reserve" => reserved[d].status = "none" /\ journal[d] = "reserve_intent"
    /\ step[i] = "mark" => Confirmed(d) /\ journal[d] = "reserve_intent"
    /\ step[i] \in {"consume", "complete"} =>
          Confirmed(d) /\ (Held(d) => used[i] = Charge(d))
    /\ step[i] = "close" => Charged(d)

\* A sweep works on delegations whose invocation is over.
SweepsOver(i) ==
    step[i] = "sweep" =>
        /\ \A d \in Delegation, s \in JournalStatus :
              <<d, s>> \in sweep[i] =>
                 /\ step[d[1]] \in {"ended", "dead"}
                 /\ s = "reserve_intent" => Charge(d) = 0
        /\ \A d \in Delegation, s \in JournalStatus :
              <<d, s>> \in marks[i] =>
                 /\ step[d[1]] \in {"ended", "dead"}
                 /\ s \in {"settled", "reclaimed", "retry_required"}
                 /\ s = "settled" => Charged(d)
                 /\ s = "reclaimed" => ~Active(d)

DelegationInv ==
    /\ DelegationTypes
    /\ \A i, j \in Invocation : step[i] \in Live /\ step[j] \in Live => i = j
    /\ \A d \in Delegation : Covered(d)
    /\ \A i \in Invocation : Progress(i) /\ SweepsOver(i)

\* A delegation is the pair of its invocation and its budget.
LEMMA DelegationPairs ==
    /\ \A d \in Delegation : d[1] \in Invocation /\ d[2] \in Budget /\ d = <<d[1], d[2]>>
    /\ \A i \in Invocation, b \in Budget :
          <<i, b>> \in Delegation /\ <<i, b>>[1] = i /\ <<i, b>>[2] = b
BY DEF Delegation

\* What reclamation does to one reservation.
LEMMA ReclaimedRow ==
    ASSUME DelegationTypes
    PROVE  /\ Reclaimed(reserved) \in [Delegation -> [status : ReservationStatus, completed : Nat]]
           /\ \A d \in Delegation :
                 \/ Reclaimed(reserved)[d] = reserved[d]
                 \/ /\ reserved[d].status = "active" /\ ~Held(d)
                    /\ Reclaimed(reserved)[d].status = "reclaimed"
                    /\ Reclaimed(reserved)[d].completed = reserved[d].completed
BY DEF Reclaimed, DelegationTypes, ReservationStatus

\* A delegation nobody works on, except for reclamation.
Left(d) ==
    /\ child'[d] = child[d] /\ journal'[d] = journal[d]
    /\ \/ reserved'[d] = reserved[d]
       \/ /\ reserved[d].status = "active" /\ ~Held(d)
          /\ reserved'[d].status = "reclaimed"
          /\ reserved'[d].completed = reserved[d].completed

\* Such a delegation keeps its part of the invariant and its charge.
LEMMA LeftStays ==
    ASSUME DelegationInv, current' = current, NEW d \in Delegation, Left(d)
    PROVE  /\ Covered(d)'
           /\ Confirmed(d) => Confirmed(d)'
           /\ Untouched(d) => Untouched(d)'
           /\ Charge(d)' = Charge(d)
           /\ Active(d)' => Active(d)
           /\ Charged(d) => Charged(d)'
<1>1. Held(d)' = Held(d) /\ Charge(d)' = Charge(d) /\ Covered(d)
  BY DEF DelegationInv, Left, Held, Charge
<1>2. CASE reserved'[d] = reserved[d]
  BY <1>1, <1>2 DEF Left, Covered, Confirmed, Untouched, Active, Charged
<1>3. CASE /\ reserved[d].status = "active" /\ ~Held(d)
           /\ reserved'[d].status = "reclaimed"
           /\ reserved'[d].completed = reserved[d].completed
  <2>1. ~Charged(d)
    BY <1>3 DEF Charged
  <2>2. ~Active(d)' /\ Confirmed(d)'
    BY <1>1, <1>3 DEF Active, Confirmed
  <2>3. journal[d] # "settled"
    BY <1>1, <2>1 DEF Covered
  <2> QED BY <1>1, <1>3, <2>1, <2>2, <2>3 DEF Left, Covered, Untouched
<1> QED BY <1>2, <1>3 DEF Left

\* A live invocation works on its own delegations: nobody else is under way.
LEMMA OwnStep ==
    ASSUME DelegationInv, NEW i \in Invocation, step[i] \in Live, current' = current,
           \A d \in Delegation : d[1] # i => Left(d),
           NEW s \in Steps \ {"sweep", "idle"}, step' = [step EXCEPT ![i] = s],
           \A j \in Invocation : j # i => at'[j] = at[j] /\ marks'[j] = marks[j],
           DelegationTypes', \A b \in Budget : Covered(<<i, b>>)', Progress(i)'
    PROVE  DelegationInv'
<1>1. \A d \in Delegation : Covered(d)'
  BY LeftStays, DelegationPairs
<1>2. step \in [Invocation -> Steps] /\ step'[i] = s
      /\ \A j \in Invocation : j # i => step'[j] = step[j] /\ step[j] \notin Live
  BY DEF DelegationInv, DelegationTypes
<1>3. \A j, k \in Invocation : step'[j] \in Live /\ step'[k] \in Live => j = k
  BY <1>2
<1>4. \A j \in Invocation : Progress(j)' /\ SweepsOver(j)'
  <2> SUFFICES ASSUME NEW j \in Invocation PROVE Progress(j)' /\ SweepsOver(j)'
    OBVIOUS
  <2>1. CASE j = i
    BY <1>2, <2>1 DEF SweepsOver
  <2>2. CASE j # i
    <3>1. /\ step'[j] \in {"idle", "ended", "dead"} /\ step'[j] = step[j]
          /\ at'[j] = at[j] /\ marks'[j] = marks[j]
      BY <1>2, <2>2 DEF Steps
    <3>2. ASSUME NEW b \in Budget PROVE Untouched(<<j, b>>) => Untouched(<<j, b>>)'
      BY <2>2, LeftStays, DelegationPairs
    <3>3. Progress(j)
      BY DEF DelegationInv
    <3>4. SweepsOver(j)'
      BY <3>1 DEF SweepsOver
    <3>5. Progress(j)'
      BY <3>1, <3>2, <3>3 DEF Progress
    <3> QED BY <3>4, <3>5
  <2> QED BY <2>1, <2>2
<1> QED BY <1>1, <1>3, <1>4 DEF DelegationInv

\* Steps of an invocation that leave both databases alone.
LEMMA QuietSteps ==
    ASSUME DelegationInv, NEW i \in Invocation,
           SweepDone(i) \/ RollbackDone(i) \/ ChildEnds(i)
    PROVE  DelegationInv'
<1>1. /\ step[i] \in Live /\ current' = current /\ at' = at /\ undo' = undo
      /\ reserved' = reserved /\ journal' = journal /\ child' = child
      /\ sweep' = sweep /\ marks' = marks /\ used' = used
  BY DEF SweepDone, RollbackDone, ChildEnds, Live
<1>2. PICK s \in Steps \ {"sweep", "idle"} :
         /\ step' = [step EXCEPT ![i] = s]
         /\ \/ step[i] = "sweep" /\ s = "run" /\ NumBudgets = 0
            \/ step[i] = "sweep" /\ s = "prepare" /\ NumBudgets # 0
            \/ s = "ended"
            \/ step[i] = "run" /\ s = "usage" /\ NumBudgets # 0
  BY DEF SweepDone, RollbackDone, ChildEnds, Steps, Live
<1>3. DelegationTypes' /\ step'[i] = s
  BY <1>1, <1>2 DEF DelegationInv, DelegationTypes
<1>4. \A d \in Delegation : Left(d)
  BY <1>1 DEF Left
<1>5. \A b \in Budget : Covered(<<i, b>>)'
  BY <1>1, <1>4, LeftStays, DelegationPairs
<1>6. Progress(i)'
  <2>1. Progress(i)
    BY DEF DelegationInv
  <2>2. /\ \A d \in Delegation : (Untouched(d)' <=> Untouched(d))
              /\ (Confirmed(d)' <=> Confirmed(d))
      /\ Mine(i)' = Mine(i)
    BY <1>1 DEF Untouched, Confirmed, Held, Mine
  <2>3. NumBudgets # 0 => 1 \in Budget
    BY DelegationAssumption DEF Budget
  <2>4. NumBudgets = 0 => Budget = {}
    BY DEF Budget
  <2>5. CASE step[i] = "sweep" /\ s = "run" /\ NumBudgets = 0
    BY <1>1, <1>3, <2>1, <2>4, <2>5 DEF Progress
  <2>6. CASE step[i] = "sweep" /\ s = "prepare" /\ NumBudgets # 0
    BY <1>1, <1>3, <2>1, <2>2, <2>3, <2>6, DelegationPairs DEF Progress, Budget
  <2>7. CASE s = "ended"
    BY <1>3, <2>7 DEF Progress
  <2>8. CASE step[i] = "run" /\ s = "usage" /\ NumBudgets # 0
    <3>1. at[i] = 1 /\ \A b \in Budget : Confirmed(<<i, b>>)
      BY <2>1, <2>8 DEF Progress
    <3>2. at'[i] \in Budget /\ \A b \in Budget : Confirmed(<<i, b>>)'
      BY <1>1, <2>2, <2>3, <2>8, <3>1, DelegationPairs
    <3> QED BY <1>3, <2>8, <3>2 DEF Progress
  <2> QED BY <1>2, <2>5, <2>6, <2>7, <2>8
<1> QED BY <1>1, <1>2, <1>3, <1>4, <1>5, <1>6, OwnStep

\* A delegation that was unwound or never begun is given up in rollback.
LEMMA RollbackProgress ==
    ASSUME DelegationInv, NEW i \in Invocation, step[i] \in {"prepare", "reserve"},
           NEW pending \in SUBSET (Nat \X {"cancel", "archive"}), Rollback(i, pending),
           current' = current, at' = at, child' = child, \A d \in Delegation : Left(d)
    PROVE  /\ Progress(i)'
           /\ step' = [step EXCEPT ![i] = "rollback"] /\ step'[i] = "rollback"
           /\ undo' \in [Invocation -> SUBSET (Nat \X {"cancel", "archive"})]
<1>1. /\ step' = [step EXCEPT ![i] = "rollback"]
      /\ undo' = [undo EXCEPT ![i] = pending \cup ((1..(at[i] - 1)) \X {"cancel", "archive"})]
  BY DEF Rollback
<1>2. /\ step \in [Invocation -> Steps] /\ at[i] \in Nat
      /\ undo \in [Invocation -> SUBSET (Nat \X {"cancel", "archive"})]
  BY DEF DelegationInv, DelegationTypes
<1>3. (1..(at[i] - 1)) \X {"cancel", "archive"} \in SUBSET (Nat \X {"cancel", "archive"})
  BY <1>2
<1>4. /\ step'[i] = "rollback"
      /\ undo' \in [Invocation -> SUBSET (Nat \X {"cancel", "archive"})]
  BY <1>1, <1>2, <1>3
<1>5. ASSUME NEW b \in Budget
      PROVE  Charge(<<i, b>>)' = 0 /\ (Active(<<i, b>>)' => <<b, "cancel">> \in undo'[i])
  <2>1. Progress(i) /\ Covered(<<i, b>>) /\ <<i, b>> \in Delegation /\ b \in Nat \ {0}
    BY DelegationPairs DEF DelegationInv, Budget
  <2>2. /\ Charge(<<i, b>>)' = Charge(<<i, b>>)
        /\ Active(<<i, b>>)' => Active(<<i, b>>)
        /\ Untouched(<<i, b>>) => Untouched(<<i, b>>)'
    BY <2>1, LeftStays
  <2>3. CASE b < at[i]
    <3>1. Charge(<<i, b>>) = 0
      BY <2>1, <2>3 DEF Progress
    <3>2. b \in 1..(at[i] - 1)
      BY <1>2, <2>1, <2>3
    <3> QED BY <1>1, <1>2, <2>2, <3>1, <3>2
  <2>4. CASE b >= at[i]
    <3>1. reserved[<<i, b>>].status = "none"
      <4>1. CASE b = at[i] /\ step[i] = "reserve"
        BY <2>1, <4>1 DEF Progress, Mine
      <4>2. CASE ~(b = at[i] /\ step[i] = "reserve")
        <5>1. (step[i] = "reserve" /\ b > at[i]) \/ (step[i] = "prepare" /\ b >= at[i])
          BY <1>2, <2>1, <2>4, <4>2
        <5>2. Untouched(<<i, b>>)
          BY <2>1, <5>1 DEF Progress
        <5> QED BY <5>2 DEF Untouched
      <4> QED BY <4>1, <4>2
    <3>2. Charge(<<i, b>>) = 0 /\ ~Active(<<i, b>>)
      BY <2>1, <3>1 DEF Covered, Active
    <3> QED BY <2>2, <3>2
  <2> QED BY <1>2, <2>1, <2>3, <2>4
<1> QED BY <1>1, <1>4, <1>5 DEF Progress

\* The intent is written ahead of the reservation.
LEMMA PrepareStep ==
    ASSUME DelegationInv, NEW i \in Invocation, Prepare(i)
    PROVE  DelegationInv'
<1>0. PICK m : m = Mine(i) /\ m = <<i, at[i]>>
  BY DEF Mine
<1>1. /\ step[i] = "prepare" /\ step[i] \in Live /\ at' = at /\ current' = current
      /\ child' = child /\ sweep' = sweep /\ marks' = marks /\ used' = used
      /\ reserved' = Reclaimed(reserved)
  BY DEF Prepare, Live
<1>2. /\ DelegationTypes /\ Progress(i) /\ at[i] \in Budget /\ m \in Delegation
      /\ Untouched(m) /\ Covered(m)
  <2>1. DelegationTypes /\ Progress(i) /\ at[i] \in Budget
    BY <1>1 DEF DelegationInv, Progress
  <2>2. m \in Delegation /\ at[i] >= at[i]
    BY <1>0, <2>1, DelegationPairs DEF Budget
  <2> QED BY <1>0, <1>1, <2>1, <2>2 DEF DelegationInv, Progress
<1>3. \A d \in Delegation : journal'[d] = journal[d] => Left(d)
  BY <1>1, <1>2, ReclaimedRow DEF Left
<1>4. CASE /\ Transition(m, "reserve_intent") /\ step' = [step EXCEPT ![i] = "reserve"]
           /\ undo' = undo
  <2>1. journal' = [journal EXCEPT ![m] = "reserve_intent"]
    BY <1>2, <1>4 DEF Transition, Untouched, Archived
  <2>2. /\ journal'[m] = "reserve_intent"
        /\ \A d \in Delegation : d # m => journal'[d] = journal[d]
    BY <1>2, <2>1 DEF DelegationTypes
  <2>3. DelegationTypes' /\ step'[i] = "reserve"
    <3>1. journal' \in [Delegation -> JournalStatus]
      BY <1>2, <2>1 DEF DelegationTypes, JournalStatus
    <3>2. step' \in [Invocation -> Steps] /\ step'[i] = "reserve"
      BY <1>2, <1>4 DEF DelegationTypes, Steps, Live
    <3>3. Reclaimed(reserved) \in [Delegation -> [status : ReservationStatus, completed : Nat]]
      BY <1>2, ReclaimedRow
    <3> QED BY <1>1, <1>2, <1>4, <3>1, <3>2, <3>3 DEF DelegationTypes
  <2>4. \A d \in Delegation : d # m => Left(d)
    BY <1>3, <2>2
  <2>5. reserved'[m] = reserved[m] /\ Charge(m)' = Charge(m) /\ Held(m)' = Held(m)
    BY <1>1, <1>2, ReclaimedRow DEF Untouched, Charge, Held
  <2>6. Covered(m)' /\ reserved'[m].status = "none"
    BY <1>2, <2>2, <2>5 DEF Covered, Untouched, Active, Charged, Archived
  <2>7. \A d \in Delegation : Covered(d)'
    BY <1>1, <2>4, <2>6, LeftStays
  <2>8. Progress(i)'
    <3>1. ASSUME NEW b \in Budget
          PROVE  /\ b > at[i] => Untouched(<<i, b>>)'
                 /\ b < at[i] => Confirmed(<<i, b>>)' /\ Charge(<<i, b>>)' = 0
                                 /\ journal'[<<i, b>>] = "prepared"
      <4>1. CASE b # at[i]
        <5>1. <<i, b>> \in Delegation /\ <<i, b>> # m /\ b \in Nat /\ at[i] \in Nat
          BY <1>0, <1>2, <4>1, DelegationPairs DEF Budget
        <5>2. Left(<<i, b>>)
          BY <2>4, <5>1
        <5>3. /\ b > at[i] => Untouched(<<i, b>>)
              /\ b < at[i] => Confirmed(<<i, b>>) /\ Charge(<<i, b>>) = 0
                              /\ journal[<<i, b>>] = "prepared"
          BY <1>1, <1>2, <5>1 DEF Progress
        <5> QED BY <1>1, <2>2, <5>1, <5>2, <5>3, LeftStays
      <4>2. CASE b = at[i]
        BY <1>2, <4>2 DEF Budget
      <4> QED BY <4>1, <4>2
    <3> QED BY <1>0, <1>1, <1>2, <2>2, <2>3, <2>6, <3>1 DEF Progress, Mine
  <2>9. \A d \in Delegation : d[1] # i => Left(d)
    BY <1>0, <2>4
  <2> QED BY <1>1, <1>2, <1>4, <2>3, <2>7, <2>8, <2>9, OwnStep, DelegationPairs DEF Steps, Live
<1>5. CASE Rollback(i, {}) /\ journal' = journal
  <2>1. \A d \in Delegation : Left(d)
    BY <1>3, <1>5
  <2>2. /\ Progress(i)'
        /\ step' = [step EXCEPT ![i] = "rollback"]
        /\ undo' \in [Invocation -> SUBSET (Nat \X {"cancel", "archive"})]
    BY <1>1, <1>5, <2>1, RollbackProgress
  <2>3. DelegationTypes'
    <3>1. Reclaimed(reserved) \in [Delegation -> [status : ReservationStatus, completed : Nat]]
      BY <1>2, ReclaimedRow
    <3>2. step' \in [Invocation -> Steps]
      BY <1>2, <2>2 DEF DelegationTypes, Steps, Live
    <3> QED BY <1>1, <1>2, <1>5, <2>2, <3>1, <3>2 DEF DelegationTypes
  <2>4. \A b \in Budget : Covered(<<i, b>>)'
    BY <1>1, <2>1, LeftStays, DelegationPairs
  <2> QED BY <1>1, <2>1, <2>2, <2>3, <2>4, OwnStep DEF Steps, Live
<1> QED BY <1>0, <1>4, <1>5 DEF Prepare

\* A live invocation works on one of its delegations.
LEMMA SingleStep ==
    ASSUME DelegationInv, NEW i \in Invocation, step[i] \in Live, current' = current,
           NEW m \in Delegation, m[1] = i,
           \A d \in Delegation : d # m => Left(d), Covered(m)',
           NEW s \in Steps \ {"sweep", "idle"}, step' = [step EXCEPT ![i] = s],
           \A j \in Invocation : j # i => at'[j] = at[j] /\ marks'[j] = marks[j],
           DelegationTypes', Progress(i)'
    PROVE  DelegationInv'
<1>1. \A d \in Delegation : d[1] # i => Left(d)
  OBVIOUS
<1>2. \A d \in Delegation : Covered(d)'
  BY LeftStays
<1> QED BY <1>1, <1>2, OwnStep, DelegationPairs

\* What an invocation knows of its delegation at hand, and of the others.
LEMMA MineIs ==
    ASSUME DelegationInv, NEW i \in Invocation,
           step[i] \in {"prepare", "reserve", "mark", "usage", "consume", "complete", "close"}
    PROVE  /\ at[i] \in Budget /\ Mine(i) = <<i, at[i]>> /\ Mine(i) \in Delegation
           /\ Mine(i)[1] = i /\ Covered(Mine(i)) /\ at[i] \in Nat \ {0} /\ at[i] <= NumBudgets
           /\ \A b \in Budget : b # at[i] => <<i, b>> \in Delegation /\ <<i, b>> # Mine(i)
           /\ Progress(i) /\ DelegationTypes /\ step[i] \in Live
<1>1. Progress(i) /\ DelegationTypes /\ at[i] \in Budget
  BY DEF DelegationInv, Progress
<1>2. Mine(i) = <<i, at[i]>> /\ Mine(i) \in Delegation /\ Mine(i)[1] = i
  BY <1>1, DelegationPairs DEF Mine
<1>3. Covered(Mine(i))
  BY <1>2 DEF DelegationInv
<1>4. at[i] \in Nat \ {0} /\ at[i] <= NumBudgets
  BY <1>1, DelegationAssumption DEF Budget
<1> QED BY <1>1, <1>2, <1>3, <1>4, DelegationPairs DEF Live

\* The reservation follows the intent, or the delegation is rolled back.
LEMMA ReserveParentStep ==
    ASSUME DelegationInv, NEW i \in Invocation, ReserveParent(i)
    PROVE  DelegationInv'
<1>0. PICK m : m = Mine(i)
  OBVIOUS
<1>1. /\ step[i] = "reserve" /\ at' = at /\ current' = current /\ child' = child
      /\ sweep' = sweep /\ marks' = marks /\ used' = used /\ journal' = journal
  BY DEF ReserveParent
<1>2. /\ at[i] \in Budget /\ m = <<i, at[i]>> /\ m \in Delegation /\ m[1] = i /\ Covered(m)
      /\ \A b \in Budget : b # at[i] => <<i, b>> \in Delegation /\ <<i, b>> # m
      /\ Progress(i) /\ DelegationTypes /\ step[i] \in Live /\ at[i] \in Nat
  BY <1>0, <1>1, MineIs
<1>3. reserved[m].status = "none" /\ journal[m] = "reserve_intent" /\ reserved[m].completed = 0
      /\ Charge(m) = 0
  BY <1>0, <1>1, <1>2 DEF Progress, Covered
<1>4. CASE /\ ParentOf[i] \in current
           /\ reserved' = [Reclaimed(reserved) EXCEPT ![m].status = "active"]
           /\ step' = [step EXCEPT ![i] = "mark"] /\ undo' = undo
  <2>1. /\ Reclaimed(reserved) \in [Delegation -> [status : ReservationStatus, completed : Nat]]
        /\ Reclaimed(reserved)[m] = reserved[m]
    BY <1>2, <1>3, ReclaimedRow
  <2>2. /\ reserved' \in [Delegation -> [status : ReservationStatus, completed : Nat]]
        /\ reserved'[m].status = "active" /\ reserved'[m].completed = 0
        /\ \A d \in Delegation : d # m => reserved'[d] = Reclaimed(reserved)[d]
    BY <1>2, <1>3, <1>4, <2>1 DEF ReservationStatus
  <2>3. DelegationTypes' /\ step'[i] = "mark"
    BY <1>1, <1>2, <1>4, <2>2 DEF DelegationTypes, Steps, Live
  <2>4. \A d \in Delegation : d # m => Left(d)
    BY <1>1, <1>2, <2>2, ReclaimedRow DEF Left
  <2>5. Held(m)' /\ Charge(m)' = 0 /\ journal'[m] = "reserve_intent"
    BY <1>1, <1>2, <1>3, <1>4 DEF Held, Charge
  <2>6. Covered(m)' /\ Confirmed(m)'
    BY <2>2, <2>5, DelegationAssumption DEF Covered, Confirmed, Archived
  <2>7. Progress(i)'
    <3>1. ASSUME NEW b \in Budget
          PROVE  /\ b > at[i] => Untouched(<<i, b>>)'
                 /\ b < at[i] => Confirmed(<<i, b>>)' /\ Charge(<<i, b>>)' = 0
                                 /\ journal'[<<i, b>>] = "prepared"
      <4>1. CASE b # at[i]
        <5>1. <<i, b>> \in Delegation /\ Left(<<i, b>>)
          BY <1>2, <2>4, <4>1
        <5>2. /\ b > at[i] => Untouched(<<i, b>>)
              /\ b < at[i] => Confirmed(<<i, b>>) /\ Charge(<<i, b>>) = 0
                              /\ journal[<<i, b>>] = "prepared"
          BY <1>1, <1>2 DEF Progress
        <5> QED BY <1>1, <5>1, <5>2, LeftStays
      <4>2. CASE b = at[i]
        BY <1>2, <4>2
      <4> QED BY <4>1, <4>2
    <3>2. Mine(i)' = m
      BY <1>1, <1>2 DEF Mine
    <3> QED BY <1>1, <1>2, <2>3, <2>5, <2>6, <3>1, <3>2 DEF Progress
  <2> QED BY <1>1, <1>2, <1>4, <2>3, <2>4, <2>6, <2>7, SingleStep DEF Steps, Live
<1>5. CASE Rollback(i, {<<at[i], "archive">>}) /\ reserved' = reserved
  <2>1. \A d \in Delegation : Left(d)
    BY <1>1, <1>5 DEF Left
  <2>2. {<<at[i], "archive">>} \in SUBSET (Nat \X {"cancel", "archive"})
    BY <1>2
  <2>3. /\ Progress(i)'
        /\ step' = [step EXCEPT ![i] = "rollback"]
        /\ undo' \in [Invocation -> SUBSET (Nat \X {"cancel", "archive"})]
    BY <1>1, <1>5, <2>1, <2>2, RollbackProgress
  <2>4. DelegationTypes'
    <3>1. step' \in [Invocation -> Steps]
      BY <1>2, <2>3 DEF DelegationTypes, Steps, Live
    <3> QED BY <1>1, <1>2, <1>5, <2>3, <3>1 DEF DelegationTypes
  <2>5. \A b \in Budget : Covered(<<i, b>>)'
    BY <1>1, <2>1, LeftStays, DelegationPairs
  <2> QED BY <1>1, <1>2, <2>1, <2>3, <2>4, <2>5, OwnStep DEF Steps, Live
<1> QED BY <1>0, <1>4, <1>5 DEF ReserveParent

\* A delegation is confirmed and the next one, or the child, is up.
LEMMA MarkReservedStep ==
    ASSUME DelegationInv, NEW i \in Invocation, MarkReserved(i)
    PROVE  DelegationInv'
<1>0. PICK m : m = Mine(i)
  OBVIOUS
<1>1. /\ step[i] = "mark" /\ current' = current /\ child' = child /\ undo' = undo
      /\ sweep' = sweep /\ marks' = marks /\ used' = used /\ reserved' = reserved
  BY DEF MarkReserved
<1>2. /\ at[i] \in Budget /\ m = <<i, at[i]>> /\ m \in Delegation /\ m[1] = i /\ Covered(m)
      /\ \A b \in Budget : b # at[i] => <<i, b>> \in Delegation /\ <<i, b>> # m
      /\ Progress(i) /\ DelegationTypes /\ step[i] \in Live
      /\ at[i] \in Nat \ {0} /\ at[i] <= NumBudgets
  BY <1>0, <1>1, MineIs
<1>3. Confirmed(m) /\ journal[m] = "reserve_intent" /\ Charge(m) = 0
  BY <1>0, <1>1, <1>2 DEF Progress, Covered
<1>4. /\ journal' = [journal EXCEPT ![m] = "prepared"]
      /\ journal'[m] = "prepared" /\ journal' \in [Delegation -> JournalStatus]
      /\ \A d \in Delegation : d # m => journal'[d] = journal[d]
  <2>1. journal' = [journal EXCEPT ![m] = "prepared"]
    BY <1>0, <1>2, <1>3 DEF MarkReserved, Transition, Archived, DelegationTypes
  <2> QED BY <1>2, <2>1 DEF DelegationTypes, JournalStatus
<1>5. PICK s \in {"run", "prepare"}, n \in Nat :
         /\ step' = [step EXCEPT ![i] = s] /\ at' = [at EXCEPT ![i] = n]
         /\ s = "run" => at[i] = NumBudgets /\ n = 1
         /\ s = "prepare" => at[i] # NumBudgets /\ n = at[i] + 1
  <2>1. CASE at[i] = NumBudgets
    <3>1. /\ step' = [step EXCEPT ![i] = "run"] /\ at' = [at EXCEPT ![i] = 1]
      BY <1>2, <2>1 DEF MarkReserved, DelegationTypes
    <3> QED BY <2>1, <3>1
  <2>2. CASE at[i] # NumBudgets
    <3>1. /\ step' = [step EXCEPT ![i] = "prepare"] /\ at' = [at EXCEPT ![i] = at[i] + 1]
      BY <1>2, <2>2 DEF MarkReserved, DelegationTypes
    <3>2. at[i] + 1 \in Nat
      BY <1>2
    <3> QED BY <2>2, <3>1, <3>2
  <2> QED BY <2>1, <2>2
<1>6. /\ DelegationTypes' /\ step'[i] = s /\ at'[i] = n
      /\ \A j \in Invocation : j # i => at'[j] = at[j]
  BY <1>1, <1>2, <1>4, <1>5 DEF DelegationTypes, Steps, Live
<1>7. \A d \in Delegation : d # m => Left(d)
  BY <1>1, <1>4 DEF Left
<1>8. /\ Covered(m)' /\ Confirmed(m)' /\ Charge(m)' = 0
  BY <1>1, <1>2, <1>3, <1>4 DEF Covered, Confirmed, Charge, Charged, Held, Active, Archived
<1>9. ASSUME NEW b \in Budget, b <= at[i]
      PROVE  /\ Confirmed(<<i, b>>)' /\ Charge(<<i, b>>)' = 0
             /\ journal'[<<i, b>>] = "prepared"
             /\ reserved'[<<i, b>>].status = "active" => reserved'[<<i, b>>].completed = 0
  <2>1. Confirmed(<<i, b>>)' /\ Charge(<<i, b>>)' = 0 /\ journal'[<<i, b>>] = "prepared"
    <3>1. CASE b # at[i]
      <4>1. <<i, b>> \in Delegation /\ Left(<<i, b>>) /\ b < at[i]
        BY <1>2, <1>7, <1>9, <3>1 DEF Budget
      <4>2. Confirmed(<<i, b>>) /\ Charge(<<i, b>>) = 0 /\ journal[<<i, b>>] = "prepared"
        BY <1>1, <1>2, <4>1 DEF Progress
      <4> QED BY <1>1, <1>2, <1>4, <3>1, <4>1, <4>2, LeftStays
    <3>2. CASE b = at[i]
      BY <1>2, <1>4, <1>8, <3>2
    <3> QED BY <3>1, <3>2
  <2>2. <<i, b>> \in Delegation /\ Covered(<<i, b>>)'
    BY <1>1, <1>2, <1>7, <1>8, LeftStays, DelegationPairs
  <2>3. reserved'[<<i, b>>].completed \in Nat
    BY <1>6, <2>2 DEF DelegationTypes
  <2> QED BY <2>1, <2>2, <2>3 DEF Covered
<1>10. ASSUME NEW b \in Budget, b > at[i] PROVE Untouched(<<i, b>>)'
  <2>1. <<i, b>> \in Delegation /\ Left(<<i, b>>)
    BY <1>2, <1>7, <1>10
  <2>2. Untouched(<<i, b>>)
    BY <1>1, <1>2, <1>10 DEF Progress
  <2> QED BY <1>1, <2>1, <2>2, LeftStays
<1>11. Progress(i)'
  <2>1. CASE s = "run"
    <3>1. \A b \in Budget : b <= at[i]
      BY <1>2, <1>5, <2>1 DEF Budget
    <3> QED BY <1>5, <1>6, <1>9, <2>1, <3>1 DEF Progress
  <2>2. CASE s = "prepare"
    <3>1. n \in Budget /\ \A b \in Budget : (b < n => b <= at[i]) /\ (b >= n => b > at[i])
      BY <1>2, <1>5, <2>2, DelegationAssumption DEF Budget
    <3> QED BY <1>5, <1>6, <1>9, <1>10, <2>2, <3>1 DEF Progress
  <2> QED BY <2>1, <2>2
<1> QED BY <1>1, <1>2, <1>5, <1>6, <1>7, <1>8, <1>11, SingleStep DEF Steps, Live

\* Rollback gives each reservation back and archives its record.
LEMMA UndoStep ==
    ASSUME DelegationInv, NEW i \in Invocation, NEW b \in Budget,
           UndoCancel(i, b) \/ UndoArchive(i, b)
    PROVE  DelegationInv'
<1>0. PICK m : m = <<i, b>>
  OBVIOUS
<1>1. /\ step[i] = "rollback" /\ step' = step /\ at' = at /\ current' = current
      /\ child' = child /\ sweep' = sweep /\ marks' = marks /\ used' = used
  BY DEF UndoCancel, UndoArchive
<1>2. /\ m \in Delegation /\ m[1] = i /\ DelegationTypes /\ Progress(i) /\ Covered(m)
      /\ step[i] \in Live /\ Charge(m) = 0 /\ (Active(m) => <<b, "cancel">> \in undo[i])
      /\ Charge(m)' = Charge(m) /\ Held(m)' = Held(m)
  <2>1. m \in Delegation /\ m[1] = i /\ DelegationTypes /\ Progress(i)
    BY <1>0, DelegationPairs DEF DelegationInv
  <2>2. Covered(m) /\ Charge(m)' = Charge(m) /\ Held(m)' = Held(m)
    BY <1>1, <2>1 DEF DelegationInv, Charge, Held
  <2> QED BY <1>0, <1>1, <2>1, <2>2 DEF Progress, Live
<1>3. /\ DelegationTypes'
      /\ \A d \in Delegation : d # m => Left(d)
      /\ Covered(m)' /\ (Active(m)' => <<b, "cancel">> \in undo'[i])
      /\ undo'[i] \in {undo[i] \ {<<b, "cancel">>}, undo[i] \ {<<b, "archive">>}}
  <2>1. CASE UndoCancel(i, b)
    <3>1. /\ journal' = journal
          /\ undo' = [undo EXCEPT ![i] = undo[i] \ {<<b, "cancel">>}]
          /\ reserved' = [reserved EXCEPT ![m] =
                IF Active(m) THEN [reserved[m] EXCEPT !.status = "cancelled"] ELSE reserved[m]]
      BY <1>0, <2>1 DEF UndoCancel, CancelReservation
    <3>2. reserved[m] \in [status : ReservationStatus, completed : Nat]
      BY <1>2 DEF DelegationTypes
    <3>3. /\ [reserved[m] EXCEPT !.status = "cancelled"]
                \in [status : ReservationStatus, completed : Nat]
          /\ [reserved[m] EXCEPT !.status = "cancelled"].status = "cancelled"
      BY <3>2 DEF ReservationStatus
    <3>4. /\ reserved' \in [Delegation -> [status : ReservationStatus, completed : Nat]]
          /\ undo'[i] = undo[i] \ {<<b, "cancel">>}
          /\ undo' \in [Invocation -> SUBSET (Nat \X {"cancel", "archive"})]
          /\ Active(m) => reserved'[m].status = "cancelled"
          /\ ~Active(m) => reserved'[m] = reserved[m]
          /\ \A d \in Delegation : d # m => reserved'[d] = reserved[d]
      BY <1>2, <3>1, <3>2, <3>3 DEF DelegationTypes
    <3>5. DelegationTypes' /\ \A d \in Delegation : d # m => Left(d)
      BY <1>1, <1>2, <3>1, <3>4 DEF DelegationTypes, Left
    <3>6. ~Active(m)' /\ Covered(m)'
      <4>1. CASE Active(m)
        <5>1. journal'[m] \notin Archived /\ reserved'[m].status = "cancelled"
              /\ "settled" \in Archived
          BY <1>2, <3>1, <3>4, <4>1 DEF Covered, Archived
        <5>2. ~Active(m)'
          BY <5>1 DEF Active
        <5>3. Charge(m)' <= Amount /\ Charge(m)' = 0
          BY <1>2, DelegationAssumption
        <5> QED BY <5>1, <5>2, <5>3 DEF Covered
      <4>2. CASE ~Active(m)
        BY <1>2, <3>1, <3>4, <4>2 DEF Covered, Active, Charged
      <4> QED BY <4>1, <4>2
    <3> QED BY <3>4, <3>5, <3>6
  <2>2. CASE UndoArchive(i, b)
    <3>1. /\ reserved' = reserved /\ <<b, "cancel">> \notin undo[i]
          /\ undo' = [undo EXCEPT ![i] = undo[i] \ {<<b, "archive">>}]
          /\ journal' = [journal EXCEPT ![m] =
                            IF journal[m] \in Archived THEN journal[m] ELSE "reclaimed"]
      BY <1>0, <2>2 DEF UndoArchive, Transition
    <3>2. /\ journal' \in [Delegation -> JournalStatus]
          /\ undo'[i] = undo[i] \ {<<b, "archive">>}
          /\ undo' \in [Invocation -> SUBSET (Nat \X {"cancel", "archive"})]
          /\ journal'[m] = IF journal[m] \in Archived THEN journal[m] ELSE "reclaimed"
          /\ \A d \in Delegation : d # m => journal'[d] = journal[d]
      BY <1>2, <3>1 DEF DelegationTypes, JournalStatus, Archived
    <3>3. DelegationTypes' /\ \A d \in Delegation : d # m => Left(d)
      BY <1>1, <1>2, <3>1, <3>2 DEF DelegationTypes, Left
    <3>4. ~Active(m) /\ ~Active(m)' /\ (Charged(m) => Charged(m)')
      BY <1>2, <3>1 DEF Active, Charged
    <3>5. Covered(m)'
      BY <1>2, <3>1, <3>2, <3>4 DEF Covered, Archived
    <3> QED BY <3>2, <3>3, <3>4, <3>5
  <2> QED BY <2>1, <2>2
<1>4. Progress(i)'
  <2>1. ASSUME NEW c \in Budget
        PROVE  Charge(<<i, c>>)' = 0 /\ (Active(<<i, c>>)' => <<c, "cancel">> \in undo'[i])
    <3>1. CASE c = b
      BY <1>0, <1>2, <1>3, <3>1
    <3>2. CASE c # b
      <4>1. <<i, c>> \in Delegation /\ Left(<<i, c>>)
        BY <1>0, <1>3, <3>2, DelegationPairs
      <4>2. Charge(<<i, c>>) = 0 /\ (Active(<<i, c>>) => <<c, "cancel">> \in undo[i])
        BY <1>1, <1>2 DEF Progress
      <4> QED BY <1>1, <1>3, <3>2, <4>1, <4>2, LeftStays
    <3> QED BY <3>1, <3>2
  <2> QED BY <1>1, <2>1 DEF Progress
<1>5. step' = [step EXCEPT ![i] = "rollback"]
  BY <1>1, <1>2 DEF DelegationTypes
<1> QED BY <1>1, <1>2, <1>3, <1>4, <1>5, SingleStep DEF Steps, Live

\* The child works on its own budget.
LEMMA ChildStep ==
    ASSUME DelegationInv, NEW i \in Invocation, NEW b \in Budget,
           ChildReserves(i, b) \/ ChildSpends(i, b) \/ ChildGivesBack(i, b)
    PROVE  DelegationInv'
<1>0. PICK m : m = <<i, b>>
  OBVIOUS
<1>1. /\ step[i] = "run" /\ step' = step /\ at' = at /\ current' = current
      /\ sweep' = sweep /\ marks' = marks /\ used' = used /\ undo' = undo
      /\ journal' = journal /\ reserved' = reserved
  BY DEF ChildReserves, ChildSpends, ChildGivesBack
<1>2. /\ m \in Delegation /\ m[1] = i /\ DelegationTypes /\ Progress(i) /\ Covered(m)
      /\ step[i] \in Live
      /\ Confirmed(m) /\ journal[m] = "prepared"
      /\ reserved[m].status = "active" => reserved[m].completed = 0
      /\ child[m] \in [spent : Nat, open : Nat]
  <2>1. m \in Delegation /\ m[1] = i /\ DelegationTypes /\ Progress(i)
    BY <1>0, DelegationPairs DEF DelegationInv
  <2>2. Covered(m) /\ child[m] \in [spent : Nat, open : Nat]
    BY <2>1 DEF DelegationInv, DelegationTypes
  <2> QED BY <1>0, <1>1, <2>1, <2>2 DEF Progress, Live
<1>3. PICK c \in [spent : Nat, open : Nat] :
         child' = [child EXCEPT ![m] = c] /\ c.spent + c.open <= Amount /\ Held(m)
  <2>1. ASSUME NEW c, c \in [spent : Nat, open : Nat], child' = [child EXCEPT ![m] = c],
               c.spent + c.open <= Amount, Held(m)
        PROVE  \E x \in [spent : Nat, open : Nat] :
                  child' = [child EXCEPT ![m] = x] /\ x.spent + x.open <= Amount /\ Held(m)
    BY <2>1
  <2>2. /\ child[m].spent \in Nat /\ child[m].open \in Nat /\ Amount \in Nat
        /\ child[m].spent + child[m].open <= Amount
        /\ child \in [Delegation -> [spent : Nat, open : Nat]]
    BY <1>2, DelegationAssumption DEF Covered, Charge, DelegationTypes
  <2>3. CASE ChildReserves(i, b)
    <3> DEFINE c == [child[m] EXCEPT !.open = child[m].open + 1]
    <3>1. /\ child' = [child EXCEPT ![m] = c] /\ Held(m)
          /\ child[m].spent + child[m].open < Amount
      BY <1>0, <1>2, <2>2, <2>3 DEF ChildReserves
    <3>2. c \in [spent : Nat, open : Nat] /\ c.spent = child[m].spent
          /\ c.open = child[m].open + 1
      BY <1>2, <2>2
    <3> HIDE DEF c
    <3>3. c.spent + c.open <= Amount
      BY <2>2, <3>1, <3>2
    <3> QED BY <2>1, <3>1, <3>2, <3>3
  <2>4. CASE ChildSpends(i, b)
    <3> DEFINE c == [spent |-> child[m].spent + 1, open |-> child[m].open - 1]
    <3>1. child' = [child EXCEPT ![m] = c] /\ Held(m) /\ child[m].open > 0
      BY <1>0, <1>2, <2>2, <2>4 DEF ChildSpends
    <3>2. c \in [spent : Nat, open : Nat] /\ c.spent = child[m].spent + 1
          /\ c.open = child[m].open - 1
      BY <1>2, <2>2, <3>1
    <3> HIDE DEF c
    <3>3. c.spent + c.open <= Amount
      BY <2>2, <3>1, <3>2
    <3> QED BY <2>1, <3>1, <3>2, <3>3
  <2>5. CASE ChildGivesBack(i, b)
    <3> DEFINE c == [child[m] EXCEPT !.open = 0]
    <3>1. child' = [child EXCEPT ![m] = c] /\ Held(m)
      BY <1>0, <1>2, <2>2, <2>5 DEF ChildGivesBack
    <3>2. c \in [spent : Nat, open : Nat] /\ c.spent = child[m].spent /\ c.open = 0
      BY <1>2, <2>2
    <3> HIDE DEF c
    <3>3. c.spent + c.open <= Amount
      BY <2>2, <3>1, <3>2
    <3> QED BY <2>1, <3>1, <3>2, <3>3
  <2> QED BY <2>3, <2>4, <2>5
<1>4. /\ child' \in [Delegation -> [spent : Nat, open : Nat]] /\ child'[m] = c
      /\ \A d \in Delegation : d # m => child'[d] = child[d]
  BY <1>2, <1>3 DEF DelegationTypes
<1>5. DelegationTypes' /\ \A d \in Delegation : d # m => Left(d)
  BY <1>1, <1>2, <1>4 DEF DelegationTypes, Left
<1>6. Covered(m)' /\ Confirmed(m)'
  <2>1. reserved[m].status = "active" /\ Held(m)' = Held(m)
    BY <1>1, <1>2, <1>3 DEF Confirmed, Held
  <2>2. Charge(m)' <= Amount /\ Charge(m)' \in Nat
    BY <1>3, <1>4, DelegationAssumption DEF Charge
  <2> QED BY <1>1, <1>2, <2>1, <2>2 DEF Covered, Confirmed, Archived
<1>7. Progress(i)'
  <2>1. ASSUME NEW x \in Budget
        PROVE  /\ Confirmed(<<i, x>>)' /\ journal'[<<i, x>>] = "prepared"
               /\ reserved'[<<i, x>>].status = "active" => reserved'[<<i, x>>].completed = 0
    <3>1. CASE x = b
      BY <1>0, <1>1, <1>2, <1>6, <3>1
    <3>2. CASE x # b
      <4>1. <<i, x>> \in Delegation /\ Left(<<i, x>>)
        BY <1>0, <1>5, <3>2, DelegationPairs
      <4>2. /\ Confirmed(<<i, x>>) /\ journal[<<i, x>>] = "prepared"
            /\ reserved[<<i, x>>].status = "active" => reserved[<<i, x>>].completed = 0
        BY <1>1, <1>2 DEF Progress
      <4> QED BY <1>1, <4>1, <4>2, LeftStays
    <3> QED BY <3>1, <3>2
  <2>2. at'[i] = 1
    BY <1>1, <1>2 DEF Progress
  <2> QED BY <1>1, <2>1, <2>2 DEF Progress
<1>8. step' = [step EXCEPT ![i] = "run"]
  BY <1>1, <1>2 DEF DelegationTypes
<1> QED BY <1>1, <1>2, <1>5, <1>6, <1>7, <1>8, SingleStep DEF Steps, Live

\* A journal write, when the record may say so.
LEMMA TransitionWrites ==
    ASSUME DelegationInv, NEW m \in Delegation,
           NEW s \in JournalStatus \ {"none", "reserve_intent"}, Transition(m, s),
           reserved' = reserved, child' = child, current' = current,
           s \in Archived => ~Active(m), s = "settled" => Charged(m)
    PROVE  /\ journal' \in [Delegation -> JournalStatus]
           /\ Covered(m)' /\ \A d \in Delegation : d # m => Left(d)
           /\ \A d \in Delegation :
                 /\ Confirmed(d)' = Confirmed(d) /\ Charge(d)' = Charge(d)
                 /\ Charged(d)' = Charged(d) /\ Held(d)' = Held(d) /\ Active(d)' = Active(d)
<1>1. DelegationTypes /\ Covered(m)
  BY DEF DelegationInv
<1>2. /\ journal' = [journal EXCEPT ![m] = IF journal[m] \in Archived THEN journal[m] ELSE s]
  BY DEF Transition
<1>3. /\ journal' \in [Delegation -> JournalStatus]
      /\ journal'[m] = IF journal[m] \in Archived THEN journal[m] ELSE s
      /\ \A d \in Delegation : d # m => journal'[d] = journal[d]
  BY <1>1, <1>2 DEF DelegationTypes
<1>4. \A d \in Delegation :
         /\ Confirmed(d)' = Confirmed(d) /\ Charge(d)' = Charge(d)
         /\ Charged(d)' = Charged(d) /\ Held(d)' = Held(d) /\ Active(d)' = Active(d)
  BY DEF Confirmed, Charge, Charged, Held, Active
<1>5. \A d \in Delegation : d # m => Left(d)
  BY <1>3 DEF Left
<1>6. Covered(m)'
  <2>1. CASE journal[m] \in Archived
    BY <1>1, <1>3, <1>4, <2>1 DEF Covered
  <2>2. CASE journal[m] \notin Archived
    BY <1>1, <1>3, <1>4, <2>2 DEF Covered
  <2> QED BY <2>1, <2>2
<1> QED BY <1>3, <1>4, <1>5, <1>6

\* Settlement goes on with the next budget of the invocation.
LEMMA NextItemProgress ==
    ASSUME DelegationInv, NEW i \in Invocation, current' = current,
           step[i] \in {"usage", "consume", "complete", "close"}, NextItem(i),
           \A d \in Delegation : d # Mine(i) => Left(d)
    PROVE  /\ Progress(i)'
           /\ at' \in [Invocation -> Nat] /\ \A j \in Invocation : j # i => at'[j] = at[j]
           /\ \E s \in {"usage", "ended"} : step' = [step EXCEPT ![i] = s]
           /\ step' \in [Invocation -> Steps]
<1>1. /\ at[i] \in Budget /\ DelegationTypes /\ Progress(i)
      /\ at[i] \in Nat \ {0} /\ at[i] <= NumBudgets
      /\ \A b \in Budget : b # at[i] => <<i, b>> \in Delegation /\ <<i, b>> # Mine(i)
  BY MineIs
<1>2. CASE at[i] = NumBudgets
  <2>1. step' = [step EXCEPT ![i] = "ended"] /\ at' = [at EXCEPT ![i] = 1]
    BY <1>1, <1>2 DEF NextItem, DelegationTypes
  <2>2. /\ step'[i] = "ended" /\ step' \in [Invocation -> Steps]
        /\ at' \in [Invocation -> Nat] /\ \A j \in Invocation : j # i => at'[j] = at[j]
    BY <1>1, <2>1 DEF DelegationTypes, Steps
  <2> QED BY <2>1, <2>2 DEF Progress
<1>3. CASE at[i] # NumBudgets
  <2>1. step' = [step EXCEPT ![i] = "usage"] /\ at' = [at EXCEPT ![i] = at[i] + 1]
    BY <1>1, <1>3 DEF NextItem, DelegationTypes
  <2>2. /\ step'[i] = "usage" /\ step' \in [Invocation -> Steps] /\ at'[i] = at[i] + 1
        /\ at' \in [Invocation -> Nat] /\ \A j \in Invocation : j # i => at'[j] = at[j]
    BY <1>1, <2>1 DEF DelegationTypes, Steps, Live
  <2>3. at'[i] \in Budget
    BY <1>1, <1>3, <2>2, DelegationAssumption DEF Budget
  <2>4. ASSUME NEW b \in Budget, b >= at'[i] PROVE Confirmed(<<i, b>>)'
    <3>1. b > at[i] /\ b >= at[i] /\ b # at[i]
      BY <1>1, <2>2, <2>4 DEF Budget
    <3>2. <<i, b>> \in Delegation /\ Left(<<i, b>>)
      BY <1>1, <3>1
    <3>3. Confirmed(<<i, b>>)
      BY <1>1, <3>1 DEF Progress
    <3> QED BY <3>2, <3>3, LeftStays
  <2>5. Progress(i)'
    BY <2>2, <2>3, <2>4 DEF Progress
  <2> QED BY <2>1, <2>2, <2>5
<1> QED BY <1>2, <1>3

\* The record says settled after the charge, or is left to a later sweep.
LEMMA ItemClosed ==
    ASSUME DelegationInv, NEW i \in Invocation,
           MarkSettled(i) \/ SettlementRefused(i) \/ SettlementFault(i)
    PROVE  DelegationInv'
<1>0. PICK m : m = Mine(i)
  OBVIOUS
<1>1. /\ step[i] \in {"usage", "consume", "complete", "close"} /\ NextItem(i)
      /\ reserved' = reserved /\ child' = child /\ current' = current
      /\ sweep' = sweep /\ marks' = marks /\ undo' = undo /\ used' = used
      /\ \/ Transition(m, "retry_required")
         \/ step[i] = "close" /\ Transition(m, "settled")
  BY <1>0 DEF MarkSettled, SettlementRefused, SettlementFault, RetryLater
<1>2. /\ m \in Delegation /\ m[1] = i /\ Progress(i) /\ DelegationTypes /\ step[i] \in Live
  BY <1>0, <1>1, MineIs
<1>3. step[i] = "close" => Charged(m) /\ ~Active(m)
  BY <1>0, <1>2 DEF Progress, Charged, Active
<1>4. /\ journal' \in [Delegation -> JournalStatus]
      /\ Covered(m)' /\ \A d \in Delegation : d # m => Left(d)
  <2>1. CASE Transition(m, "retry_required")
    BY <1>1, <1>2, <2>1, TransitionWrites DEF JournalStatus, Archived
  <2>2. CASE step[i] = "close" /\ Transition(m, "settled")
    BY <1>1, <1>2, <1>3, <2>2, TransitionWrites DEF JournalStatus, Archived
  <2> QED BY <1>1, <2>1, <2>2
<1>5. /\ Progress(i)'
      /\ at' \in [Invocation -> Nat] /\ \A j \in Invocation : j # i => at'[j] = at[j]
      /\ \E s \in {"usage", "ended"} : step' = [step EXCEPT ![i] = s]
      /\ step' \in [Invocation -> Steps]
  BY <1>0, <1>1, <1>4, NextItemProgress
<1>6. DelegationTypes'
  BY <1>1, <1>2, <1>4, <1>5 DEF DelegationTypes
<1> QED BY <1>1, <1>2, <1>4, <1>5, <1>6, SingleStep DEF Steps, Live

\* The charge is computed and, unless it is nothing, consumed and completed.
LEMMA ItemCharged ==
    ASSUME DelegationInv, NEW i \in Invocation,
           MarkReady(i) \/ ConsumeParent(i) \/ CompleteParent(i)
    PROVE  DelegationInv'
<1>0. PICK m : m = Mine(i)
  OBVIOUS
<1>1. /\ step[i] \in {"usage", "consume", "complete"} /\ child' = child /\ current' = current
      /\ sweep' = sweep /\ marks' = marks /\ undo' = undo /\ at' = at
  BY DEF MarkReady, ConsumeParent, CompleteParent
<1>2. /\ m \in Delegation /\ m[1] = i /\ Progress(i) /\ DelegationTypes /\ step[i] \in Live
      /\ Covered(m) /\ m = <<i, at[i]>> /\ at[i] \in Budget /\ at[i] \in Nat
      /\ \A b \in Budget : b # at[i] => <<i, b>> \in Delegation /\ <<i, b>> # m
  BY <1>0, <1>1, MineIs
<1>3. Confirmed(m) /\ (step[i] # "usage" /\ Held(m) => used[i] = Charge(m))
  <2>1. CASE step[i] = "usage"
    <3>1. at[i] >= at[i]
      BY <1>2
    <3> QED BY <1>2, <2>1, <3>1 DEF Progress
  <2>2. CASE step[i] \in {"consume", "complete"}
    BY <1>0, <1>2, <2>2 DEF Progress
  <2> QED BY <1>1, <2>1, <2>2
<1>4. /\ Charge(m)' = Charge(m) /\ Held(m)' = Held(m) /\ Mine(i)' = m
      /\ child[m] \in [spent : Nat, open : Nat] /\ Charge(m) \in Nat
  <2>1. child[m] \in [spent : Nat, open : Nat]
    BY <1>2 DEF DelegationTypes
  <2>2. Charge(m) \in Nat
    BY <2>1 DEF Charge
  <2> QED BY <1>0, <1>1, <2>1, <2>2 DEF Charge, Held, Mine
<1>5. ASSUME \A d \in Delegation : d # m => Left(d), NEW b \in Budget, b > at[i]
      PROVE  Confirmed(<<i, b>>)'
  <2>1. <<i, b>> \in Delegation /\ <<i, b>> # m
    BY <1>2, <1>5
  <2>2. Confirmed(<<i, b>>)
    <3>1. b >= at[i]
      BY <1>2, <1>5 DEF Budget
    <3>2. CASE step[i] = "usage"
      BY <1>2, <3>1, <3>2 DEF Progress
    <3>3. CASE step[i] \in {"consume", "complete"}
      BY <1>2, <1>5, <3>3 DEF Progress
    <3> QED BY <1>1, <3>2, <3>3
  <2> QED BY <1>1, <1>5, <2>1, <2>2, LeftStays
<1>6. CASE MarkReady(i)
  <2>1. /\ step[i] = "usage" /\ Transition(m, "settlement_ready") /\ reserved' = reserved
        /\ used' = [used EXCEPT ![i] = ChargedToParent(m)]
    BY <1>0, <1>6 DEF MarkReady
  <2>2. /\ journal' \in [Delegation -> JournalStatus]
        /\ Covered(m)' /\ (\A d \in Delegation : d # m => Left(d)) /\ Confirmed(m)'
    BY <1>1, <1>2, <1>3, <2>1, TransitionWrites DEF JournalStatus, Archived
  <2>3. ChargedToParent(m) \in Nat /\ (Held(m) => ChargedToParent(m) = Charge(m))
    <3>1. Charge(m) <= Amount /\ Amount \in Nat
      BY <1>2, DelegationAssumption DEF Covered
    <3> QED BY <1>4, <3>1 DEF ChargedToParent, Charge
  <2>4. used' \in [Invocation -> Nat] /\ used'[i] = ChargedToParent(m)
    BY <1>2, <2>1, <2>3 DEF DelegationTypes
  <2>5. PICK s \in {"consume", "complete"} : step' = [step EXCEPT ![i] = s]
    BY <1>6 DEF MarkReady
  <2>6. DelegationTypes' /\ step'[i] = s
    BY <1>1, <1>2, <2>1, <2>2, <2>4, <2>5 DEF DelegationTypes, Steps, Live
  <2>7. Progress(i)'
    BY <1>1, <1>2, <1>4, <1>5, <2>2, <2>3, <2>4, <2>6 DEF Progress
  <2> QED BY <1>1, <1>2, <2>2, <2>5, <2>6, <2>7, SingleStep DEF Steps, Live
<1>7. CASE ConsumeParent(i)
  <2>1. /\ step[i] = "consume" /\ Active(m) /\ journal' = journal /\ used' = used
        /\ reserved' = [reserved EXCEPT ![m].completed = used[i]]
        /\ step' = [step EXCEPT ![i] = "complete"]
    BY <1>0, <1>7 DEF ConsumeParent
  <2>2. Held(m) /\ reserved[m].status = "active" /\ used[i] = Charge(m)
    BY <1>3, <2>1 DEF Active
  <2>3. /\ reserved' \in [Delegation -> [status : ReservationStatus, completed : Nat]]
        /\ reserved'[m].status = "active" /\ reserved'[m].completed = Charge(m)
        /\ \A d \in Delegation : d # m => reserved'[d] = reserved[d]
    BY <1>2, <1>4, <2>1, <2>2 DEF DelegationTypes
  <2>4. DelegationTypes' /\ step'[i] = "complete"
    BY <1>1, <1>2, <2>1, <2>3 DEF DelegationTypes, Steps, Live
  <2>5. \A d \in Delegation : d # m => Left(d)
    BY <1>1, <2>1, <2>3 DEF Left
  <2>6. Covered(m)' /\ Confirmed(m)'
    <3>1. journal[m] \notin Archived /\ "settled" \in Archived
      BY <1>2, <2>1 DEF Covered, Archived
    <3> QED BY <1>2, <1>4, <2>1, <2>3, <3>1 DEF Covered, Confirmed
  <2>7. Progress(i)'
    BY <1>1, <1>2, <1>4, <1>5, <2>1, <2>2, <2>4, <2>5, <2>6 DEF Progress
  <2> QED BY <1>1, <1>2, <2>1, <2>4, <2>5, <2>6, <2>7, SingleStep DEF Steps, Live
<1>8. CASE CompleteParent(i)
  <2>1. /\ step[i] = "complete" /\ CompletionAccepted(m, used[i])
        /\ journal' = journal /\ used' = used
        /\ reserved' = [reserved EXCEPT ![m] = [status |-> "completed", completed |-> used[i]]]
        /\ step' = [step EXCEPT ![i] = "close"]
    BY <1>0, <1>8 DEF CompleteParent, CompleteReservation
  <2>2. used[i] = Charge(m)
    <3>1. CASE reserved[m] = [status |-> "completed", completed |-> used[i]]
      BY <1>2, <3>1 DEF Covered, Charged
    <3>2. CASE Active(m)
      BY <1>3, <2>1, <3>2 DEF Active
    <3> QED BY <2>1, <3>1, <3>2 DEF CompletionAccepted
  <2>3. /\ reserved' \in [Delegation -> [status : ReservationStatus, completed : Nat]]
        /\ reserved'[m] = [status |-> "completed", completed |-> Charge(m)]
        /\ \A d \in Delegation : d # m => reserved'[d] = reserved[d]
    BY <1>2, <1>4, <2>1, <2>2 DEF DelegationTypes, ReservationStatus
  <2>4. DelegationTypes' /\ step'[i] = "close"
    BY <1>1, <1>2, <2>1, <2>3 DEF DelegationTypes, Steps, Live
  <2>5. \A d \in Delegation : d # m => Left(d)
    BY <1>1, <2>1, <2>3 DEF Left
  <2>6. Covered(m)' /\ Charged(m)'
    <3>1. Charged(m)' /\ ~Active(m)' /\ reserved'[m].status = "completed"
      BY <1>4, <2>3 DEF Charged, Active
    <3> QED BY <1>2, <1>4, <2>1, <3>1 DEF Covered
  <2>7. Progress(i)'
    BY <1>1, <1>2, <1>4, <1>5, <2>4, <2>5, <2>6 DEF Progress
  <2> QED BY <1>1, <1>2, <2>1, <2>4, <2>5, <2>6, <2>7, SingleStep DEF Steps, Live
<1> QED BY <1>6, <1>7, <1>8

\* An invocation begins when no other one is under way: pending() lists
\* records of invocations that are over.
LEMMA InvokeStep ==
    ASSUME DelegationInv, ~Overlap, NEW i \in Invocation, Invoke(i)
    PROVE  DelegationInv'
<1>1. /\ step[i] = "idle" /\ step' = [step EXCEPT ![i] = "sweep"]
      /\ \A j \in Invocation : step[j] \notin Live
      /\ sweep' = [sweep EXCEPT ![i] =
                     {<<d, journal[d]>> : d \in {d \in Delegation :
                                                 journal[d] \notin Archived \cup {"none"}}}]
      /\ UNCHANGED <<at, marks, undo, used, journal, reserved, child, current>>
  BY DEF Invoke
<1>2. DelegationTypes /\ (\A j \in Invocation : Progress(j)) /\ \A d \in Delegation : Covered(d)
  BY DEF DelegationInv
<1>3. /\ step'[i] = "sweep" /\ step' \in [Invocation -> Steps]
      /\ \A j \in Invocation : j # i => step'[j] = step[j]
      /\ sweep'[i] = {<<d, journal[d]>> : d \in {d \in Delegation :
                                                 journal[d] \notin Archived \cup {"none"}}}
      /\ sweep' \in [Invocation -> SUBSET (Delegation \X JournalStatus)]
  BY <1>1, <1>2 DEF DelegationTypes, Steps, Live
<1>4. DelegationTypes'
  BY <1>1, <1>2, <1>3 DEF DelegationTypes
<1>5. \A d \in Delegation : Covered(d)' /\ (Untouched(d)' <=> Untouched(d))
                            /\ Charge(d)' = Charge(d)
  BY <1>1, <1>2 DEF Covered, Charge, Charged, Held, Active, Untouched
<1>6. \A j, k \in Invocation : step'[j] \in Live /\ step'[k] \in Live => j = k
  BY <1>1, <1>3
<1>7. \A j \in Invocation : Progress(j)'
  <2> SUFFICES ASSUME NEW j \in Invocation PROVE Progress(j)'
    OBVIOUS
  <2>1. CASE j = i
    <3>1. /\ at'[i] = 1 /\ \A b \in Budget : b >= 1 => Untouched(<<i, b>>)'
      BY <1>1, <1>2, <1>5, DelegationPairs DEF Progress
    <3> QED BY <1>3, <2>1, <3>1 DEF Progress
  <2>2. CASE j # i
    <3>1. step'[j] \in {"idle", "ended", "dead"} /\ step'[j] = step[j]
      BY <1>1, <1>2, <1>3, <2>2 DEF DelegationTypes, Steps
    <3>2. \A b \in Budget : Untouched(<<j, b>>)' <=> Untouched(<<j, b>>)
      BY <1>5, DelegationPairs
    <3> QED BY <1>1, <1>2, <3>1, <3>2 DEF Progress
  <2> QED BY <2>1, <2>2
<1>8. \A j \in Invocation : SweepsOver(j)'
  <2> SUFFICES ASSUME NEW j \in Invocation PROVE SweepsOver(j)'
    OBVIOUS
  <2>1. CASE j # i
    BY <1>1, <1>3, <2>1 DEF SweepsOver, Live
  <2>2. CASE j = i
    <3>1. marks'[i] = {}
      BY <1>1, <1>2 DEF Progress
    <3>2. ASSUME NEW d \in Delegation, NEW s \in JournalStatus, <<d, s>> \in sweep'[i]
          PROVE  step'[d[1]] \in {"ended", "dead"} /\ (s = "reserve_intent" => Charge(d)' = 0)
      <4>1. s = journal[d] /\ journal[d] # "none"
        BY <1>3, <3>2
      <4>2. d[1] \in Invocation /\ d[2] \in Budget /\ d = <<d[1], d[2]>> /\ d[2] >= 1
        BY DelegationPairs DEF Budget
      <4>3. ASSUME step[d[1]] = "idle" PROVE FALSE
        <5>1. at[d[1]] = 1
          BY <1>2, <4>2, <4>3 DEF Progress
        <5>2. Untouched(<<d[1], d[2]>>)
          BY <1>2, <4>2, <4>3, <5>1 DEF Progress
        <5> QED BY <4>1, <4>2, <5>2 DEF Untouched
      <4>4. step[d[1]] \in {"ended", "dead"}
        BY <1>1, <1>2, <4>2, <4>3 DEF DelegationTypes, Steps
      <4>5. step'[d[1]] = step[d[1]]
        BY <1>1, <1>3, <4>2, <4>3
      <4> QED BY <1>2, <1>5, <4>1, <4>4, <4>5 DEF Covered
    <3> QED BY <2>2, <3>1, <3>2 DEF SweepsOver
  <2> QED BY <2>1, <2>2
<1> QED BY <1>4, <1>5, <1>6, <1>7, <1>8 DEF DelegationInv

\* A sweep works on one delegation m of an invocation that is over.
LEMMA SweepStep ==
    ASSUME DelegationInv, NEW i \in Invocation, step[i] = "sweep", step' = step, at' = at,
           current' = current, NEW m \in Delegation, step[m[1]] \in {"ended", "dead"},
           \A d \in Delegation : d # m => Left(d), Covered(m)', Charge(m)' = Charge(m),
           sweep'[i] \in SUBSET sweep[i],
           \A j \in Invocation : j # i => marks'[j] = marks[j],
           \A d \in Delegation, s \in JournalStatus : <<d, s>> \in marks'[i] =>
              /\ d = m /\ s \in {"settled", "reclaimed", "retry_required"}
              /\ s = "settled" => Charged(m)'
              /\ s = "reclaimed" => ~Active(m)',
           DelegationTypes'
    PROVE  DelegationInv'
<1>1. /\ DelegationTypes /\ (\A j \in Invocation : Progress(j)) /\ SweepsOver(i)
      /\ \A j \in Invocation : j # i => step[j] \in {"idle", "ended", "dead"}
  BY DEF DelegationInv, DelegationTypes, Steps, Live
<1>2. \A d \in Delegation : Covered(d)' /\ Charge(d)' = Charge(d)
  BY LeftStays
<1>3. \A j \in Invocation : Progress(j)'
  <2> SUFFICES ASSUME NEW j \in Invocation PROVE Progress(j)'
    OBVIOUS
  <2>1. ASSUME step[j] \in {"idle", "sweep"}, NEW b \in Budget, Untouched(<<j, b>>)
        PROVE  Untouched(<<j, b>>)'
    <3>1. <<j, b>> \in Delegation /\ <<j, b>> # m
      BY <2>1, DelegationPairs
    <3> QED BY <2>1, <3>1, LeftStays
  <2>2. CASE j = i
    <3>1. Progress(i)
      BY <1>1
    <3> QED BY <2>1, <2>2, <3>1 DEF Progress
  <2>3. CASE j # i
    <3>1. Progress(j) /\ step[j] \in {"idle", "ended", "dead"} /\ marks'[j] = marks[j]
      BY <1>1, <2>3
    <3> QED BY <2>1, <3>1 DEF Progress
  <2> QED BY <2>2, <2>3
<1>4. \A j \in Invocation : SweepsOver(j)'
  <2> SUFFICES ASSUME NEW j \in Invocation PROVE SweepsOver(j)'
    OBVIOUS
  <2>1. CASE j # i
    BY <1>1, <2>1 DEF SweepsOver
  <2>2. CASE j = i
    <3>1. ASSUME NEW d \in Delegation, NEW s \in JournalStatus, <<d, s>> \in sweep'[i]
          PROVE  step'[d[1]] \in {"ended", "dead"} /\ (s = "reserve_intent" => Charge(d)' = 0)
      <4>1. <<d, s>> \in sweep[i]
        BY <3>1
      <4> QED BY <1>1, <1>2, <4>1 DEF SweepsOver
    <3> QED BY <2>2, <3>1 DEF SweepsOver
  <2> QED BY <2>1, <2>2
<1> QED BY <1>2, <1>3, <1>4 DEF DelegationInv

\* The sweep's write to the journal.
LEMMA SweepMarkStep ==
    ASSUME DelegationInv, NEW i \in Invocation, SweepMark(i)
    PROVE  DelegationInv'
<1>1. /\ step[i] = "sweep" /\ marks' = [marks EXCEPT ![i] = {}]
      /\ UNCHANGED <<step, at, sweep, undo, used, reserved, child, current>>
  BY DEF SweepMark
<1>2. DelegationTypes /\ SweepsOver(i)
  BY DEF DelegationInv
<1>3. PICK m \in Delegation, s \in JournalStatus : <<m, s>> \in marks[i] /\ Transition(m, s)
  <2>1. PICK x \in marks[i] : Transition(x[1], x[2])
    BY DEF SweepMark
  <2>2. x \in Delegation \X JournalStatus
    BY <1>2, <2>1 DEF DelegationTypes
  <2> QED BY <2>1, <2>2
<1>4. /\ step[m[1]] \in {"ended", "dead"} /\ s \in {"settled", "reclaimed", "retry_required"}
      /\ s = "settled" => Charged(m)
      /\ s = "reclaimed" => ~Active(m)
  BY <1>1, <1>2, <1>3 DEF SweepsOver
<1>5. s \in Archived => ~Active(m)
  BY <1>4 DEF Archived, Charged, Active
<1>6. /\ journal' \in [Delegation -> JournalStatus]
      /\ Covered(m)' /\ (\A d \in Delegation : d # m => Left(d)) /\ Charge(m)' = Charge(m)
  BY <1>1, <1>3, <1>4, <1>5, TransitionWrites
<1>7. /\ DelegationTypes' /\ marks'[i] = {} /\ sweep'[i] \in SUBSET sweep[i]
      /\ \A j \in Invocation : j # i => marks'[j] = marks[j]
  BY <1>1, <1>2, <1>6 DEF DelegationTypes
<1> QED BY <1>1, <1>3, <1>4, <1>6, <1>7, SweepStep

\* What the sweep does at the authority with one pending record.
LEMMA SweepRecordStep ==
    ASSUME DelegationInv, NEW i \in Invocation, NEW m \in Delegation,
           \/ SweepIntent(i, m) \/ SweepPrepared(i, m) \/ SweepEnded(i, m)
           \/ \E status \in JournalStatus : SweepFault(i, m, status)
    PROVE  DelegationInv'
<1>1. PICK st \in JournalStatus : Sweeping(i, m, st) /\ (SweepIntent(i, m) => st = "reserve_intent")
  BY DEF SweepIntent, SweepPrepared, SweepEnded, SweepFault, JournalStatus
<1>2. /\ step[i] = "sweep" /\ <<m, st>> \in sweep[i]
      /\ sweep' = [sweep EXCEPT ![i] = sweep[i] \ {<<m, st>>}]
      /\ UNCHANGED <<step, at, undo, used, journal, child, current>>
  BY <1>1 DEF Sweeping
<1>3. DelegationTypes /\ Covered(m) /\ SweepsOver(i)
  BY DEF DelegationInv
<1>4. step[m[1]] \in {"ended", "dead"} /\ (SweepIntent(i, m) => Charge(m) = 0)
  BY <1>1, <1>2, <1>3 DEF SweepsOver
<1>5. /\ sweep' \in [Invocation -> SUBSET (Delegation \X JournalStatus)]
      /\ sweep'[i] \in SUBSET sweep[i]
      /\ Charge(m)' = Charge(m) /\ Held(m)' = Held(m) /\ Charge(m) \in Nat
      /\ reserved[m] \in [status : ReservationStatus, completed : Nat]
  <2>1. child[m] \in [spent : Nat, open : Nat]
    BY <1>3 DEF DelegationTypes
  <2>2. Charge(m) \in Nat
    BY <2>1 DEF Charge
  <2> QED BY <1>2, <1>3, <2>2 DEF DelegationTypes, Charge, Held
\* The marks that the step leaves behind.
<1>6. ASSUME reserved' \in [Delegation -> [status : ReservationStatus, completed : Nat]],
             \A d \in Delegation : d # m => Left(d), Covered(m)',
             NEW M, marks' = [marks EXCEPT ![i] = M],
             \/ M = {} \/ M = {<<m, "retry_required">>}
             \/ M = {<<m, "reclaimed">>} /\ ~Active(m)'
             \/ M = {<<m, "settled">>} /\ Charged(m)'
      PROVE  DelegationInv'
  <2>1. M \in SUBSET (Delegation \X JournalStatus)
    BY <1>6 DEF JournalStatus, Archived
  <2>2. /\ marks' \in [Invocation -> SUBSET (Delegation \X JournalStatus)] /\ marks'[i] = M
        /\ \A j \in Invocation : j # i => marks'[j] = marks[j]
    BY <1>3, <1>6, <2>1 DEF DelegationTypes
  <2>3. DelegationTypes'
    BY <1>2, <1>3, <1>5, <1>6, <2>2 DEF DelegationTypes
  <2>4. \A d \in Delegation, s \in JournalStatus : <<d, s>> \in marks'[i] =>
              /\ d = m /\ s \in {"settled", "reclaimed", "retry_required"}
              /\ s = "settled" => Charged(m)'
              /\ s = "reclaimed" => ~Active(m)'
    BY <1>6, <2>2
  <2> QED BY <1>2, <1>4, <1>5, <1>6, <2>2, <2>3, <2>4, SweepStep
<1>7. CASE SweepIntent(i, m)
  <2>1. /\ marks' = [marks EXCEPT ![i] = {<<m, "reclaimed">>}]
        /\ reserved' = [reserved EXCEPT ![m] =
              IF Active(m) THEN [reserved[m] EXCEPT !.status = "cancelled"] ELSE reserved[m]]
    BY <1>7 DEF SweepIntent, CancelReservation
  <2>2. /\ [reserved[m] EXCEPT !.status = "cancelled"]
              \in [status : ReservationStatus, completed : Nat]
        /\ [reserved[m] EXCEPT !.status = "cancelled"].status = "cancelled"
    BY <1>5 DEF ReservationStatus
  <2>3. /\ reserved' \in [Delegation -> [status : ReservationStatus, completed : Nat]]
        /\ Active(m) => reserved'[m].status = "cancelled"
        /\ ~Active(m) => reserved'[m] = reserved[m]
        /\ \A d \in Delegation : d # m => reserved'[d] = reserved[d]
    BY <1>3, <1>5, <2>1, <2>2 DEF DelegationTypes
  <2>4. \A d \in Delegation : d # m => Left(d)
    BY <1>2, <2>3 DEF Left
  <2>5. ~Active(m)' /\ Covered(m)'
    <3>1. CASE Active(m)
      <4>1. journal'[m] \notin Archived /\ reserved'[m].status = "cancelled"
            /\ "settled" \in Archived
        BY <1>2, <1>3, <2>3, <3>1 DEF Covered, Archived
      <4>2. ~Active(m)'
        BY <4>1 DEF Active
      <4>3. Charge(m)' <= Amount /\ Charge(m)' = 0
        BY <1>4, <1>5, <1>7, DelegationAssumption
      <4> QED BY <4>1, <4>2, <4>3 DEF Covered
    <3>2. CASE ~Active(m)
      BY <1>2, <1>3, <1>5, <2>3, <3>2 DEF Covered, Active, Charged
    <3> QED BY <3>1, <3>2
  <2> QED BY <1>6, <2>1, <2>3, <2>4, <2>5
<1>8. CASE SweepPrepared(i, m)
  <2>1. /\ reserved' = Reclaimed(reserved)
        /\ marks' = [marks EXCEPT ![i] = IF Active(m) THEN {} ELSE {<<m, "reclaimed">>}]
    BY <1>8 DEF SweepPrepared
  <2>2. \A d \in Delegation : Left(d)
    BY <1>2, <1>3, <2>1, ReclaimedRow DEF Left
  <2>3. Covered(m)' /\ (Active(m)' => Active(m))
    BY <1>2, <2>2, LeftStays
  <2>4. reserved' \in [Delegation -> [status : ReservationStatus, completed : Nat]]
    BY <1>3, <2>1, ReclaimedRow
  <2> QED BY <1>6, <2>1, <2>2, <2>3, <2>4
<1>9. CASE SweepEnded(i, m)
  <2>1. CASE /\ CompletionAccepted(m, ChargedToParent(m))
             /\ CompleteReservation(m, ChargedToParent(m))
             /\ marks' = [marks EXCEPT ![i] = {<<m, "settled">>}]
    <3>1. ChargedToParent(m) = Charge(m)
      <4>1. CASE reserved[m] = [status |-> "completed", completed |-> ChargedToParent(m)]
        BY <1>3, <4>1 DEF Covered, Charged
      <4>2. CASE Active(m)
        <5>1. Charge(m) <= Amount /\ Amount \in Nat /\ Held(m)
          BY <1>3, <4>2, DelegationAssumption DEF Covered, Active
        <5> QED BY <1>5, <5>1 DEF ChargedToParent, Charge
      <4> QED BY <2>1, <4>1, <4>2 DEF CompletionAccepted
    <3>2. /\ reserved' \in [Delegation -> [status : ReservationStatus, completed : Nat]]
          /\ reserved'[m] = [status |-> "completed", completed |-> Charge(m)]
          /\ \A d \in Delegation : d # m => reserved'[d] = reserved[d]
      BY <1>3, <1>5, <2>1, <3>1 DEF CompleteReservation, DelegationTypes, ReservationStatus
    <3>3. \A d \in Delegation : d # m => Left(d)
      BY <1>2, <3>2 DEF Left
    <3>4. Charged(m)' /\ ~Active(m)' /\ reserved'[m].status = "completed"
      BY <1>5, <3>2 DEF Charged, Active
    <3>5. Covered(m)'
      BY <1>2, <1>3, <1>5, <3>4 DEF Covered
    <3> QED BY <1>6, <2>1, <3>2, <3>3, <3>4, <3>5
  <2>2. CASE /\ ~CompletionAccepted(m, ChargedToParent(m)) /\ reserved' = reserved
             /\ marks' = [marks EXCEPT ![i] = {<<m, "reclaimed">>}]
    <3>1. \A d \in Delegation : Left(d)
      BY <1>2, <2>2 DEF Left
    <3>2. Covered(m)' /\ (Active(m)' => Active(m))
      BY <1>2, <3>1, LeftStays
    <3>3. ~Active(m)
      <4> SUFFICES ASSUME Active(m) PROVE FALSE
        OBVIOUS
      <4>1. Charge(m) <= Amount /\ Amount \in Nat /\ Held(m)
            /\ reserved[m].completed <= Charge(m)
        BY <1>3, DelegationAssumption DEF Covered, Active
      <4>2. ChargedToParent(m) = Charge(m)
        BY <1>5, <4>1 DEF ChargedToParent, Charge
      <4> QED BY <2>2, <4>1, <4>2 DEF CompletionAccepted
    <3>4. reserved' \in [Delegation -> [status : ReservationStatus, completed : Nat]]
      BY <1>3, <2>2 DEF DelegationTypes
    <3> QED BY <1>6, <2>2, <3>1, <3>2, <3>3, <3>4
  <2> QED BY <1>9, <2>1, <2>2 DEF SweepEnded
<1>10. CASE \E status \in JournalStatus : SweepFault(i, m, status)
  <2>1. /\ reserved' = reserved
        /\ \E M \in {{}, {<<m, "retry_required">>}} : marks' = [marks EXCEPT ![i] = M]
    BY <1>10 DEF SweepFault
  <2>2. \A d \in Delegation : Left(d)
    BY <1>2, <2>1 DEF Left
  <2>3. Covered(m)'
    BY <1>2, <2>2, LeftStays
  <2>4. reserved' \in [Delegation -> [status : ReservationStatus, completed : Nat]]
    BY <1>3, <2>1 DEF DelegationTypes
  <2> QED BY <1>6, <2>1, <2>2, <2>3, <2>4
<1> QED BY <1>7, <1>8, <1>9, <1>10

\* A process dies or a lease is lost.
LEMMA ParentStep ==
    ASSUME DelegationInv, NEW p \in Parent, ParentCrashes(p) \/ LeaseLost(p)
    PROVE  DelegationInv'
<1>1. /\ current' \in SUBSET current
      /\ UNCHANGED <<at, sweep, marks, undo, used, journal, reserved, child>>
      /\ \A i \in Invocation : step'[i] = step[i] \/ step'[i] = "dead"
      /\ step' \in [Invocation -> Steps]
  BY DEF ParentCrashes, LeaseLost, DelegationInv, DelegationTypes, Steps
<1>2. /\ DelegationTypes /\ \A d \in Delegation : Covered(d)
      /\ \A i \in Invocation : Progress(i) /\ SweepsOver(i)
      /\ \A i, j \in Invocation : step[i] \in Live /\ step[j] \in Live => i = j
  BY DEF DelegationInv
<1>3. DelegationTypes'
  BY <1>1, <1>2 DEF DelegationTypes
<1>4. \A d \in Delegation :
         /\ Charge(d)' = Charge(d) /\ (Held(d)' => Held(d)) /\ (Active(d)' => Active(d))
         /\ (Confirmed(d) => Confirmed(d)') /\ Charged(d)' = Charged(d)
         /\ Untouched(d)' = Untouched(d)
  BY <1>1 DEF Charge, Held, Active, Confirmed, Charged, Untouched
<1>5. \A d \in Delegation : Covered(d)'
  BY <1>1, <1>2, <1>4 DEF Covered
<1>6. \A i, j \in Invocation : step'[i] \in Live /\ step'[j] \in Live => i = j
  BY <1>1, <1>2 DEF Live
<1>7. ASSUME NEW i \in Invocation PROVE Progress(i)'
  <2>1. CASE step'[i] = "dead"
    BY <2>1 DEF Progress
  <2>2. CASE step'[i] = step[i]
    <3>1. \A b \in Budget : <<i, b>> \in Delegation
      BY DelegationPairs
    <3>2. Progress(i) /\ Mine(i)' = Mine(i)
      BY <1>1, <1>2 DEF Mine
    <3>3. at[i] \in Budget => Mine(i) \in Delegation
      BY <3>1 DEF Mine
    <3> QED BY <1>1, <1>4, <2>2, <3>1, <3>2, <3>3 DEF Progress
  <2> QED BY <1>1, <2>1, <2>2
<1>8. ASSUME NEW i \in Invocation PROVE SweepsOver(i)'
  <2>1. CASE step'[i] = "dead"
    BY <2>1 DEF SweepsOver
  <2>2. CASE step'[i] = step[i]
    <3>1. \A d \in Delegation : d[1] \in Invocation
      BY DelegationPairs
    <3>2. SweepsOver(i)
      BY <1>2
    <3> QED BY <1>1, <1>4, <2>2, <3>1, <3>2 DEF SweepsOver
  <2> QED BY <1>1, <2>1, <2>2
<1> QED BY <1>3, <1>5, <1>6, <1>7, <1>8 DEF DelegationInv

\* The invariant of the delegations at the start.
LEMMA DelegationInvInit == DelegationInit => DelegationInv
<1> SUFFICES ASSUME DelegationInit PROVE DelegationInv
  OBVIOUS
<1>1. DelegationTypes
  BY DEF DelegationInit, DelegationTypes, Steps, JournalStatus, ReservationStatus
<1>2. \A d \in Delegation : Charge(d) = 0 /\ reserved[d].status = "none"
                            /\ reserved[d].completed = 0 /\ journal[d] = "none"
  BY DEF DelegationInit, Charge
<1>3. \A d \in Delegation : Covered(d) /\ Untouched(d)
  BY <1>2, DelegationAssumption DEF Covered, Untouched, Active, Archived
<1>4. \A i \in Invocation : Progress(i) /\ SweepsOver(i)
  BY <1>3, DelegationPairs DEF DelegationInit, Progress, SweepsOver
<1> QED BY <1>1, <1>3, <1>4 DEF DelegationInv, DelegationInit, Live

\* Every step of every invocation keeps the invariant.
LEMMA DelegationInvNext ==
    ASSUME ~Overlap
    PROVE  DelegationInv /\ [DelegationNext]_delegationVars => DelegationInv'
<1> SUFFICES ASSUME DelegationInv, [DelegationNext]_delegationVars PROVE DelegationInv'
  OBVIOUS
<1>1. ASSUME NEW i \in Invocation, Invoking(i) PROVE DelegationInv'
  BY <1>1, InvokeStep, SweepMarkStep, QuietSteps, SweepRecordStep, PrepareStep,
     ReserveParentStep, MarkReservedStep, UndoStep, ChildStep, ItemCharged, ItemClosed
     DEF Invoking
<1>2. CASE UNCHANGED delegationVars
  BY <1>2 DEF delegationVars, DelegationInv, DelegationTypes, Covered, Progress, SweepsOver,
     Charge, Charged, Confirmed, Untouched, Held, Active, Mine
<1> QED BY <1>1, <1>2, ParentStep DEF DelegationNext

\* The invariant of the delegations holds in every state.
THEOREM DelegationInvariance ==
    ASSUME ~Overlap PROVE DelegationSpec => []DelegationInv
<1>1. DelegationInv /\ [DelegationNext]_delegationVars => DelegationInv'
  BY DelegationInvNext
<1> QED BY <1>1, DelegationInvInit, PTL DEF DelegationSpec

\* While invocations of one Project follow one another, what a child spent is
\* always reserved or charged in its parent's budget, for any number of
\* invocations, parents and budgets and through crashes, lost leases, sweeps,
\* rollbacks and retried settlements.
THEOREM ChildSpendBackedThm ==
    ASSUME ~Overlap PROVE DelegationSpec => []ChildSpendBacked
<1>1. DelegationInv => ChildSpendBacked
  <2> SUFFICES ASSUME DelegationInv, NEW d \in Delegation, Held(d)
               PROVE  child[d].spent <= (IF reserved[d].status = "active" THEN Amount
                                         ELSE reserved[d].completed)
    BY DEF ChildSpendBacked
  <2>1. /\ Covered(d) /\ child[d] \in [spent : Nat, open : Nat]
        /\ reserved[d] \in [status : ReservationStatus, completed : Nat]
    BY DEF DelegationInv, DelegationTypes
  <2>2. child[d].spent <= Charge(d) /\ Charge(d) \in Nat /\ child[d].spent \in Nat
    BY <2>1 DEF Charge
  <2>3. CASE reserved[d].status = "active"
    BY <2>1, <2>2, <2>3, DelegationAssumption DEF Covered
  <2>4. CASE reserved[d].status = "completed"
    BY <2>1, <2>2, <2>4 DEF Covered, Charged
  <2>5. CASE reserved[d].status \in {"none", "cancelled"}
    BY <2>1, <2>2, <2>5 DEF Covered
  <2>6. reserved[d].status # "reclaimed"
    BY <2>1 DEF Covered
  <2> QED BY <2>1, <2>3, <2>4, <2>5, <2>6 DEF ReservationStatus
<1> QED BY <1>1, DelegationInvariance, PTL

\* A record is archived as settled only after the parent was charged exactly
\* what the child spent and left reserved, and no archived record leaves an
\* active reservation behind.
THEOREM SettledIsChargedThm ==
    ASSUME ~Overlap PROVE DelegationSpec => []SettledIsCharged
<1>1. DelegationInv => SettledIsCharged
  BY DEF DelegationInv, SettledIsCharged, Covered, Charged, Charge
<1> QED BY <1>1, DelegationInvariance, PTL

=============================================================================
