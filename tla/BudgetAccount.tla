---------------------------- MODULE BudgetAccount ----------------------------
(***************************************************************************)
(* BudgetAccount, the Case-side client of one budget: it checks the limit  *)
(* of the delegated handle, keeps its claims, and lets the budget          *)
(* authority (BudgetAuthority) have the last word when the handle names    *)
(* one. A local handle has none. Every method holds the account's lock, so *)
(* it is one action; a method that raises changes nothing. Accounts opened *)
(* on the same handle share only the authority.                            *)
(***************************************************************************)
EXTENDS Integers, FiniteSets, FiniteSetsExt

CONSTANTS
    Account,       \* accounts opened on one handle
    ClaimId,       \* reservation ids, chosen by the caller or fresh
    HandleLimit,   \* limit of the handle and of its budget at the authority
    HandleKinds    \* handles considered: "shared" has an authority, "local" none

ASSUME AccountAssumption ==
    /\ IsFiniteSet(Account) /\ IsFiniteSet(ClaimId)
    /\ HandleLimit \in Nat /\ HandleKinds \subseteq {"shared", "local"}

VARIABLES
    kind,       \* the handle in use
    claims,     \* [Account -> [ClaimId -> the claim in _claims]]
    spent,      \* [Account -> _spent]
    rows,       \* [ClaimId -> the authority's reservation]
    fenced      \* is the lease of the handle current?

accountVars == <<kind, claims, spent, rows, fenced>>

NoClaim == [status |-> "none", amount |-> 0, consumed |-> 0]

AccountInit ==
    /\ kind \in HandleKinds
    /\ claims = [a \in Account |-> [c \in ClaimId |-> NoClaim]]
    /\ spent = [a \in Account |-> 0]
    /\ rows = [c \in ClaimId |-> NoClaim]
    /\ fenced = TRUE

-----------------------------------------------------------------------------

ActiveClaims(a) == {c \in ClaimId : claims[a][c].status = "active"}

\* active_reserved: the part of the open claims that is not consumed yet.
ActiveReserved(a) ==
    SumFunctionOnSet([c \in ClaimId |-> claims[a][c].amount - claims[a][c].consumed],
                     ActiveClaims(a))

\* remaining_limit
RemainingLimit(a) ==
    LET rest == HandleLimit - spent[a] - ActiveReserved(a)
    IN  IF rest > 0 THEN rest ELSE 0

\* Remaining units at the authority, expired reservations reclaimed.
AuthorityRemaining(R) ==
    HandleLimit - SumFunction([c \in ClaimId |-> IF R[c].status = "active" THEN R[c].amount
                                                 ELSE R[c].consumed])

\* reserve: within the handle, then at the authority, where the id of an
\* earlier reservation is answered with its row, whatever became of it; then
\* the claim this account knows under the id, or a new one.
ReserveClaim(a, c, n) ==
    LET known == claims[a][c].status # "none"
        fresh == [status |-> "active", amount |-> n, consumed |-> 0]
    IN  /\ n <= RemainingLimit(a)
        /\ known => claims[a][c].amount = n
        /\ \/ kind = "local" /\ UNCHANGED rows
           \/ kind = "shared" /\ fenced /\ rows[c].amount = n /\ UNCHANGED rows
           \/ /\ kind = "shared" /\ fenced /\ rows[c].status = "none"
              /\ n <= AuthorityRemaining(rows)
              /\ rows' = [rows EXCEPT ![c] = fresh]
        /\ claims' = [claims EXCEPT ![a][c] = IF known THEN @ ELSE fresh]
        /\ UNCHANGED <<kind, spent, fenced>>

\* Mutant: the local count moves although the authority refused.
ConsumeClaimAnyway(a, c) ==
    /\ claims[a][c].status = "active" /\ claims[a][c].consumed < claims[a][c].amount
    /\ claims' = [claims EXCEPT ![a][c].consumed = @ + 1]
    /\ rows' = IF kind = "shared" /\ rows[c].status = "active"
                  /\ rows[c].consumed < rows[c].amount /\ fenced
               THEN [rows EXCEPT ![c].consumed = @ + 1] ELSE rows
    /\ UNCHANGED <<kind, spent, fenced>>

\* consume: the authority first, then the claim.
ConsumeClaim(a, c) ==
    /\ claims[a][c].status = "active" /\ claims[a][c].consumed < claims[a][c].amount
    /\ \/ kind = "local" /\ UNCHANGED rows
       \/ /\ kind = "shared" /\ fenced
          /\ rows[c].status = "active" /\ rows[c].consumed < rows[c].amount
          /\ rows' = [rows EXCEPT ![c].consumed = @ + 1]
    /\ claims' = [claims EXCEPT ![a][c].consumed = @ + 1]
    /\ UNCHANGED <<kind, spent, fenced>>

\* The claim leaves the account and what it consumed is spent.
CloseClaim(a, c) ==
    /\ claims' = [claims EXCEPT ![a][c] = NoClaim]
    /\ spent' = [spent EXCEPT ![a] = @ + claims[a][c].consumed]

\* complete: the authority settles the reservation at what the claim consumed.
CompleteClaim(a, c) ==
    LET consumed == claims[a][c].consumed
    IN  /\ claims[a][c].status = "active"
        /\ \/ kind = "local" /\ UNCHANGED rows
           \/ /\ kind = "shared"
              /\ rows[c].status = "completed" /\ rows[c].consumed = consumed
              /\ UNCHANGED rows
           \/ /\ kind = "shared" /\ fenced
              /\ rows[c].status = "active" /\ rows[c].consumed <= consumed
              /\ rows' = [rows EXCEPT ![c] = [@ EXCEPT !.status = "completed",
                                                       !.consumed = consumed]]
        /\ CloseClaim(a, c)
        /\ UNCHANGED <<kind, fenced>>

\* cancel, and cancel_all claim by claim: the authority's refusal is ignored.
CancelClaim(a, c) ==
    /\ claims[a][c].status = "active"
    /\ rows' = IF kind = "shared" /\ fenced /\ rows[c].status = "active"
               THEN [rows EXCEPT ![c].status = "cancelled"] ELSE rows
    /\ CloseClaim(a, c)
    /\ UNCHANGED <<kind, fenced>>

FenceLost ==
    /\ kind = "shared" /\ fenced
    /\ fenced' = FALSE
    /\ UNCHANGED <<kind, claims, spent, rows>>

AccountNext ==
    \/ \E a \in Account, c \in ClaimId :
          \/ \E n \in 1..HandleLimit : ReserveClaim(a, c, n)
          \/ ConsumeClaim(a, c) \/ CompleteClaim(a, c) \/ CancelClaim(a, c)
    \/ FenceLost

AccountSpec == AccountInit /\ [][AccountNext]_accountVars

-----------------------------------------------------------------------------
(* Properties *)

Consumed(a) ==
    spent[a] + SumFunctionOnSet([c \in ClaimId |-> claims[a][c].consumed], ActiveClaims(a))

AllConsumed == SumFunction([a \in Account |-> Consumed(a)])

\* The accounts' books and the authority's agree on the units consumed, even
\* when two accounts, or two lives of one reservation id, meet in one row and
\* when the lease is lost half way.
AccountBooksAgree ==
    kind = "shared" =>
        AllConsumed = SumFunction([c \in ClaimId |-> rows[c].consumed])

=============================================================================
