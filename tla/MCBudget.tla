------------------------------ MODULE MCBudget ------------------------------
(* Small instances for TLC of the budget modules: the shared authority, the *)
(* delegation of budgets to child Cases and the account of a Case. They     *)
(* have no state in common; a behaviour belongs to one of them, "part".     *)
EXTENDS BudgetAuthority, BudgetDelegation, BudgetAccount, TLC

CONSTANTS l1, l2, r1, r2, i1, i2, p1, p2, a1, a2, c1, c2,
    Parts   \* modules that are checked: "authority", "delegation", "account"

VARIABLE part

mcVars == <<part, vars, delegationVars, accountVars>>

\* Each invocation has a parent of its own.
MCParentOf == [i \in Invocation |-> IF i = i1 THEN p1 ELSE p2]

Symmetry == Permutations(ReservationId) \cup Permutations(LeaseId)

MCInit ==
    /\ part \in Parts
    /\ Init /\ DelegationInit /\ AccountInit
    /\ part # "authority" => store = (CHOOSE s \in Stores : TRUE)
    /\ part # "account" => kind = (CHOOSE k \in HandleKinds : TRUE)

AuthorityStep == part = "authority" /\ Next /\ UNCHANGED <<part, delegationVars, accountVars>>
DelegationStep == part = "delegation" /\ DelegationNext /\ UNCHANGED <<part, vars, accountVars>>
AccountStep == part = "account" /\ AccountNext /\ UNCHANGED <<part, vars, delegationVars>>

\* Invocations and claims come to an end; the authority never blocks.
Rest == part \in {"delegation", "account"} /\ UNCHANGED mcVars

MCNext == AuthorityStep \/ DelegationStep \/ AccountStep \/ Rest

MCSpec == MCInit /\ [][MCNext]_mcVars
=============================================================================
