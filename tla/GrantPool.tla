----------------------------- MODULE GrantPool -----------------------------
(***************************************************************************)
(* ResourceGrantPool: child Cases running at the same time take slices of  *)
(* the grant their parent holds. Quantities are counted, named devices are *)
(* handed out one by one, and a request that does not fit waits on a       *)
(* condition (polling) until it fits, its deadline passes or its           *)
(* cancellation is requested. Everything but the wait and the use of the   *)
(* grant is under the pool's lock. workers, threads and memory_mb are      *)
(* counted like one another and stand here as one quantity.                *)
(***************************************************************************)
EXTENDS Integers, FiniteSets, FiniteSetsExt

CONSTANTS
    Child,        \* children, each asking once
    TotalUnits,   \* workers, threads, memory of the parent's grant
    TotalGpus,    \* GPUs of the parent's grant
    TokenLists    \* device_tokens the parent's grant may carry, each 1..n or {}

ASSUME GrantPoolAssumption ==
    /\ IsFiniteSet(Child)
    /\ TotalUnits \in Nat /\ TotalGpus \in Nat
    /\ \A T \in TokenLists : IsFiniteSet(T) /\ (T = {} \/ T = 1..Cardinality(T))

VARIABLES
    tokens,       \* _tokens
    units,        \* _available["workers"], ...
    gpus,         \* _available["gpus"]
    freeTokens,   \* _available_tokens, kept in the order of _tokens
    asks,         \* [Child -> its request]
    slice         \* [Child -> what it is doing and the tokens it was given]

grantVars == <<tokens, units, gpus, freeTokens, asks, slice>>

NoAsk == [units |-> 0, gpus |-> 0, tokens |-> {}]
NoSlice == [at |-> "new", tokens |-> {}]

GrantPoolInit ==
    /\ tokens \in TokenLists
    /\ units = TotalUnits /\ gpus = TotalGpus /\ freeTokens = tokens
    /\ asks = [c \in Child |-> NoAsk]
    /\ slice = [c \in Child |-> NoSlice]

AtStep(where) == {c \in Child : slice[c].at = where}

\* _requested_resources: naming devices asks for at least as many GPUs.
RequestedSlice(u, g, T) ==
    [units |-> u, gpus |-> IF g > Cardinality(T) THEN g ELSE Cardinality(T), tokens |-> T]

\* _validate_static: within the parent's grant as a whole.
StaticallyValid(ask) ==
    /\ ask.units <= TotalUnits /\ ask.gpus <= TotalGpus
    /\ ask.tokens \subseteq tokens

\* _can_allocate: tokens are a second ledger only if the parent names some.
CanAllocate(ask) ==
    /\ units >= ask.units /\ gpus >= ask.gpus
    /\ \/ ask.tokens # {} /\ ask.tokens \subseteq freeTokens
       \/ ask.tokens = {} /\ (tokens = {} \/ Cardinality(freeTokens) >= ask.gpus)

\* The tokens asked for, or the first of the free ones.
Allocated(ask) ==
    IF ask.tokens # {} THEN ask.tokens
    ELSE {t \in freeTokens : Cardinality({s \in freeTokens : s < t}) < ask.gpus}

\* acquire is called: a request outside the grant raises at once.
Ask(c, ask) ==
    /\ slice[c].at = "new"
    /\ asks' = IF StaticallyValid(ask) THEN [asks EXCEPT ![c] = ask] ELSE asks
    /\ slice' = [slice EXCEPT ![c].at = IF StaticallyValid(ask) THEN "waiting" ELSE "raised"]
    /\ UNCHANGED <<tokens, units, gpus, freeTokens>>

\* One turn of the wait loop that finds room.
Grant(c) ==
    /\ c \in AtStep("waiting") /\ CanAllocate(asks[c])
    /\ units' = units - asks[c].units
    /\ gpus' = gpus - asks[c].gpus
    /\ freeTokens' = freeTokens \ Allocated(asks[c])
    /\ slice' = [slice EXCEPT ![c] = [at |-> "granted", tokens |-> Allocated(asks[c])]]
    /\ UNCHANGED <<tokens, asks>>

\* checkpoint raises or the deadline has passed.
GiveUpWaiting(c) ==
    /\ c \in AtStep("waiting")
    /\ slice' = [slice EXCEPT ![c].at = "raised"]
    /\ asks' = [asks EXCEPT ![c] = NoAsk]
    /\ UNCHANGED <<tokens, units, gpus, freeTokens>>

\* Mutant: the tokens of the request are given back, not the allocated ones.
GiveBackRequested(c) ==
    /\ c \in AtStep("granted")
    /\ units' = units + asks[c].units
    /\ gpus' = gpus + asks[c].gpus
    /\ freeTokens' = freeTokens \cup asks[c].tokens
    /\ slice' = [slice EXCEPT ![c] = [at |-> "done", tokens |-> {}]]
    /\ asks' = [asks EXCEPT ![c] = NoAsk]
    /\ UNCHANGED tokens

\* The finally clause, however the child ended.
GiveBack(c) ==
    /\ c \in AtStep("granted")
    /\ units' = units + asks[c].units
    /\ gpus' = gpus + asks[c].gpus
    /\ freeTokens' = freeTokens \cup slice[c].tokens
    /\ slice' = [slice EXCEPT ![c] = [at |-> "done", tokens |-> {}]]
    /\ asks' = [asks EXCEPT ![c] = NoAsk]
    /\ UNCHANGED tokens

Asks == {RequestedSlice(u, g, T) : u \in 1..(TotalUnits + 1), g \in 0..TotalGpus,
                              T \in SUBSET tokens}

GrantPoolNext ==
    \E c \in Child :
        \/ \E ask \in Asks : Ask(c, ask)
        \/ Grant(c) \/ GiveUpWaiting(c) \/ GiveBack(c)

\* A waiter looks again every 0.05 s and a child ends some time.
GrantPoolFairness ==
    \A c \in Child : WF_grantVars(Grant(c)) /\ WF_grantVars(GiveBack(c))

GrantPoolSpec == GrantPoolInit /\ [][GrantPoolNext]_grantVars /\ GrantPoolFairness

-----------------------------------------------------------------------------
(* Properties *)

\* Slices never overlap and nothing of the parent's grant gets lost, for any
\* mix of requests by name and by count: the ledger of quantities and the
\* ledger of named devices stay in step with what the children hold, and a
\* child that asked for a number of GPUs got that many devices.
SlicesExclusive ==
    LET active == AtStep("granted")
    IN  /\ units + SumFunctionOnSet([c \in Child |-> asks[c].units], active) = TotalUnits
        /\ gpus + SumFunctionOnSet([c \in Child |-> asks[c].gpus], active) = TotalGpus
        /\ freeTokens \cup UNION {slice[c].tokens : c \in active} = tokens
        /\ \A c, d \in active : c # d => slice[c].tokens \cap slice[d].tokens = {}
        /\ \A c \in active : asks[c].tokens = {} /\ tokens # {} =>
              Cardinality(slice[c].tokens) = asks[c].gpus

\* Nobody waits for ever: named and counted requests compete for the same
\* devices without queueing, yet each one is granted once the others end.
WaitersServed == \A c \in Child : slice[c].at = "waiting" ~> slice[c].at # "waiting"
=============================================================================
