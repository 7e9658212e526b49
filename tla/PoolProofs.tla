----------------------------- MODULE PoolProofs -----------------------------
(***************************************************************************)
(* TLAPS proofs about the threads of one process: PoolExecutor for any     *)
(* views, tasks and direct tasks of a pool of any size, GrantPool for any  *)
(* children, any grant and any requests, ParallelSlot for any number of    *)
(* branches, batch size and threads, CaseStages for any plan, and the      *)
(* PluginLifecycle of any set of plugins.                                  *)
(***************************************************************************)
EXTENDS PoolExecutor, GrantPool, ParallelSlot, CaseStages, PluginLifecycle, SumTheorems, TLAPS

-----------------------------------------------------------------------------
(* Slices of a grant.                                                      *)

GrantTypes ==
    /\ tokens \in TokenLists
    /\ units \in Int /\ gpus \in Int /\ freeTokens \in SUBSET tokens
    /\ asks \in [Child -> [units : Nat, gpus : Nat, tokens : SUBSET tokens]]
    /\ slice \in [Child -> [at : {"new", "waiting", "raised", "granted", "done"},
                            tokens : SUBSET tokens]]

\* A device that is free is in nobody's slice.
FreeIsFree == \A c \in AtStep("granted") : slice[c].tokens \cap freeTokens = {}

GrantInv == GrantTypes /\ SlicesExclusive /\ FreeIsFree

\* A device list is a finite set of numbers.
LEMMA TokensFinite ==
    ASSUME NEW T \in TokenLists
    PROVE  IsFiniteSet(T) /\ T \subseteq Int
<1>1. IsFiniteSet(T) /\ (T = {} \/ T = 1..Cardinality(T))
  BY GrantPoolAssumption
<1>2. Cardinality(T) \in Nat
  BY <1>1, FS_CardinalityType
<1> QED BY <1>1, <1>2

\* What a step of child c does to the ledgers: it returns what c held and
\* takes what c holds now.
SliceMoves(c, had, has, before, after) ==
    /\ tokens' = tokens
    /\ \A d \in Child : d # c => slice'[d] = slice[d] /\ asks'[d] = asks[d]
    /\ had = (slice[c].at = "granted")
    /\ has = (slice'[c].at = "granted")
    /\ units' = units + (IF had THEN asks[c].units ELSE 0)
                       - (IF has THEN asks'[c].units ELSE 0)
    /\ gpus' = gpus + (IF had THEN asks[c].gpus ELSE 0)
                     - (IF has THEN asks'[c].gpus ELSE 0)
    /\ before = (IF had THEN slice[c].tokens ELSE {})
    /\ after = (IF has THEN slice'[c].tokens ELSE {})
    /\ after \subseteq freeTokens \cup before
    /\ freeTokens' = (freeTokens \cup before) \ after
    /\ has /\ asks'[c].tokens = {} /\ tokens # {} =>
          Cardinality(slice'[c].tokens) = asks'[c].gpus

\* A step that moves a child's slice so keeps the slices exclusive.
LEMMA SliceStep ==
    ASSUME GrantInv, GrantTypes', NEW c \in Child,
           NEW had, NEW has, NEW before, NEW after,
           SliceMoves(c, had, has, before, after)
    PROVE  GrantInv'
<1> USE DEF SliceMoves
<1> DEFINE S == AtStep("granted")
           S2 == AtStep("granted")'
           fu == [d \in Child |-> asks[d].units]
           gu == [d \in Child |-> asks'[d].units]
           fg == [d \in Child |-> asks[d].gpus]
           gg == [d \in Child |-> asks'[d].gpus]
<1>1. /\ S \in SUBSET Child /\ S2 \in SUBSET Child
      /\ c \in S <=> had
      /\ c \in S2 <=> has
      /\ \A d \in Child : d # c => (d \in S2 <=> d \in S)
  BY DEF AtStep
<1>2. /\ \A d \in Child : fu[d] \in Int /\ gu[d] \in Int
      /\ \A d \in Child : fg[d] \in Int /\ gg[d] \in Int
      /\ fu[c] = asks[c].units /\ gu[c] = asks'[c].units
      /\ fg[c] = asks[c].gpus /\ gg[c] = asks'[c].gpus
      /\ \A d \in Child : d # c => gu[d] = fu[d] /\ gg[d] = fg[d]
  BY DEF GrantInv, GrantTypes
<1>3. units + SumFunctionOnSet(fu, S) = TotalUnits /\ gpus + SumFunctionOnSet(fg, S) = TotalGpus
  BY DEF GrantInv, SlicesExclusive
<1>4. IsFiniteSet(Child) /\ units \in Int /\ gpus \in Int
  BY GrantPoolAssumption DEF GrantInv, GrantTypes
<1>5. /\ SumFunctionOnSet([d \in Child |-> asks[d].units], AtStep("granted"))'
            = SumFunctionOnSet(gu, S2)
      /\ SumFunctionOnSet([d \in Child |-> asks[d].gpus], AtStep("granted"))'
            = SumFunctionOnSet(gg, S2)
  OBVIOUS
<1> HIDE DEF S, S2, fu, gu, fg, gg
<1>6. units' + SumFunctionOnSet(gu, S2) = TotalUnits
  <2>1. \A d \in Child : d # c => gu[d] = fu[d] /\ (d \in S2 <=> d \in S)
    BY <1>1, <1>2
  <2>2. SumFunctionOnSet(gu, S2) = SumFunctionOnSet(fu, S)
           - (IF c \in S THEN fu[c] ELSE 0) + (IF c \in S2 THEN gu[c] ELSE 0)
    BY <1>1, <1>2, <1>4, <2>1, SumChange
  <2>3. SumFunctionOnSet(fu, S) \in Int
    BY <1>1, <1>2, <1>4, SumType, FS_Subset
  <2> QED BY <1>1, <1>2, <1>3, <1>4, <2>2, <2>3
<1>7. gpus' + SumFunctionOnSet(gg, S2) = TotalGpus
  <2>1. \A d \in Child : d # c => gg[d] = fg[d] /\ (d \in S2 <=> d \in S)
    BY <1>1, <1>2
  <2>2. SumFunctionOnSet(gg, S2) = SumFunctionOnSet(fg, S)
           - (IF c \in S THEN fg[c] ELSE 0) + (IF c \in S2 THEN gg[c] ELSE 0)
    BY <1>1, <1>2, <1>4, <2>1, SumChange
  <2>3. SumFunctionOnSet(fg, S) \in Int
    BY <1>1, <1>2, <1>4, SumType, FS_Subset
  <2> QED BY <1>1, <1>2, <1>3, <1>4, <2>2, <2>3
<1>8. /\ freeTokens \cup UNION {slice[d].tokens : d \in S} = tokens
      /\ \A d, e \in S : d # e => slice[d].tokens \cap slice[e].tokens = {}
      /\ \A d \in S : slice[d].tokens \cap freeTokens = {}
      /\ \A d \in S : asks[d].tokens = {} /\ tokens # {} =>
            Cardinality(slice[d].tokens) = asks[d].gpus
  BY DEF GrantInv, SlicesExclusive, FreeIsFree, S
\* No other child holds what c held or takes.
<1>9. \A d \in S : d # c => slice[d].tokens \cap (freeTokens \cup before) = {}
  BY <1>1, <1>8
<1>10. \A d \in S2 : d # c => d \in S /\ slice'[d] = slice[d] /\ asks'[d] = asks[d]
  BY <1>1
<1>11. freeTokens' \cup UNION {slice'[d].tokens : d \in S2} = tokens
  <2>1. ASSUME NEW t PROVE t \in tokens <=> \/ t \in freeTokens \/ \E d \in S : t \in slice[d].tokens
    BY <1>8
  <2>2. ASSUME NEW t, t \in tokens
        PROVE  t \in freeTokens' \/ \E d \in S2 : t \in slice'[d].tokens
    <3>1. CASE t \in freeTokens \cup before
      BY <1>1, <3>1
    <3>2. CASE t \notin freeTokens \cup before
      <4>1. PICK d \in S : t \in slice[d].tokens
        BY <2>1, <2>2, <3>2
      <4>2. d # c
        BY <1>1, <3>2, <4>1
      <4> QED BY <1>1, <4>1, <4>2
    <3> QED BY <3>1, <3>2
  <2>3. ASSUME NEW t, t \in freeTokens' \/ \E d \in S2 : t \in slice'[d].tokens
        PROVE  t \in tokens
    <3>1. CASE t \in freeTokens \cup before
      BY <1>1, <2>1, <3>1
    <3>2. CASE t \notin freeTokens \cup before
      <4>1. PICK d \in S2 : t \in slice'[d].tokens
        BY <2>3, <3>2
      <4>2. d # c
        BY <1>1, <3>2, <4>1
      <4> QED BY <1>10, <2>1, <4>1, <4>2
    <3> QED BY <3>1, <3>2
  <2> QED BY <2>2, <2>3
<1>12. \A d \in S2 : slice'[d].tokens \cap freeTokens' = {}
  BY <1>1, <1>9, <1>10
<1>13. \A d, e \in S2 : d # e => slice'[d].tokens \cap slice'[e].tokens = {}
  <2>1. ASSUME NEW d \in S2, d # c, c \in S2
        PROVE  slice'[d].tokens \cap slice'[c].tokens = {}
    BY <1>1, <1>9, <1>10, <2>1
  <2>2. ASSUME NEW d \in S2, NEW e \in S2, d # e, d # c, e # c
        PROVE  slice'[d].tokens \cap slice'[e].tokens = {}
    BY <1>8, <1>10, <2>2
  <2> QED BY <2>1, <2>2
<1>14. \A d \in S2 : asks'[d].tokens = {} /\ tokens # {} =>
          Cardinality(slice'[d].tokens) = asks'[d].gpus
  BY <1>1, <1>8, <1>10
<1>15. SlicesExclusive' /\ FreeIsFree'
  BY <1>5, <1>6, <1>7, <1>11, <1>12, <1>13, <1>14 DEF SlicesExclusive, FreeIsFree, S2
<1> QED BY <1>15 DEF GrantInv

\* acquire is called.
LEMMA AskStep ==
    ASSUME GrantInv, NEW c \in Child, NEW ask \in Asks, Ask(c, ask)
    PROVE  GrantInv'
<1>1. /\ tokens' = tokens /\ units' = units /\ gpus' = gpus /\ freeTokens' = freeTokens
      /\ slice[c].at = "new"
      /\ asks' = IF StaticallyValid(ask) THEN [asks EXCEPT ![c] = ask] ELSE asks
      /\ slice' = [slice EXCEPT ![c].at = IF StaticallyValid(ask) THEN "waiting" ELSE "raised"]
  BY DEF Ask
<1>2. GrantTypes
  BY DEF GrantInv
<1>3. ask \in [units : Nat, gpus : Nat, tokens : SUBSET tokens]
  <2>1. PICK u \in 1..(TotalUnits + 1), g \in 0..TotalGpus, T \in SUBSET tokens :
           ask = RequestedSlice(u, g, T)
    BY DEF Asks
  <2>2. Cardinality(T) \in Nat
    BY <1>2, TokensFinite, FS_Subset, FS_CardinalityType DEF GrantTypes
  <2>3. u \in Nat /\ g \in Nat
    BY GrantPoolAssumption
  <2> QED BY <2>1, <2>2, <2>3 DEF RequestedSlice
<1>4. /\ asks' \in [Child -> [units : Nat, gpus : Nat, tokens : SUBSET tokens]]
      /\ \A d \in Child : d # c => asks'[d] = asks[d]
  BY <1>1, <1>2, <1>3 DEF GrantTypes
<1>5. /\ slice' \in [Child -> [at : {"new", "waiting", "raised", "granted", "done"},
                               tokens : SUBSET tokens]]
      /\ slice'[c].at \in {"waiting", "raised"}
      /\ \A d \in Child : d # c => slice'[d] = slice[d]
  BY <1>1, <1>2 DEF GrantTypes
<1>6. GrantTypes'
  BY <1>1, <1>2, <1>4, <1>5 DEF GrantTypes
<1>7. units' = units + 0 - 0 /\ gpus' = gpus + 0 - 0
  BY <1>1, <1>2 DEF GrantTypes
<1>8. SliceMoves(c, FALSE, FALSE, {}, {})
  BY <1>1, <1>4, <1>5, <1>7 DEF SliceMoves
<1> QED BY <1>6, <1>8, SliceStep

\* A waiter gives up.
LEMMA GiveUpStep ==
    ASSUME GrantInv, NEW c \in Child, GiveUpWaiting(c)
    PROVE  GrantInv'
<1>1. /\ tokens' = tokens /\ units' = units /\ gpus' = gpus /\ freeTokens' = freeTokens
      /\ slice[c].at = "waiting"
      /\ asks' = [asks EXCEPT ![c] = NoAsk] /\ slice' = [slice EXCEPT ![c].at = "raised"]
  BY DEF GiveUpWaiting, AtStep
<1>2. GrantTypes
  BY DEF GrantInv
<1>3. /\ asks' \in [Child -> [units : Nat, gpus : Nat, tokens : SUBSET tokens]]
      /\ \A d \in Child : d # c => asks'[d] = asks[d]
  BY <1>1, <1>2 DEF GrantTypes, NoAsk
<1>4. /\ slice' \in [Child -> [at : {"new", "waiting", "raised", "granted", "done"},
                               tokens : SUBSET tokens]]
      /\ slice'[c].at = "raised"
      /\ \A d \in Child : d # c => slice'[d] = slice[d]
  BY <1>1, <1>2 DEF GrantTypes
<1>5. GrantTypes'
  BY <1>1, <1>2, <1>3, <1>4 DEF GrantTypes
<1>6. units' = units + 0 - 0 /\ gpus' = gpus + 0 - 0
  BY <1>1, <1>2 DEF GrantTypes
<1>7. SliceMoves(c, FALSE, FALSE, {}, {})
  BY <1>1, <1>3, <1>4, <1>6 DEF SliceMoves
<1> QED BY <1>5, <1>7, SliceStep

\* A slice is cut: the devices named, or as many of the first free ones as
\* GPUs were asked for.
LEMMA GrantStep ==
    ASSUME GrantInv, NEW c \in Child, Grant(c)
    PROVE  GrantInv'
<1>0. PICK ask, got : ask = asks[c] /\ got = Allocated(ask)
  OBVIOUS
<1>1. /\ tokens' = tokens /\ slice[c].at = "waiting" /\ CanAllocate(ask)
      /\ units' = units - ask.units /\ gpus' = gpus - ask.gpus
      /\ freeTokens' = freeTokens \ got /\ asks' = asks
      /\ slice' = [slice EXCEPT ![c] = [at |-> "granted", tokens |-> got]]
  BY <1>0 DEF Grant, AtStep
<1>2. GrantTypes /\ ask \in [units : Nat, gpus : Nat, tokens : SUBSET tokens]
  BY <1>0 DEF GrantInv, GrantTypes
<1>3. freeTokens \subseteq tokens /\ IsFiniteSet(freeTokens) /\ freeTokens \subseteq Int
  BY <1>2, TokensFinite, FS_Subset DEF GrantTypes
<1>4. got \subseteq freeTokens
  BY <1>0, <1>1 DEF Allocated, CanAllocate
<1>5. ask.tokens = {} /\ tokens # {} => Cardinality(got) = ask.gpus
  <2> SUFFICES ASSUME ask.tokens = {}, tokens # {} PROVE Cardinality(got) = ask.gpus
    OBVIOUS
  <2>1. got = FirstOf(freeTokens, ask.gpus)
    BY <1>0 DEF Allocated, FirstOf, LessIn
  <2>2. ask.gpus \in Nat /\ ask.gpus <= Cardinality(freeTokens)
    <3>1. Cardinality(freeTokens) \in Nat
      BY <1>3, FS_CardinalityType
    <3> QED BY <1>1, <1>2, <3>1 DEF CanAllocate
  <2> QED BY <1>3, <2>1, <2>2, FirstOfCount
<1>6. /\ slice' \in [Child -> [at : {"new", "waiting", "raised", "granted", "done"},
                               tokens : SUBSET tokens]]
      /\ slice'[c].at = "granted" /\ slice'[c].tokens = got
      /\ \A d \in Child : d # c => slice'[d] = slice[d]
  BY <1>1, <1>2, <1>3, <1>4 DEF GrantTypes
<1>7. GrantTypes'
  <2>1. units' \in Int /\ gpus' \in Int
    BY <1>1, <1>2 DEF GrantTypes
  <2> QED BY <1>1, <1>2, <1>6, <2>1 DEF GrantTypes
<1>8. units' = units + 0 - asks'[c].units /\ gpus' = gpus + 0 - asks'[c].gpus
  BY <1>0, <1>1, <1>2 DEF GrantTypes
<1>9. got \subseteq freeTokens \cup {} /\ freeTokens' = (freeTokens \cup {}) \ got
  BY <1>1, <1>4
<1>10. SliceMoves(c, FALSE, TRUE, {}, got)
  BY <1>0, <1>1, <1>5, <1>6, <1>8, <1>9 DEF SliceMoves
<1> QED BY <1>7, <1>10, SliceStep

\* A slice is returned.
LEMMA GiveBackStep ==
    ASSUME GrantInv, NEW c \in Child, GiveBack(c)
    PROVE  GrantInv'
<1>1. /\ tokens' = tokens /\ slice[c].at = "granted"
      /\ units' = units + asks[c].units /\ gpus' = gpus + asks[c].gpus
      /\ freeTokens' = freeTokens \cup slice[c].tokens
      /\ asks' = [asks EXCEPT ![c] = NoAsk]
      /\ slice' = [slice EXCEPT ![c] = [at |-> "done", tokens |-> {}]]
  BY DEF GiveBack, AtStep
<1>2. GrantTypes /\ asks[c] \in [units : Nat, gpus : Nat, tokens : SUBSET tokens]
      /\ slice[c].tokens \in SUBSET tokens
  BY DEF GrantInv, GrantTypes
<1>3. /\ asks' \in [Child -> [units : Nat, gpus : Nat, tokens : SUBSET tokens]]
      /\ \A d \in Child : d # c => asks'[d] = asks[d]
  BY <1>1, <1>2 DEF GrantTypes, NoAsk
<1>4. /\ slice' \in [Child -> [at : {"new", "waiting", "raised", "granted", "done"},
                               tokens : SUBSET tokens]]
      /\ slice'[c].at = "done"
      /\ \A d \in Child : d # c => slice'[d] = slice[d]
  BY <1>1, <1>2 DEF GrantTypes
<1>5. GrantTypes'
  <2>1. units' \in Int /\ gpus' \in Int /\ freeTokens' \in SUBSET tokens
    BY <1>1, <1>2 DEF GrantTypes
  <2> QED BY <1>1, <1>2, <1>3, <1>4, <2>1 DEF GrantTypes
<1>6. units' = units + asks[c].units - 0 /\ gpus' = gpus + asks[c].gpus - 0
  BY <1>1, <1>2 DEF GrantTypes
<1>7. /\ {} \subseteq freeTokens \cup slice[c].tokens
      /\ freeTokens' = (freeTokens \cup slice[c].tokens) \ {}
  BY <1>1
<1>8. SliceMoves(c, TRUE, FALSE, slice[c].tokens, {})
  BY <1>1, <1>3, <1>4, <1>6, <1>7 DEF SliceMoves
<1> QED BY <1>5, <1>8, SliceStep

\* The whole grant is free at the start.
LEMMA GrantInvInit == GrantPoolInit => GrantInv
<1> SUFFICES ASSUME GrantPoolInit PROVE GrantInv
  OBVIOUS
<1>1. GrantTypes
  BY GrantPoolAssumption DEF GrantPoolInit, GrantTypes, NoAsk, NoSlice
<1>2. AtStep("granted") = {}
  BY DEF GrantPoolInit, AtStep, NoSlice
<1>3. \A f : SumFunctionOnSet(f, {}) = 0
  BY SumEmpty
<1>4. SlicesExclusive
  <2> DEFINE fu == [c \in Child |-> asks[c].units]
             fg == [c \in Child |-> asks[c].gpus]
  <2>1. /\ units = TotalUnits /\ gpus = TotalGpus /\ freeTokens = tokens
        /\ TotalUnits \in Nat /\ TotalGpus \in Nat
    BY GrantPoolAssumption DEF GrantPoolInit
  <2>2. SumFunctionOnSet(fu, {}) = 0 /\ SumFunctionOnSet(fg, {}) = 0
    BY <1>3
  <2>3. UNION {slice[c].tokens : c \in {}} = {}
    OBVIOUS
  <2>4. freeTokens \cup UNION {slice[c].tokens : c \in AtStep("granted")} = tokens
    BY <1>2, <2>1, <2>3
  <2>5. /\ units + SumFunctionOnSet(fu, AtStep("granted")) = TotalUnits
        /\ gpus + SumFunctionOnSet(fg, AtStep("granted")) = TotalGpus
    <3> HIDE DEF fu, fg
    <3> QED BY <1>2, <2>1, <2>2
  <2>6. \A c \in AtStep("granted") : FALSE
    BY <1>2
  <2> QED BY <2>4, <2>5, <2>6 DEF SlicesExclusive
<1> QED BY <1>1, <1>2, <1>4 DEF GrantInv, FreeIsFree

\* Slices never overlap and add up to the parent's grant, for any number of
\* children, any grant and any mix of named and counted requests.
THEOREM SlicesExclusiveThm == GrantPoolSpec => []SlicesExclusive
<1>1. GrantInv /\ [GrantPoolNext]_grantVars => GrantInv'
  <2> SUFFICES ASSUME GrantInv, [GrantPoolNext]_grantVars PROVE GrantInv'
    OBVIOUS
  <2>1. CASE UNCHANGED grantVars
    BY <2>1 DEF grantVars, GrantInv, GrantTypes, SlicesExclusive, FreeIsFree, AtStep
  <2> QED BY <2>1, AskStep, GrantStep, GiveUpStep, GiveBackStep DEF GrantPoolNext
<1>2. GrantInv => SlicesExclusive
  BY DEF GrantInv
<1> QED BY <1>1, <1>2, GrantInvInit, PTL DEF GrantPoolSpec


-----------------------------------------------------------------------------
(* The parallel slot of a pipeline.                                        *)

SlotTypes ==
    /\ branch \in [Branch -> {"new", "queued", "running"} \cup Done]
    /\ slot \in {"submit", "collect", "cancel", "close", "returned"}
    /\ start \in Nat /\ pending \in SUBSET Branch /\ successes \in SUBSET Branch
    /\ \A f \in failures : f.index \in Branch

\* Where branch b stands: a branch that was submitted is either pending or
\* reported, a pending one is not cancelled, and only what is pending or
\* reported as still running runs.
BranchAccounted(b) ==
    /\ branch[b] # "new" => b \in pending \cup Reported
    /\ branch[b] = "new" => b \notin pending /\ (slot # "returned" => b \notin Reported)
    /\ b \in pending => branch[b] # "cancelled" /\ b \notin Reported
    /\ branch[b] = "queued" => b \in pending
    /\ branch[b] = "running" =>
          b \in pending \/ \E f \in failures : f.index = b /\ f.stillRunning
    /\ b \in successes => branch[b] = "ok" /\ \A f \in failures : f.index # b
    /\ slot = "submit" /\ start <= b => branch[b] = "new"
    /\ slot \in {"collect", "cancel"} /\ start + WorkerLimit <= b => branch[b] = "new"
    /\ slot = "returned" => b \in Reported

SlotInv ==
    /\ SlotTypes
    /\ \A b \in Branch : BranchAccounted(b)
    /\ \A f, g \in failures : f.index = g.index => f = g
    /\ slot \in {"submit", "close", "returned"} => pending = {}

\* The fields of a report of a failure.
LEMMA FailureFields ==
    ASSUME NEW b, NEW c, NEW r
    PROVE  BranchFailure(b, c, r).index = b /\ BranchFailure(b, c, r).stillRunning = r
BY DEF BranchFailure

\* Who is reported.
LEMMA ReportedIs ==
    \A b : b \in Reported <=> b \in successes \/ \E f \in failures : f.index = b
BY DEF Reported

\* Steps of the branches: one branch moves on, the collector does not.
LEMMA BranchStep ==
    ASSUME SlotInv, UNCHANGED collectVars, NEW b \in Branch,
           NEW to \in {"running"} \cup Done, branch' = [branch EXCEPT ![b] = to],
           \/ branch[b] = "queued" /\ to \in {"running", "failed"}
           \/ branch[b] = "running" /\ to \in {"ok", "failed"}
    PROVE  SlotInv'
<1>1. /\ UNCHANGED slot /\ UNCHANGED start /\ UNCHANGED pending /\ UNCHANGED successes
      /\ UNCHANGED failures
  BY DEF collectVars
<1>2. Reported' = Reported
  BY <1>1 DEF Reported
<1>3. SlotTypes'
  BY <1>1 DEF SlotInv, SlotTypes, Done
<1>4. /\ branch'[b] = to /\ to \notin {"new", "queued", "cancelled"}
      /\ \A a \in Branch : a # b => branch'[a] = branch[a]
  BY DEF SlotInv, SlotTypes, Done
<1>5. BranchAccounted(b)'
  BY <1>1, <1>2, <1>4 DEF SlotInv, BranchAccounted
<1>6. ASSUME NEW a \in Branch, a # b
      PROVE  BranchAccounted(a)'
  BY <1>1, <1>2, <1>4, <1>6 DEF SlotInv, BranchAccounted
<1>7. QED
  BY <1>1, <1>3, <1>5, <1>6 DEF SlotInv

\* The collector submits a batch.
LEMMA SubmitStep ==
    ASSUME SlotInv, SubmitBranch
    PROVE  SlotInv'
<1>1. PICK batch : batch = {b \in Branch : start <= b /\ b < start + WorkerLimit}
  OBVIOUS
<1>2. /\ slot = "submit" /\ slot' = "collect" /\ pending' = batch /\ pending = {}
      /\ branch' = [b \in Branch |-> IF b \in batch THEN "queued" ELSE branch[b]]
      /\ UNCHANGED start /\ UNCHANGED successes /\ UNCHANGED failures
  BY <1>1 DEF SubmitBranch, SlotInv
<1>3. Reported' = Reported
  BY <1>2 DEF Reported
<1>4. SlotTypes'
  BY <1>1, <1>2 DEF SlotInv, SlotTypes
<1>5. ASSUME NEW b \in Branch
      PROVE  BranchAccounted(b)'
  <2>1. BranchAccounted(b) /\ start \in Nat /\ b \in Int /\ WorkerLimit \in Nat \ {0}
    BY SlotAssumption DEF SlotInv, SlotTypes, Branch
  <2>2. CASE b \in batch
    <3>1. branch[b] = "new" /\ b \notin Reported
      BY <1>1, <1>2, <2>1, <2>2 DEF BranchAccounted
    <3>2. ~(start + WorkerLimit <= b)
      BY <1>1, <2>1, <2>2
    <3>3. QED
      BY <1>2, <1>3, <2>2, <3>1, <3>2, ReportedIs DEF BranchAccounted
  <2>3. CASE b \notin batch
    <3>1. start + WorkerLimit <= b => branch[b] = "new"
      BY <1>2, <2>1 DEF BranchAccounted
    <3>2. QED
      BY <1>2, <1>3, <2>1, <2>3, <3>1 DEF BranchAccounted
  <2>4. QED
    BY <2>2, <2>3
<1>6. QED
  BY <1>2, <1>4, <1>5 DEF SlotInv

\* A cancellation or the deadline stops the collection.
LEMMA StopStep ==
    ASSUME SlotInv, CollectStops
    PROVE  SlotInv'
<1>1. /\ slot = "collect" /\ slot' = "cancel"
      /\ UNCHANGED branch /\ UNCHANGED start /\ UNCHANGED pending /\ UNCHANGED successes
      /\ UNCHANGED failures
  BY DEF CollectStops, CancelBatch
<1>2. Reported' = Reported
  BY <1>1 DEF Reported
<1>3. SlotTypes'
  BY <1>1 DEF SlotInv, SlotTypes
<1>4. \A b \in Branch : BranchAccounted(b)'
  BY <1>1, <1>2 DEF SlotInv, BranchAccounted
<1>5. QED
  BY <1>1, <1>3, <1>4 DEF SlotInv

\* The collector takes what is done.
LEMMA DoneStep ==
    ASSUME SlotInv, CollectDone
    PROVE  SlotInv'
<1>1. PICK done : done = {b \in pending : branch[b] \in Done}
  OBVIOUS
<1>2. PICK failed : failed = {b \in done : branch[b] = "failed"}
  OBVIOUS
<1>3. PICK news : news = {BranchFailure(b, FALSE, FALSE) : b \in failed}
  OBVIOUS
<1>4. /\ slot = "collect" /\ slot' \in {"collect", "cancel"} /\ pending' = pending \ done
      /\ successes' = successes \cup (done \ failed) /\ failures' = failures \cup news
      /\ UNCHANGED branch /\ UNCHANGED start
  BY <1>1, <1>2, <1>3 DEF CollectDone, CancelBatch
<1>5. /\ SlotTypes /\ done \subseteq pending /\ failed \subseteq done /\ pending \subseteq Branch
  BY <1>1, <1>2 DEF SlotInv, SlotTypes
<1>6. /\ \A f \in news : f.index \in failed
      /\ \A b \in failed : \E f \in news : f.index = b
      /\ \A f, g \in news : f.index = g.index => f = g
  <2>0. PICK q : q = [b \in failed |-> BranchFailure(b, FALSE, FALSE)]
    OBVIOUS
  <2>1. \A b \in failed : q[b].index = b
    BY <2>0 DEF BranchFailure
  <2>2. news = {q[b] : b \in failed}
    BY <2>0, <1>3
  <2>3. QED
    BY <2>1, <2>2
<1>7. SlotTypes'
  BY <1>4, <1>5, <1>6 DEF SlotTypes
<1>8. \A f, g \in failures' : f.index = g.index => f = g
  <2>1. \A f \in failures, g \in news : f.index # g.index
    <3>1. SUFFICES ASSUME NEW f \in failures, NEW g \in news, f.index = g.index PROVE FALSE
      OBVIOUS
    <3>2. g.index \in pending /\ g.index \in Branch /\ g.index \in Reported
      BY <1>5, <1>6, <3>1, ReportedIs
    <3>3. QED
      BY <3>2 DEF SlotInv, BranchAccounted
  <2>2. \A f, g \in failures : f.index = g.index => f = g
    BY DEF SlotInv
  <2>3. QED
    BY <1>4, <1>6, <2>1, <2>2
<1>9. \A b : b \in Reported' <=> b \in Reported \/ b \in done
  BY <1>4, <1>5, <1>6 DEF Reported
<1>10. ASSUME NEW b \in Branch
       PROVE  BranchAccounted(b)'
  <2>1. BranchAccounted(b)
    BY DEF SlotInv
  <2>2. CASE b \in done
    <3>1. /\ b \in pending /\ branch[b] \in {"ok", "failed"} /\ b \notin pending'
          /\ b \in Reported' /\ b \notin Reported
      BY <1>1, <1>4, <1>5, <1>9, <2>1, <2>2 DEF BranchAccounted, Done
    <3>2. b \in successes' => branch[b] = "ok" /\ \A f \in failures' : f.index # b
      <4>1. SUFFICES ASSUME b \in successes' 
                     PROVE  branch[b] = "ok" /\ \A f \in failures' : f.index # b
        OBVIOUS
      <4>2. b \notin successes /\ \A f \in failures : f.index # b
        BY <3>1, ReportedIs
      <4>3. b \in done \ failed
        BY <1>4, <4>1, <4>2
      <4>4. QED
        BY <1>2, <1>4, <1>6, <3>1, <4>2, <4>3
    <3>3. QED
      BY <1>4, <2>1, <2>2, <3>1, <3>2 DEF BranchAccounted
  <2>3. CASE b \notin done
    <3>1. /\ b \in pending' <=> b \in pending
          /\ b \in Reported' <=> b \in Reported
          /\ b \in successes' <=> b \in successes
          /\ \A f \in news : f.index # b
      BY <1>4, <1>5, <1>6, <1>9, <2>3
    <3>2. QED
      BY <1>4, <2>1, <3>1 DEF BranchAccounted
  <2>4. QED
    BY <2>2, <2>3
<1>11. QED
  BY <1>4, <1>7, <1>8, <1>10 DEF SlotInv

\* One turn of the loop that cancels what is pending.
LEMMA CancelStep ==
    ASSUME SlotInv, NEW b \in Branch, CancelOne(b)
    PROVE  SlotInv'
<1>1. PICK f : f = BranchFailure(b, branch[b] = "queued", branch[b] = "running")
  OBVIOUS
<1>2. f.index = b /\ (branch[b] = "running" => f.stillRunning)
  <2>1. f.index = b /\ f.stillRunning = (branch[b] = "running")
    BY <1>1, Zenon DEF BranchFailure
  <2>2. QED
    BY <2>1
<1>3. PICK to : to = IF branch[b] = "queued" THEN "cancelled" ELSE branch[b]
  OBVIOUS
<1>4. /\ slot = "cancel" /\ slot' = "cancel" /\ b \in pending /\ pending' = pending \ {b}
      /\ failures' = failures \cup {f} /\ UNCHANGED successes /\ UNCHANGED start
      /\ branch' = [branch EXCEPT ![b] = to]
  BY <1>1, <1>3 DEF CancelOne
<1>5. SlotTypes /\ BranchAccounted(b) /\ b \notin Reported /\ branch[b] # "new"
  BY <1>4 DEF SlotInv, BranchAccounted
<1>6. SlotTypes'
  BY <1>2, <1>3, <1>4, <1>5 DEF SlotTypes, Done
<1>7. /\ branch'[b] = to /\ \A a \in Branch : a # b => branch'[a] = branch[a]
  BY <1>4, <1>5 DEF SlotTypes
<1>8. \A a : a \in Reported' <=> a \in Reported \/ a = b
  BY <1>2, <1>4 DEF Reported
<1>9. \A h, g \in failures' : h.index = g.index => h = g
  <2>1. \A g \in failures : g.index # b
    BY <1>5, ReportedIs
  <2>2. \A h, g \in failures : h.index = g.index => h = g
    BY DEF SlotInv
  <2>3. QED
    BY <1>2, <1>4, <2>1, <2>2
<1>10. BranchAccounted(b)'
  <2>1. to \notin {"new", "queued"} /\ (to = "running" => f.stillRunning)
    BY <1>2, <1>3, <1>5
  <2>2. b \notin successes /\ ~(start + WorkerLimit <= b)
    BY <1>4, <1>5, ReportedIs DEF BranchAccounted
  <2>3. QED
    BY <1>2, <1>4, <1>7, <1>8, <2>1, <2>2 DEF BranchAccounted
<1>11. ASSUME NEW a \in Branch, a # b
       PROVE  BranchAccounted(a)'
  <2>1. BranchAccounted(a)
    BY DEF SlotInv
  <2>2. QED
    BY <1>2, <1>4, <1>7, <1>8, <1>11, <2>1 DEF BranchAccounted
<1>12. QED
  BY <1>4, <1>6, <1>9, <1>10, <1>11 DEF SlotInv

\* The next batch begins, or the slot is about to close.
LEMMA NextBatchStep ==
    ASSUME SlotInv, NextBatch
    PROVE  SlotInv'
<1>1. /\ slot \in {"collect", "cancel"} /\ pending = {} /\ start' = start + WorkerLimit
      /\ slot' \in {"close", "submit"}
      /\ UNCHANGED branch /\ UNCHANGED pending /\ UNCHANGED successes /\ UNCHANGED failures
  BY DEF NextBatch
<1>2. Reported' = Reported
  BY <1>1 DEF Reported
<1>3. SlotTypes'
  BY <1>1, SlotAssumption DEF SlotInv, SlotTypes
<1>4. \A b \in Branch : BranchAccounted(b)'
  BY <1>1, <1>2 DEF SlotInv, BranchAccounted
<1>5. QED
  BY <1>1, <1>3, <1>4 DEF SlotInv

\* The slot closes: what was never submitted is reported as cancelled.
LEMMA CloseStep ==
    ASSUME SlotInv, CloseSlot
    PROVE  SlotInv'
<1>1. PICK news : news = {BranchFailure(b, TRUE, FALSE) : b \in Branch \ Reported}
  OBVIOUS
<1>2. /\ slot = "close" /\ slot' = "returned" /\ pending = {} /\ failures' = failures \cup news
      /\ UNCHANGED branch /\ UNCHANGED start /\ UNCHANGED pending /\ UNCHANGED successes
  BY <1>1 DEF CloseSlot, SlotInv
<1>3. /\ \A f \in news : f.index \in Branch \ Reported
      /\ \A b \in Branch \ Reported : \E f \in news : f.index = b
      /\ \A f, g \in news : f.index = g.index => f = g
  <2>0. PICK q : q = [b \in Branch \ Reported |-> BranchFailure(b, TRUE, FALSE)]
    OBVIOUS
  <2>1. \A b \in Branch \ Reported : q[b].index = b
    BY <2>0 DEF BranchFailure
  <2>2. news = {q[b] : b \in Branch \ Reported}
    BY <2>0, <1>1
  <2>3. QED
    BY <2>1, <2>2
<1>4. SlotTypes'
  BY <1>2, <1>3 DEF SlotInv, SlotTypes
<1>5. \A b \in Branch : b \in Reported'
  BY <1>2, <1>3 DEF Reported
<1>6. \A f, g \in failures' : f.index = g.index => f = g
  <2>1. \A f, g \in failures : f.index = g.index => f = g
    BY DEF SlotInv
  <2>2. \A f \in failures, g \in news : f.index # g.index
    BY <1>3, ReportedIs
  <2>3. QED
    BY <1>2, <1>3, <2>1, <2>2
<1>7. ASSUME NEW b \in Branch
      PROVE  BranchAccounted(b)'
  <2>1. BranchAccounted(b)
    BY DEF SlotInv
  <2>2. b \in successes => \A f \in news : f.index # b
    BY <1>3, ReportedIs
  <2>3. QED
    BY <1>2, <1>5, <2>1, <2>2 DEF BranchAccounted
<1>8. QED
  BY <1>2, <1>4, <1>6, <1>7 DEF SlotInv

\* Every step of the slot keeps the invariant.
LEMMA SlotInvKept ==
    ASSUME SlotInv, [SlotNext]_slotVars
    PROVE  SlotInv'
<1>1. CASE UNCHANGED <<branch, slot, start, pending, successes, failures>>
  BY <1>1 DEF SlotInv, SlotTypes, BranchAccounted, Reported
<1>2. ASSUME NEW b \in Branch, StartBranch(b)
      PROVE  SlotInv'
  <2>1. PICK to : to = IF IsSet THEN "failed" ELSE "running"
    OBVIOUS
  <2>2. /\ branch' = [branch EXCEPT ![b] = to] /\ branch[b] = "queued" /\ UNCHANGED collectVars
        /\ to \in {"running", "failed"}
    BY <1>2, <2>1 DEF StartBranch
  <2>3. QED
    BY <2>2, BranchStep DEF Done
<1>3. ASSUME NEW b \in Branch, NEW how \in {"ok", "failed"}, BranchEnds(b, how)
      PROVE  SlotInv'
  BY <1>3, BranchStep DEF BranchEnds, Done
<1>4. ASSUME NEW b \in Branch, BranchStores(b) \/ BranchCancels(b)
      PROVE  SlotInv'
  BY <1>1, <1>4 DEF BranchStores, BranchCancels, collectVars
<1>5. ASSUME NEW b \in Branch, NEW method \in StoreMethods, BranchWrites(b, method)
      PROVE  SlotInv'
  BY <1>1, <1>5 DEF BranchWrites, collectVars
<1>6. CASE ParentCancels \/ DeadlinePasses
  BY <1>1, <1>6 DEF ParentCancels, DeadlinePasses, collectVars
<1>7. CASE CollectorStep
  BY <1>7, SubmitStep, StopStep, DoneStep, CancelStep, NextBatchStep, CloseStep
     DEF CollectorStep
<1>8. CASE UNCHANGED slotVars
  BY <1>1, <1>8 DEF slotVars
<1>9. QED
  BY <1>2, <1>3, <1>4, <1>5, <1>6, <1>7, <1>8 DEF SlotNext

\* The report of a slot that returned counts every branch once.
LEMMA ReportCounts ==
    ASSUME SlotInv, slot = "returned"
    PROVE  Reported = Branch /\ Cardinality(failures) + Cardinality(successes) = NumBranches
<1>1. /\ NumBranches \in Nat /\ Branch = 1..NumBranches /\ IsFiniteSet(Branch)
      /\ Cardinality(Branch) = NumBranches
  BY SlotAssumption, FS_Interval DEF Branch
<1>2. PICK I : I = {f.index : f \in failures}
  OBVIOUS
<1>3. Reported = Branch /\ Reported = successes \cup I
  <2>1. \A b \in Branch : b \in Reported
    BY DEF SlotInv, BranchAccounted
  <2>2. Reported \subseteq Branch
    BY DEF SlotInv, SlotTypes, Reported
  <2>3. QED
    BY <1>2, <2>1, <2>2 DEF Reported
<1>4. IsFiniteSet(successes) /\ IsFiniteSet(I) /\ successes \cap I = {}
  <2>1. successes \subseteq Branch /\ I \subseteq Branch
    BY <1>3
  <2>2. \A b \in successes : b \notin I
    BY <1>2, <2>1 DEF SlotInv, BranchAccounted
  <2>3. QED
    BY <1>1, <2>1, <2>2, FS_Subset
<1>5. IsFiniteSet(failures) /\ Cardinality(failures) = Cardinality(I)
  <2>1. PICK h : h = [i \in I |-> CHOOSE f \in failures : f.index = i]
    OBVIOUS
  <2>2. \A i \in I : h[i] \in failures /\ h[i].index = i
    BY <1>2, <2>1
  <2>3. \A f \in failures : h[f.index] = f /\ f.index \in I
    BY <1>2, <2>2 DEF SlotInv
  <2>4. h \in Bijection(I, failures)
    <3>1. h \in [I -> failures]
      BY <2>1, <2>2
    <3>2. \A i, j \in I : h[i] = h[j] => i = j
      BY <2>2
    <3>3. \A f \in failures : \E i \in I : h[i] = f
      BY <2>3
    <3>4. QED
      BY <3>1, <3>2, <3>3 DEF Bijection, Injection, Surjection, IsInjective
  <2>5. ExistsBijection(I, failures)
    BY <2>4 DEF ExistsBijection
  <2>6. QED
    BY <1>4, <2>5, FS_Bijection
<1>6. Cardinality(successes \cup I) = Cardinality(successes) + Cardinality(I)
  <2>1. Cardinality(successes \cap I) = 0
    BY <1>4, FS_EmptySet
  <2>2. Cardinality(successes) \in Nat /\ Cardinality(I) \in Nat
    BY <1>4, FS_CardinalityType
  <2>3. Cardinality(successes \cup I)
           = Cardinality(successes) + Cardinality(I) - Cardinality(successes \cap I)
    BY <1>4, FS_Union
  <2>4. QED
    BY <2>1, <2>2, <2>3
<1>7. Cardinality(successes) \in Nat /\ Cardinality(I) \in Nat
  BY <1>4, FS_CardinalityType
<1>8. Cardinality(failures) + Cardinality(successes) = Cardinality(successes \cup I)
  BY <1>5, <1>6, <1>7
<1>9. successes \cup I = Branch
  BY <1>3
<1>10. Cardinality(failures) + Cardinality(successes) = NumBranches
  <2>1. Cardinality(successes \cup I) = Cardinality(Branch)
    BY <1>9
  <2>2. Cardinality(Branch) = NumBranches
    BY <1>1
  <2>3. QED
    BY ONLY <1>8, <2>1, <2>2
<1>11. QED
  BY <1>3, <1>10

\* The report of a parallel slot is true and stays true, for any number of
\* branches, batch size and number of threads, however the deadline, a
\* cancellation and the ends of the branches race with the collection.
THEOREM ReportIsTrueThm == SlotSpec => []ReportIsTrue
<1>1. SlotInit => SlotInv
  BY DEF SlotInit, SlotInv, SlotTypes, BranchAccounted, Reported
<1>2. SlotInv /\ [SlotNext]_slotVars => SlotInv'
  BY SlotInvKept
<1>3. SlotInv => ReportIsTrue
  <2>1. SUFFICES ASSUME SlotInv, slot = "returned"
                 PROVE  /\ Reported = Branch
                        /\ Cardinality(failures) + Cardinality(successes) = NumBranches
                        /\ \A b \in Branch : branch[b] # "queued"
                        /\ \A b \in Running : \E f \in failures : f.index = b /\ f.stillRunning
                        /\ \A b \in successes : branch[b] = "ok"
    BY DEF ReportIsTrue
  <2>2. Reported = Branch /\ Cardinality(failures) + Cardinality(successes) = NumBranches
    BY <2>1, ReportCounts
  <2>3. pending = {} /\ \A b \in Branch : BranchAccounted(b)
    BY <2>1 DEF SlotInv
  <2>4. \A b \in Branch : branch[b] # "queued"
    BY <2>3 DEF BranchAccounted
  <2>5. \A b \in Running : \E f \in failures : f.index = b /\ f.stillRunning
    BY <2>3 DEF BranchAccounted, Running
  <2>6. \A b \in successes : branch[b] = "ok"
    BY <2>1, <2>3 DEF BranchAccounted, SlotInv, SlotTypes
  <2>7. QED
    BY <2>2, <2>4, <2>5, <2>6
<1>4. QED
  BY <1>1, <1>2, <1>3, PTL DEF SlotSpec

-----------------------------------------------------------------------------
(* The stages of a Case.                                                   *)

Joined == inflight = {} /\ \A c \in 1..MaxCalls : future[c] \notin Unfinished

\* Calls are under way only in a serial stage, one at a time and in the
\* thread of the runner, and between the opening and the end of a parallel one.
StageInv ==
    /\ future \in [1..MaxCalls -> Unfinished \cup {"none", "done", "notified", "dropped"}]
    /\ stageStep \notin {"serial", "collecting", "joining"} => Joined
    /\ stageStep = "serial" =>
          /\ inflight = {}
          /\ \A c \in 1..MaxCalls :
                future[c] \in Unfinished => c = callAt /\ future[c] = "running"

\* Steps of the runner that are not about the futures of a parallel stage.
LEMMA RunnerSteps ==
    ASSUME StageInv, \/ BeginStage \/ EndRun \/ SerialInvoke \/ SerialReturns \/ OpenStage
                     \/ \E retired \in BOOLEAN : CleanUp(retired)
    PROVE  StageInv'
<1>1. CASE BeginStage
  BY <1>1 DEF BeginStage, StageInv, Joined, Unfinished
<1>2. CASE EndRun
  BY <1>2 DEF EndRun, batchVars, StageInv, Joined
<1>3. CASE SerialInvoke
  <2>1. /\ stageStep = "serial" /\ future[callAt] = "none" /\ UNCHANGED callAt
        /\ UNCHANGED inflight /\ inflight = {}
    BY <1>3 DEF SerialInvoke, StageInv
  <2>2. \A c \in 1..MaxCalls : future[c] \notin Unfinished
    BY <2>1 DEF StageInv, Unfinished
  <2>3. CASE stageStep' = "raised" /\ UNCHANGED future
    BY <2>1, <2>2, <2>3 DEF StageInv, Joined
  <2>4. CASE future' = [future EXCEPT ![callAt] = "running"] /\ UNCHANGED stageStep
    BY <2>1, <2>2, <2>4 DEF StageInv, Joined, Unfinished
  <2>5. QED
    BY <1>3, <2>3, <2>4 DEF SerialInvoke
<1>4. CASE SerialReturns
  <2>1. /\ stageStep = "serial" /\ future[callAt] = "done"
        /\ UNCHANGED future /\ UNCHANGED inflight /\ inflight = {}
    BY <1>4 DEF SerialReturns, StageInv
  <2>2. \A c \in 1..MaxCalls : future[c] \notin Unfinished
    BY <2>1 DEF StageInv, Unfinished
  <2>3. QED
    BY <2>1, <2>2 DEF StageInv, Joined
<1>5. CASE OpenStage
  <2>1. stageStep = "opening" /\ Joined
    BY <1>5 DEF OpenStage, StageInv
  <2>2. CASE stageStep' = "cleanup" /\ UNCHANGED <<beat, future, inflight, uncollected>>
    BY <2>1, <2>2 DEF StageInv, Joined
  <2>3. CASE stageStep' = "collecting"
    <3>1. PICK L, C : future' = [c \in 1..MaxCalls |-> CASE c \in L -> "launched"
                                   [] c \in C \ L -> "queued"
                                   [] OTHER -> "none"]
      BY <1>5, <2>3 DEF OpenStage
    <3>2. QED
      BY <2>3, <3>1 DEF StageInv, Unfinished
  <2>4. QED
    BY <1>5, <2>2, <2>3 DEF OpenStage
<1>6. ASSUME NEW retired \in BOOLEAN, CleanUp(retired)
      PROVE  StageInv'
  <2>1. /\ stageStep = "cleanup" /\ Joined /\ UNCHANGED future /\ UNCHANGED inflight
        /\ stageStep' \in {"raised", "over", "between"}
    BY <1>6 DEF CleanUp, StageInv, Record
  <2>2. QED
    BY <2>1 DEF StageInv, Joined
<1>7. QED
  BY <1>1, <1>2, <1>3, <1>4, <1>5, <1>6

\* The collection of a parallel stage.
LEMMA CollectSteps ==
    ASSUME StageInv, \/ CollectRaises \/ LeaveView \/ JoinStage \/ MergeCall
                     \/ \E order : CollectCalls(order)
                     \/ \E c \in 1..MaxCalls : CancelSibling(c)
    PROVE  StageInv'
<1>1. CASE CollectRaises \/ LeaveView
  BY <1>1 DEF CollectRaises, LeaveView, batchVars, StageInv
<1>2. CASE JoinStage \/ MergeCall
  <2>1. Joined /\ UNCHANGED future /\ UNCHANGED inflight
        /\ stageStep' \in {"merging", "cleanup"}
    BY <1>2 DEF JoinStage, MergeCall, batchVars, StageInv, Joined
  <2>2. QED
    BY <2>1 DEF StageInv, Joined
<1>3. CASE \E order : CollectCalls(order)
  BY <1>3 DEF CollectCalls, StageInv
<1>4. ASSUME NEW c \in 1..MaxCalls, CancelSibling(c)
      PROVE  StageInv'
  <2>1. stageStep = "collecting" /\ stageStep' = "collecting"
    BY <1>4 DEF CancelSibling
  <2>2. PICK to \in Unfinished \cup {"none", "done", "notified", "dropped"} :
           future' = [future EXCEPT ![c] = to]
    <3>1. future[c] \in Unfinished \cup {"none", "done", "notified", "dropped"}
      BY DEF StageInv
    <3>2. future' = [future EXCEPT ![c] = CASE future[c] = "queued" -> "dropped"
                                            [] future[c] = "launched" -> "condemned"
                                            [] OTHER -> future[c]]
      BY <1>4 DEF CancelSibling, StageInv
    <3>3. (CASE future[c] = "queued" -> "dropped" [] future[c] = "launched" -> "condemned"
             [] OTHER -> future[c]) \in Unfinished \cup {"none", "done", "notified", "dropped"}
      BY <3>1 DEF Unfinished
    <3>4. QED
      BY <3>2, <3>3
  <2>3. QED
    BY <2>1, <2>2 DEF StageInv
<1>5. QED
  BY <1>1, <1>2, <1>3, <1>4

\* The children and the threads they run on.
LEMMA CallSteps ==
    ASSUME StageInv, NEW c \in 1..MaxCalls, CallThread(c)
    PROVE  StageInv'
<1>1. CASE StartCall(c)
  <2>1. /\ stageStep \in {"collecting", "joining"} /\ UNCHANGED stageStep
        /\ \E to \in {"running", "notified"} : future' = [future EXCEPT ![c] = to]
    BY <1>1 DEF StartCall, StageInv, Joined, Unfinished
  <2>2. QED
    BY <2>1 DEF StageInv, Unfinished
<1>2. CASE ThreadDone(c)
  <2>1. stageStep \in {"collecting", "joining"} /\ UNCHANGED stageStep
    BY <1>2 DEF ThreadDone, StageInv, Joined
  <2>2. PICK next : future' = [d \in 1..MaxCalls |->
                                  IF d \in next THEN "launched" ELSE future[d]]
    BY <1>2 DEF ThreadDone
  <2>3. QED
    BY <2>1, <2>2 DEF StageInv, Unfinished
<1>3. ASSUME NEW status, CallEnds(c, status)
      PROVE  StageInv'
  <2>1. /\ future' = [future EXCEPT ![c] = "done"] /\ UNCHANGED stageStep
        /\ UNCHANGED callAt /\ UNCHANGED inflight
    BY <1>3 DEF CallEnds
  <2>2. QED
    BY <2>1 DEF StageInv, Joined, Unfinished
<1>4. QED
  BY <1>1, <1>2, <1>3 DEF CallThread

\* The invariant, over every step.
LEMMA StageInvKept ==
    ASSUME StageInv, [StageNext]_stageVars
    PROVE  StageInv'
<1>1. CASE RunnerThread
  BY <1>1, RunnerSteps, CollectSteps DEF RunnerThread
<1>2. CASE \E c \in 1..MaxCalls : CallThread(c)
  BY <1>2, CallSteps
<1>3. CASE UNCHANGED <<stageStep, callAt, future, inflight>>
  BY <1>3 DEF StageInv, Joined
<1>4. CASE CancelCase \/ BeatLost \/ GracePasses
  BY <1>3, <1>4 DEF CancelCase, BeatLost, GracePasses, batchVars
<1>5. CASE UNCHANGED stageVars
  BY <1>3, <1>5 DEF stageVars
<1>6. QED
  BY <1>1, <1>2, <1>4, <1>5 DEF StageNext

\* Structured concurrency, for any plan of stages: when a stage has returned
\* or raised, none of its children is queued or running any more, whichever of
\* failures, cancellations, a lost heartbeat and slow children came together.
THEOREM StageJoinsThm == StageSpec => []StageJoins
<1>1. StageInit => StageInv
  BY DEF StageInit, StageInv, Joined, Unfinished
<1>2. StageInv /\ [StageNext]_stageVars => StageInv'
  BY StageInvKept
<1>3. StageInv => StageJoins
  BY DEF StageInv, StageJoins, Joined
<1>4. QED
  BY <1>1, <1>2, <1>3, PTL DEF StageSpec
-----------------------------------------------------------------------------
(* The artifacts of the stages. Of the plan, of what the stages that       *)
(* returned recorded, and of what the present stage has merged so far, the *)
(* table holds the first publisher of each name.                           *)

CallAtPlace(plan, p) == plan[p[1]].calls[p[2]]

\* The names under which the calls at the places of M are known.
NamesOf(plan, M) ==
    UNION {{<<CallAtPlace(plan, p).name, CallAtPlace(plan, p).gives>>,
            <<"", CallAtPlace(plan, p).gives>>} : p \in M}

PublishersOf(plan, M, n) ==
    {p \in M : /\ CallAtPlace(plan, p).gives = n[2]
               /\ n[1] \in {"", CallAtPlace(plan, p).name}}

NotLater(p, q) == p[1] < q[1] \/ (p[1] = q[1] /\ p[2] <= q[2])

\* table stands each name for its first publisher in M.
TableOf(plan, M, table) ==
    /\ DOMAIN table = NamesOf(plan, M)
    /\ \A n \in NamesOf(plan, M) :
          /\ table[n] \in PublishersOf(plan, M, n)
          /\ \A p \in PublishersOf(plan, M, n) : NotLater(table[n], p)

\* The places of the stages that returned whose calls published something.
PastPlaces(plan, stages) ==
    {p \in (1..Len(stages)) \X (1..MaxCalls) :
        /\ p[2] <= Len(plan[p[1]].calls)
        /\ stages[p[1]][p[2]] = "ok" /\ CallAtPlace(plan, p).gives # ""}

\* Those of the first calls of one stage.
PlacesUpTo(plan, k, last, statuses) ==
    {<<k, c>> : c \in {d \in 1..MaxCalls : /\ d <= last /\ statuses[d] = "ok"
                                          /\ plan[k].calls[d].gives # ""}}

\* How many calls of the present stage have been merged.
LastMerged == CASE stageStep \in {"serial", "merging"} -> callAt - 1
                [] stageStep = "cleanup" -> Len(StageCalls)
                [] OTHER -> 0

MergedPlaces == PastPlaces(stagePlan, recorded)
                   \cup PlacesUpTo(stagePlan, stageAt, LastMerged, FutureResults)

\* A later publisher takes the names that nobody has yet.
Grown(plan, table, q) ==
    [n \in DOMAIN table \cup {<<CallAtPlace(plan, q).name, CallAtPlace(plan, q).gives>>,
                             <<"", CallAtPlace(plan, q).gives>>} |->
        IF n \in DOMAIN table THEN table[n] ELSE q]

CallStatus == {"none", "ok", "failed", "cancelled"}

InAStage == {"serial", "opening", "collecting", "joining", "merging", "cleanup"}

StageNumbers ==
    /\ stagePlan \in StagePlans /\ stageAt \in 0..Len(stagePlan)
    /\ recorded \in Seq([1..MaxCalls -> CallStatus])
    /\ outcome \in [1..MaxCalls -> CallStatus]
    /\ stageStep \in {"between", "over"} => Len(recorded) = stageAt
    /\ stageStep \in InAStage => stageAt >= 1 /\ Len(recorded) = stageAt - 1
    /\ stageStep \in {"serial", "merging"} => callAt \in 1..Len(StageCalls)
    /\ stageStep = "serial" => \A c \in 1..MaxCalls : /\ future[c] # "notified"
                                                      /\ c > callAt => outcome[c] = "none"

TableHolds == TableOf(stagePlan, MergedPlaces, artifacts)

\* A run that raises hands its table to nobody.
Raises == stageStep = "raised" \/ (stageStep = "cleanup" /\ failing)

TableInv == StageInv /\ StageNumbers /\ (Raises \/ TableHolds)

\* The names of a later publisher that are new are its own, the others stay.
LEMMA TableGrows ==
    ASSUME NEW plan, NEW M, NEW table, TableOf(plan, M, table), NEW q,
           \A p \in M : NotLater(p, q), NotLater(q, q)
    PROVE  TableOf(plan, M \cup {q}, Grown(plan, table, q))
<1>0. PICK full, bare, grown :
         /\ full = <<CallAtPlace(plan, q).name, CallAtPlace(plan, q).gives>>
         /\ bare = <<"", CallAtPlace(plan, q).gives>>
         /\ grown = Grown(plan, table, q)
  OBVIOUS
<1>1. /\ DOMAIN grown = DOMAIN table \cup {full, bare}
      /\ \A n \in DOMAIN table : grown[n] = table[n]
      /\ \A n \in {full, bare} \ DOMAIN table : grown[n] = q
  BY <1>0 DEF Grown
<1>2. NamesOf(plan, M \cup {q}) = NamesOf(plan, M) \cup {full, bare}
  <2>1. \A n : n \in NamesOf(plan, M \cup {q})
                 <=> \E p \in M \cup {q} : n \in {<<CallAtPlace(plan, p).name, CallAtPlace(plan, p).gives>>,
                                               <<"", CallAtPlace(plan, p).gives>>}
    BY Zenon DEF NamesOf
  <2>2. \A n : n \in NamesOf(plan, M)
                 <=> \E p \in M : n \in {<<CallAtPlace(plan, p).name, CallAtPlace(plan, p).gives>>,
                                         <<"", CallAtPlace(plan, p).gives>>}
    BY Zenon DEF NamesOf
  <2>3. QED
    BY <1>0, <2>1, <2>2
<1>3. \A n \in {full, bare} : q \in PublishersOf(plan, M \cup {q}, n)
  <2>1. full[1] = CallAtPlace(plan, q).name /\ full[2] = CallAtPlace(plan, q).gives
    BY <1>0
  <2>2. bare[1] = "" /\ bare[2] = CallAtPlace(plan, q).gives
    BY <1>0
  <2>3. QED
    BY <2>1, <2>2 DEF PublishersOf
<1>4. ASSUME NEW n, NEW p \in PublishersOf(plan, M, n), n \in {full, bare}
      PROVE  n \in NamesOf(plan, M)
  <2>1. p \in M /\ n[2] = CallAtPlace(plan, p).gives /\ n[1] \in {"", CallAtPlace(plan, p).name}
    BY <1>4 DEF PublishersOf
  <2>2. n = <<n[1], n[2]>>
    <3>1. full = <<full[1], full[2]>>
      BY <1>0
    <3>2. bare = <<bare[1], bare[2]>>
      BY <1>0
    <3>3. QED
      BY <1>4, <3>1, <3>2
  <2>3. n \in {<<CallAtPlace(plan, p).name, CallAtPlace(plan, p).gives>>,
               <<"", CallAtPlace(plan, p).gives>>}
    BY <2>1, <2>2
  <2>4. QED
    BY <2>1, <2>3 DEF NamesOf
<1>5. ASSUME NEW n \in NamesOf(plan, M \cup {q})
      PROVE  /\ grown[n] \in PublishersOf(plan, M \cup {q}, n)
             /\ \A p \in PublishersOf(plan, M \cup {q}, n) : NotLater(grown[n], p)
  <2>1. PublishersOf(plan, M \cup {q}, n) \subseteq PublishersOf(plan, M, n) \cup {q}
    BY DEF PublishersOf
  <2>2. PublishersOf(plan, M, n) \subseteq PublishersOf(plan, M \cup {q}, n) \cap M
    BY DEF PublishersOf
  <2>3. CASE n \in DOMAIN table
    <3>1. /\ grown[n] = table[n] /\ table[n] \in PublishersOf(plan, M, n)
          /\ \A p \in PublishersOf(plan, M, n) : NotLater(table[n], p)
      BY <1>1, <2>3 DEF TableOf
    <3>2. NotLater(grown[n], q)
      BY <3>1, <2>2
    <3>3. QED
      BY <2>1, <2>2, <3>1, <3>2
  <2>4. CASE n \notin DOMAIN table
    <3>1. n \in {full, bare} /\ n \notin NamesOf(plan, M)
      BY <1>2, <2>4 DEF TableOf
    <3>2. grown[n] = q /\ PublishersOf(plan, M, n) = {}
      BY <1>1, <1>4, <2>4, <3>1
    <3>3. QED
      BY <1>3, <2>1, <3>1, <3>2
  <2>5. QED
    BY <2>3, <2>4
<1>6. DOMAIN grown = NamesOf(plan, M \cup {q})
  BY <1>1, <1>2 DEF TableOf
<1>7. QED
  BY <1>0, <1>5, <1>6 DEF TableOf

\* A stage that returns adds the places of its calls to the past.
LEMMA PastGrows ==
    ASSUME NEW plan, NEW stages \in Seq([1..MaxCalls -> CallStatus]),
           NEW statuses \in [1..MaxCalls -> CallStatus], NEW k, k = Len(stages) + 1
    PROVE  PastPlaces(plan, Append(stages, statuses))
              = PastPlaces(plan, stages) \cup PlacesUpTo(plan, k, Len(plan[k].calls), statuses)
<1>1. PICK grown : grown = Append(stages, statuses)
  OBVIOUS
<1>2. /\ k \in Nat /\ Len(grown) = k /\ k \notin 1..Len(stages)
      /\ grown[k] = statuses /\ \A i \in 1..Len(stages) : grown[i] = stages[i]
      /\ 1..k = 1..Len(stages) \cup {k}
  BY <1>1
<1>3. PICK R : /\ R = PlacesUpTo(plan, k, Len(plan[k].calls), statuses)
             /\ R = {<<k, c>> : c \in {d \in 1..MaxCalls : /\ d <= Len(plan[k].calls)
                                                          /\ statuses[d] = "ok"
                                                          /\ plan[k].calls[d].gives # ""}}
  BY DEF PlacesUpTo
<1>4. ASSUME NEW p
      PROVE  p \in PastPlaces(plan, grown) <=> p \in PastPlaces(plan, stages) \cup R
  <2>1. CASE p \in (1..Len(stages)) \X (1..MaxCalls)
    <3>1. p[1] \in 1..Len(stages) /\ p \in (1..k) \X (1..MaxCalls)
      BY <1>2, <2>1
    <3>2. p \notin R
      <4>1. \A c : <<k, c>>[1] = k
        OBVIOUS
      <4>2. QED
        BY <1>2, <1>3, <3>1, <4>1
    <3>3. grown[p[1]] = stages[p[1]]
      BY <1>2, <3>1
    <3>4. QED
      BY <1>2, <2>1, <3>1, <3>2, <3>3 DEF PastPlaces
  <2>2. CASE p \notin (1..Len(stages)) \X (1..MaxCalls) /\ p \in (1..k) \X (1..MaxCalls)
    <3>1. PICK c \in 1..MaxCalls : p = <<k, c>>
      BY <1>2, <2>2
    <3>2. p[1] = k /\ p[2] = c /\ grown[p[1]] = statuses
      BY <1>2, <3>1
    <3>3. p \in R <=> c <= Len(plan[k].calls) /\ statuses[c] = "ok" /\ plan[k].calls[c].gives # ""
      BY <1>3, <3>1
    <3>4. p \in PastPlaces(plan, grown)
            <=> c <= Len(plan[k].calls) /\ statuses[c] = "ok" /\ plan[k].calls[c].gives # ""
      BY <1>2, <2>2, <3>2 DEF PastPlaces, CallAtPlace
    <3>5. p \notin PastPlaces(plan, stages)
      BY <2>2 DEF PastPlaces
    <3>6. QED
      BY <3>3, <3>4, <3>5
  <2>3. CASE p \notin (1..k) \X (1..MaxCalls)
    <3>1. p \notin PastPlaces(plan, grown) /\ p \notin PastPlaces(plan, stages)
      BY <1>2, <2>3 DEF PastPlaces
    <3>2. p \notin R
      <4>1. \A c \in 1..MaxCalls : <<k, c>> \in (1..k) \X (1..MaxCalls)
        BY <1>2
      <4>2. QED
        BY <1>3, <2>3, <4>1
    <3>3. QED
      BY <3>1, <3>2
  <2>4. QED
    BY <1>2, <2>1, <2>2, <2>3
<1>5. QED
  BY <1>1, <1>3, <1>4

\* The stages of a plan are not empty and have at most MaxCalls calls.
LEMMA StageHasCalls ==
    ASSUME StageNumbers, stageAt >= 1
    PROVE  /\ stageAt \in 1..Len(stagePlan) /\ Len(stagePlan) \in Nat
           /\ Len(StageCalls) \in 1..MaxCalls /\ MaxCalls \in Nat
<1>1. Len(stagePlan) \in Nat /\ MaxCalls \in Nat
  BY StagesAssumption DEF StageNumbers
<1>2. stageAt \in 1..Len(stagePlan)
  BY <1>1 DEF StageNumbers
<1>3. QED
  BY <1>1, <1>2, StagesAssumption DEF StageNumbers, StageCalls, StageNow

\* The results of a stage are the statuses of its calls.
LEMMA ResultsAreStatuses ==
    ASSUME outcome \in [1..MaxCalls -> CallStatus]
    PROVE  FutureResults \in [1..MaxCalls -> CallStatus]
BY DEF FutureResults, FutureResult, CallStatus

\* The numbers, over the steps of the thread of the runner.
LEMMA RunnerNumbers ==
    ASSUME StageInv, StageNumbers, RunnerThread
    PROVE  StageNumbers'
<1>1. CASE BeginStage
  <2>1. /\ stageStep = "between" /\ stageAt < Len(stagePlan) /\ stageAt' = stageAt + 1
        /\ callAt' = 1 /\ outcome' = [c \in 1..MaxCalls |-> "none"]
        /\ future' = [c \in 1..MaxCalls |-> "none"]
        /\ stageStep' \in {"raised", "serial", "opening"}
        /\ UNCHANGED <<stagePlan, recorded>>
    BY <1>1 DEF BeginStage
  <2>2. Len(stagePlan) \in Nat /\ stageAt \in 0..Len(stagePlan) /\ Len(recorded) = stageAt
    BY <2>1, StagesAssumption DEF StageNumbers
  <2>3. stageAt' \in 1..Len(stagePlan)
    BY <2>1, <2>2
  <2>4. callAt' \in 1..Len(StageCalls')
    BY <2>1, <2>3, StagesAssumption DEF StageNumbers, StageCalls, StageNow
  <2>5. outcome' \in [1..MaxCalls -> CallStatus]
    BY <2>1 DEF CallStatus
  <2>6. QED
    BY <2>1, <2>2, <2>3, <2>4, <2>5 DEF StageNumbers, InAStage
<1>2. CASE EndRun
  <2>1. /\ stageStep = "between" /\ stageStep' = "over"
        /\ UNCHANGED <<stagePlan, stageAt, recorded, outcome>>
    BY <1>2 DEF EndRun, batchVars
  <2>2. QED
    BY <2>1 DEF StageNumbers, InAStage
<1>3. CASE SerialInvoke
  <2>1. /\ stageStep = "serial" /\ stageStep' \in {"serial", "raised"}
        /\ UNCHANGED <<stagePlan, stageAt, callAt, recorded, outcome>>
        /\ \/ UNCHANGED future
           \/ future' = [future EXCEPT ![callAt] = "running"]
    BY <1>3 DEF SerialInvoke
  <2>2. \A c \in 1..MaxCalls : future'[c] # "notified"
    BY <2>1 DEF StageNumbers, StageInv
  <2>3. QED
    BY <2>1, <2>2 DEF StageNumbers, InAStage, StageCalls, StageNow
<1>4. CASE SerialReturns
  <2>1. stageStep = "serial" /\ UNCHANGED <<stagePlan, stageAt, future, outcome>>
    BY <1>4 DEF SerialReturns
  <2>2. /\ stageAt >= 1 /\ Len(recorded) = stageAt - 1 /\ callAt \in 1..Len(StageCalls)
        /\ outcome \in [1..MaxCalls -> CallStatus] /\ recorded \in Seq([1..MaxCalls -> CallStatus])
    BY <2>1 DEF StageNumbers, InAStage
  <2>3. CASE stageStep' = "raised" /\ UNCHANGED recorded
    BY <2>1, <2>2, <2>3 DEF StageNumbers, InAStage
  <2>4. CASE Record(outcome)
    <3>1. recorded' = Append(recorded, outcome) /\ stageStep' \in {"raised", "over", "between"}
      BY <2>4 DEF Record
    <3>2. recorded' \in Seq([1..MaxCalls -> CallStatus]) /\ Len(recorded') = stageAt
      BY <2>2, <3>1 DEF StageNumbers
    <3>3. QED
      BY <2>1, <2>2, <3>1, <3>2 DEF StageNumbers, InAStage
  <2>5. CASE callAt' = callAt + 1 /\ callAt # Len(StageCalls) /\ UNCHANGED <<stageStep, recorded>>
    <3>1. callAt' \in 1..Len(StageCalls') /\ callAt' > callAt
      BY <2>1, <2>2, <2>5, StageHasCalls DEF StageCalls, StageNow
    <3>2. \A c \in 1..MaxCalls : c > callAt' => c > callAt
      BY <2>2, <2>5, StageHasCalls
    <3>3. QED
      BY <2>1, <2>2, <2>5, <3>1, <3>2 DEF StageNumbers, InAStage
  <2>6. QED
    BY <1>4, <2>3, <2>4, <2>5 DEF SerialReturns
<1>5. CASE OpenStage
  <2>1. /\ stageStep = "opening" /\ stageStep' \in {"collecting", "cleanup"}
        /\ UNCHANGED <<stagePlan, stageAt, recorded, outcome>>
    BY <1>5 DEF OpenStage
  <2>2. QED
    BY <2>1 DEF StageNumbers, InAStage
<1>6. CASE CollectRaises \/ LeaveView
  <2>1. /\ stageStep = "collecting" /\ stageStep' = "joining"
        /\ UNCHANGED <<stagePlan, stageAt, recorded, outcome>>
    BY <1>6 DEF CollectRaises, LeaveView, batchVars
  <2>2. QED
    BY <2>1 DEF StageNumbers, InAStage
<1>7. CASE (\E order : CollectCalls(order)) \/ \E c \in 1..MaxCalls : CancelSibling(c)
  <2>1. /\ stageStep = "collecting" /\ stageStep' = "collecting"
        /\ UNCHANGED <<stagePlan, stageAt, recorded, outcome>>
    BY <1>7 DEF CollectCalls, CancelSibling
  <2>2. QED
    BY <2>1 DEF StageNumbers, InAStage
<1>8. CASE JoinStage
  <2>1. /\ stageStep = "joining" /\ stageStep' \in {"cleanup", "merging"} /\ callAt' = 1
        /\ UNCHANGED <<stagePlan, stageAt, recorded, outcome>>
    BY <1>8 DEF JoinStage, batchVars
  <2>2. callAt' \in 1..Len(StageCalls')
    BY <2>1, StageHasCalls DEF StageNumbers, InAStage, StageCalls, StageNow
  <2>3. QED
    BY <2>1, <2>2 DEF StageNumbers, InAStage
<1>9. CASE MergeCall
  <2>1. /\ stageStep = "merging" /\ stageStep' \in {"cleanup", "merging"}
        /\ stageStep' = "merging" => callAt' = callAt + 1 /\ callAt # Len(StageCalls)
        /\ UNCHANGED <<stagePlan, stageAt, recorded, outcome>>
    BY <1>9 DEF MergeCall, batchVars
  <2>2. callAt \in 1..Len(StageCalls) /\ Len(StageCalls) \in Nat
    BY <2>1, StageHasCalls DEF StageNumbers, InAStage
  <2>3. stageStep' = "merging" => callAt' \in 1..Len(StageCalls')
    BY <2>1, <2>2 DEF StageCalls, StageNow
  <2>4. QED
    BY <2>1, <2>3 DEF StageNumbers, InAStage
<1>10. ASSUME NEW retired \in BOOLEAN, CleanUp(retired)
       PROVE  StageNumbers'
  <2>1. stageStep = "cleanup" /\ UNCHANGED <<stagePlan, stageAt, outcome>>
    BY <1>10 DEF CleanUp
  <2>2. CASE stageStep' = "raised" /\ UNCHANGED recorded
    BY <2>1, <2>2 DEF StageNumbers, InAStage
  <2>3. CASE Record(FutureResults)
    <3>1. recorded' = Append(recorded, FutureResults)
          /\ stageStep' \in {"raised", "over", "between"}
      BY <2>3 DEF Record
    <3>2. /\ recorded \in Seq([1..MaxCalls -> CallStatus]) /\ Len(recorded) = stageAt - 1
          /\ outcome \in [1..MaxCalls -> CallStatus] /\ stageAt \in 0..Len(stagePlan)
      BY <2>1 DEF StageNumbers, InAStage
    <3>3. Len(stagePlan) \in Nat
      BY StagesAssumption DEF StageNumbers
    <3>4. recorded' \in Seq([1..MaxCalls -> CallStatus]) /\ Len(recorded') = stageAt
      BY <3>1, <3>2, <3>3, ResultsAreStatuses
    <3>5. QED
      BY <2>1, <3>1, <3>2, <3>4 DEF StageNumbers, InAStage
  <2>4. QED
    BY <1>10, <2>2, <2>3 DEF CleanUp
<1>11. QED
  BY <1>1, <1>2, <1>3, <1>4, <1>5, <1>6, <1>7, <1>8, <1>9, <1>10 DEF RunnerThread

\* The children and the threads leave the numbers alone.
LEMMA CallNumbers ==
    ASSUME StageInv, StageNumbers, NEW c \in 1..MaxCalls, CallThread(c)
    PROVE  StageNumbers'
<1>1. UNCHANGED <<stagePlan, stageAt, callAt, stageStep, recorded>>
  BY DEF CallThread, StartCall, ThreadDone, CallEnds
<1>2. CASE StartCall(c) \/ ThreadDone(c)
  <2>1. UNCHANGED outcome /\ stageStep # "serial"
    BY <1>2 DEF StartCall, ThreadDone, StageInv, Unfinished
  <2>2. QED
    BY <1>1, <2>1 DEF StageNumbers, InAStage, StageCalls, StageNow
<1>3. ASSUME NEW status \in {"ok", "failed", "cancelled"}, CallEnds(c, status)
      PROVE  StageNumbers'
  <2>1. /\ future[c] = "running" /\ future' = [future EXCEPT ![c] = "done"]
        /\ outcome' = [outcome EXCEPT ![c] = status]
    BY <1>3 DEF CallEnds
  <2>2. outcome' \in [1..MaxCalls -> CallStatus]
    BY <2>1 DEF StageNumbers, CallStatus
  <2>3. stageStep = "serial" => c = callAt
    BY <2>1 DEF StageInv, Unfinished
  <2>4. stageStep = "serial" =>
           \A d \in 1..MaxCalls : future'[d] # "notified" /\ (d > callAt => outcome'[d] = "none")
    <3>1. SUFFICES ASSUME stageStep = "serial", NEW d \in 1..MaxCalls
                   PROVE  future'[d] # "notified" /\ (d > callAt => outcome'[d] = "none")
      OBVIOUS
    <3>2. future[d] # "notified" /\ (d > callAt => outcome[d] = "none")
      BY <3>1 DEF StageNumbers
    <3>3. future'[d] # "notified"
      BY <2>1, <3>2 DEF StageInv
    <3>4. d > callAt => d # c
      BY <2>3, <3>1
    <3>5. QED
      BY <2>1, <3>2, <3>3, <3>4 DEF StageNumbers
  <2>5. QED
    BY <1>1, <2>2, <2>4 DEF StageNumbers, InAStage, StageCalls, StageNow
<1>4. QED
  BY <1>2, <1>3 DEF CallThread

\* One call more is merged, in the order of the plan.
LEMMA OneMoreMerged ==
    ASSUME StageNumbers, stageAt >= 1, Len(recorded) = stageAt - 1, NEW c \in 1..MaxCalls,
           NEW statuses, NEW M,
           M = PastPlaces(stagePlan, recorded) \cup PlacesUpTo(stagePlan, stageAt, c - 1, statuses),
           TableOf(stagePlan, M, artifacts), ~Clashes(c, statuses)
    PROVE  TableOf(stagePlan, PastPlaces(stagePlan, recorded)
                                 \cup PlacesUpTo(stagePlan, stageAt, c, statuses),
                   Merged(c, statuses))
<1>1. stageAt \in Nat /\ MaxCalls \in Nat
  BY StagesAssumption DEF StageNumbers
<1>2. Publishes(c, statuses) <=> statuses[c] = "ok" /\ stagePlan[stageAt].calls[c].gives # ""
  BY DEF Publishes, StageCalls, StageNow
<1>3. PICK q : q = <<stageAt, c>>
  OBVIOUS
<1>4. \A e \in 1..MaxCalls : e <= c <=> e <= c - 1 \/ e = c
  BY <1>1
<1>5. PlacesUpTo(stagePlan, stageAt, c, statuses)
         = PlacesUpTo(stagePlan, stageAt, c - 1, statuses)
              \cup (IF Publishes(c, statuses) THEN {q} ELSE {})
  BY <1>2, <1>3, <1>4 DEF PlacesUpTo
<1>6. CASE ~Publishes(c, statuses)
  <2>1. Merged(c, statuses) = artifacts
    BY <1>6 DEF Merged
  <2>2. PlacesUpTo(stagePlan, stageAt, c, statuses) = PlacesUpTo(stagePlan, stageAt, c - 1, statuses)
    BY <1>5, <1>6
  <2>3. QED
    BY <2>1, <2>2
<1>7. CASE Publishes(c, statuses)
  <2>1. q[1] = stageAt /\ q[2] = c
    BY <1>3
  <2>2. NotLater(q, q)
    BY <2>1 DEF NotLater
  <2>3. ASSUME NEW p \in M
        PROVE  NotLater(p, q)
    <3>1. CASE p \in PastPlaces(stagePlan, recorded)
      <4>1. p[1] \in 1..(stageAt - 1)
        BY <3>1 DEF PastPlaces
      <4>2. QED
        BY <1>1, <2>1, <4>1 DEF NotLater
    <3>2. CASE p \in PlacesUpTo(stagePlan, stageAt, c - 1, statuses)
      <4>1. PICK d \in 1..MaxCalls : p = <<stageAt, d>> /\ d <= c - 1
        BY <3>2 DEF PlacesUpTo
      <4>2. p[1] = stageAt /\ p[2] = d
        BY <4>1
      <4>3. QED
        BY <1>1, <2>1, <4>1, <4>2 DEF NotLater
    <3>3. QED
      BY <3>1, <3>2
  <2>4. /\ QualifiedName(c) = <<CallAtPlace(stagePlan, q).name, CallAtPlace(stagePlan, q).gives>>
        /\ BareName(c) = <<"", CallAtPlace(stagePlan, q).gives>>
    BY <2>1 DEF QualifiedName, BareName, CallAtPlace, StageCalls, StageNow
  <2>5. Merged(c, statuses) = Grown(stagePlan, artifacts, q)
    BY <1>3, <1>7, <2>4 DEF Merged, Grown
  <2>6. TableOf(stagePlan, M \cup {q}, Grown(stagePlan, artifacts, q))
    BY <2>2, <2>3, TableGrows
  <2>7. PastPlaces(stagePlan, recorded) \cup PlacesUpTo(stagePlan, stageAt, c, statuses)
           = M \cup {q}
    BY <1>5, <1>7
  <2>8. QED
    BY <2>5, <2>6, <2>7
<1>8. QED
  BY <1>6, <1>7

\* A stage in which all was merged returns: its places become the past.
LEMMA StageReturned ==
    ASSUME StageNumbers, stageAt >= 1, Len(recorded) = stageAt - 1,
           NEW statuses \in [1..MaxCalls -> CallStatus], recorded' = Append(recorded, statuses)
    PROVE  PastPlaces(stagePlan, recorded')
              = PastPlaces(stagePlan, recorded)
                 \cup PlacesUpTo(stagePlan, stageAt, Len(StageCalls), statuses)
<1>1. stageAt \in Nat
  BY StagesAssumption DEF StageNumbers
<1>2. recorded \in Seq([1..MaxCalls -> CallStatus]) /\ stageAt = Len(recorded) + 1
  BY <1>1 DEF StageNumbers
<1>3. PastPlaces(stagePlan, Append(recorded, statuses))
         = PastPlaces(stagePlan, recorded)
              \cup PlacesUpTo(stagePlan, stageAt, Len(stagePlan[stageAt].calls), statuses)
  BY <1>2, PastGrows
<1>4. QED
  BY <1>3 DEF StageCalls, StageNow

\* Nothing is merged of no calls.
LEMMA NoPlaces ==
    ASSUME NEW plan, NEW k, NEW statuses
    PROVE  PlacesUpTo(plan, k, 0, statuses) = {}
<1>1. \A d \in 1..MaxCalls : ~(d <= 0)
  OBVIOUS
<1>2. QED
  BY <1>1 DEF PlacesUpTo

\* Only the results of the calls that are merged matter.
LEMMA SamePlaces ==
    ASSUME NEW plan, NEW k, NEW last, NEW statuses, NEW others,
           \A d \in 1..MaxCalls : d <= last => statuses[d] = others[d]
    PROVE  PlacesUpTo(plan, k, last, statuses) = PlacesUpTo(plan, k, last, others)
BY DEF PlacesUpTo

\* Outside a stage, and while nothing of it is merged, the past is all.
LEMMA OnlyThePast ==
    ASSUME \/ stageStep \notin {"serial", "merging", "cleanup"}
           \/ stageStep \in {"serial", "merging"} /\ callAt = 1
    PROVE  MergedPlaces = PastPlaces(stagePlan, recorded)
<1>1. LastMerged = 0
  BY DEF LastMerged
<1>2. QED
  BY <1>1, NoPlaces DEF MergedPlaces

\* The same after a step.
LEMMA OnlyThePastNext ==
    ASSUME \/ stageStep' \notin {"serial", "merging", "cleanup"}
           \/ stageStep' \in {"serial", "merging"} /\ callAt' = 1
    PROVE  MergedPlaces' = PastPlaces(stagePlan', recorded')
<1>1. LastMerged' = 0
  BY DEF LastMerged
<1>2. QED
  BY <1>1, NoPlaces DEF MergedPlaces

\* In a serial stage no call is cancelled before it starts.
LEMMA SerialResults ==
    ASSUME StageNumbers, stageStep = "serial"
    PROVE  FutureResults = outcome
BY DEF StageNumbers, FutureResults, FutureResult

\* The table, over the steps that do not merge anything.
LEMMA QuietSteps ==
    ASSUME StageInv, StageNumbers, TableHolds,
           \/ BeginStage \/ EndRun \/ SerialInvoke \/ OpenStage \/ CollectRaises \/ LeaveView
           \/ JoinStage \/ (\E order : CollectCalls(order))
           \/ \E c \in 1..MaxCalls : CancelSibling(c)
    PROVE  Raises' \/ TableHolds'
<1>1. UNCHANGED <<stagePlan, recorded, artifacts>>
  BY DEF BeginStage, EndRun, SerialInvoke, OpenStage, CollectRaises, LeaveView, JoinStage,
         CollectCalls, CancelSibling, batchVars
<1>2. CASE SerialInvoke
  <2>1. SUFFICES ASSUME stageStep' # "raised"
                 PROVE  TableHolds'
    BY DEF Raises
  <2>2. /\ stageStep = "serial" /\ stageStep' = "serial" /\ UNCHANGED <<stageAt, callAt, outcome>>
        /\ future' = [future EXCEPT ![callAt] = "running"]
    BY <1>2, <2>1 DEF SerialInvoke
  <2>3. FutureResults = outcome /\ FutureResults' = outcome'
    <3>1. FutureResults = outcome
      BY <2>2, SerialResults
    <3>2. \A c \in 1..MaxCalls : future'[c] # "notified"
      BY <2>2 DEF StageNumbers, StageInv
    <3>3. QED
      BY <2>2, <3>1, <3>2 DEF FutureResults, FutureResult, StageNumbers
  <2>4. LastMerged' = LastMerged
    BY <2>2 DEF LastMerged
  <2>5. MergedPlaces' = MergedPlaces
    BY <1>1, <2>2, <2>3, <2>4 DEF MergedPlaces
  <2>6. QED
    BY <1>1, <2>5 DEF TableHolds
<1>3. CASE ~SerialInvoke
  <2>1. /\ stageStep \notin {"serial", "merging", "cleanup"}
        /\ \/ stageStep' \notin {"serial", "merging", "cleanup"}
           \/ stageStep' \in {"serial", "merging"} /\ callAt' = 1
           \/ stageStep' = "cleanup" /\ failing'
    BY <1>3 DEF BeginStage, EndRun, OpenStage, CollectRaises, LeaveView, JoinStage,
                CollectCalls, CancelSibling, batchVars
  <2>2. CASE stageStep' = "cleanup" /\ failing'
    BY <2>2 DEF Raises
  <2>3. CASE \/ stageStep' \notin {"serial", "merging", "cleanup"}
             \/ stageStep' \in {"serial", "merging"} /\ callAt' = 1
    <3>1. MergedPlaces' = MergedPlaces
      BY <1>1, <2>1, <2>3, OnlyThePast, OnlyThePastNext
    <3>2. QED
      BY <1>1, <3>1 DEF TableHolds
  <2>4. QED
    BY <2>1, <2>2, <2>3
<1>4. QED
  BY <1>2, <1>3

\* A call of a serial stage returns.
LEMMA SerialMerges ==
    ASSUME StageInv, StageNumbers, TableHolds, SerialReturns
    PROVE  Raises' \/ TableHolds'
<1>1. SUFFICES ASSUME stageStep' # "raised"
               PROVE  TableHolds'
  BY DEF Raises
<1>2. /\ stageStep = "serial" /\ UNCHANGED <<stagePlan, stageAt, future, outcome>>
      /\ artifacts' = Merged(callAt, outcome) /\ ~Clashes(callAt, outcome)
  BY <1>1 DEF SerialReturns
<1>3. /\ stageAt >= 1 /\ Len(recorded) = stageAt - 1 /\ callAt \in 1..Len(StageCalls)
      /\ outcome \in [1..MaxCalls -> CallStatus]
  BY <1>2 DEF StageNumbers, InAStage
<1>4. Len(StageCalls) \in 1..MaxCalls /\ MaxCalls \in Nat /\ callAt \in 1..MaxCalls
  BY <1>3, StageHasCalls
<1>5. PICK M : M = PastPlaces(stagePlan, recorded)
                     \cup PlacesUpTo(stagePlan, stageAt, callAt - 1, outcome)
  OBVIOUS
<1>6. MergedPlaces = M
  BY <1>2, <1>5, SerialResults DEF MergedPlaces, LastMerged
<1>7. TableOf(stagePlan, PastPlaces(stagePlan, recorded)
                            \cup PlacesUpTo(stagePlan, stageAt, callAt, outcome), artifacts')
  BY <1>2, <1>3, <1>4, <1>5, <1>6, OneMoreMerged DEF TableHolds
<1>8. CASE Record(outcome)
  <2>1. recorded' = Append(recorded, outcome) /\ stageStep' \in {"over", "between"}
    BY <1>1, <1>8 DEF Record
  <2>2. MergedPlaces' = PastPlaces(stagePlan, recorded')
    BY <1>2, <2>1, OnlyThePastNext
  <2>3. PastPlaces(stagePlan, recorded') = PastPlaces(stagePlan, recorded)
             \cup PlacesUpTo(stagePlan, stageAt, Len(StageCalls), outcome)
    BY <1>3, <2>1, StageReturned
  <2>4. PlacesUpTo(stagePlan, stageAt, Len(StageCalls), outcome)
           = PlacesUpTo(stagePlan, stageAt, callAt, outcome)
    <3>1. \A d \in 1..MaxCalls : outcome[d] = "ok" => d <= callAt
      BY <1>2, <1>3, <1>4 DEF StageNumbers
    <3>2. \A d \in 1..MaxCalls : d <= callAt => d <= Len(StageCalls)
      BY <1>3, <1>4
    <3>3. QED
      BY <3>1, <3>2 DEF PlacesUpTo
  <2>5. QED
    BY <1>2, <1>7, <2>2, <2>3, <2>4 DEF TableHolds
<1>9. CASE callAt' = callAt + 1 /\ UNCHANGED <<stageStep, recorded>>
  <2>1. FutureResults' = outcome'
    BY <1>2, SerialResults DEF FutureResults, FutureResult
  <2>2. LastMerged' = callAt
    BY <1>2, <1>3, <1>4, <1>9 DEF LastMerged
  <2>3. MergedPlaces' = PastPlaces(stagePlan, recorded)
                           \cup PlacesUpTo(stagePlan, stageAt, callAt, outcome)
    BY <1>2, <1>9, <2>1, <2>2 DEF MergedPlaces
  <2>4. QED
    BY <1>2, <1>7, <2>3 DEF TableHolds
<1>10. QED
  BY <1>1, <1>8, <1>9 DEF SerialReturns

\* One call of a parallel stage is merged.
LEMMA ParallelMerges ==
    ASSUME StageInv, StageNumbers, TableHolds, MergeCall
    PROVE  Raises' \/ TableHolds'
<1>1. stageStep = "merging" /\ UNCHANGED <<stagePlan, stageAt, recorded, future, outcome>>
  BY DEF MergeCall, batchVars
<1>2. stageAt >= 1 /\ Len(recorded) = stageAt - 1 /\ callAt \in 1..Len(StageCalls)
  BY <1>1 DEF StageNumbers, InAStage
<1>3. Len(StageCalls) \in 1..MaxCalls /\ MaxCalls \in Nat /\ callAt \in 1..MaxCalls
  BY <1>2, StageHasCalls
<1>4. MergeOrder[callAt] = callAt
  BY <1>2 DEF MergeOrder
<1>5. CASE Clashes(callAt, FutureResults)
  BY <1>4, <1>5 DEF MergeCall, Raises
<1>6. CASE ~Clashes(callAt, FutureResults)
  <2>1. /\ artifacts' = Merged(callAt, FutureResults)
        /\ \/ stageStep' = "cleanup" /\ callAt = Len(StageCalls)
           \/ stageStep' = "merging" /\ callAt' = callAt + 1
    BY <1>4, <1>6 DEF MergeCall
  <2>2. PICK M : M = PastPlaces(stagePlan, recorded)
                       \cup PlacesUpTo(stagePlan, stageAt, callAt - 1, FutureResults)
    OBVIOUS
  <2>3. MergedPlaces = M
    BY <1>1, <2>2 DEF MergedPlaces, LastMerged
  <2>4. TableOf(stagePlan, PastPlaces(stagePlan, recorded)
                              \cup PlacesUpTo(stagePlan, stageAt, callAt, FutureResults), artifacts')
    BY <1>2, <1>3, <1>6, <2>1, <2>2, <2>3, OneMoreMerged DEF TableHolds
  <2>5. FutureResults' = FutureResults
    BY <1>1 DEF FutureResults, FutureResult
  <2>6. LastMerged' = callAt
    BY <1>1, <1>2, <1>3, <2>1 DEF LastMerged, StageCalls, StageNow
  <2>7. MergedPlaces' = PastPlaces(stagePlan, recorded)
                           \cup PlacesUpTo(stagePlan, stageAt, callAt, FutureResults)
    BY <1>1, <2>5, <2>6 DEF MergedPlaces
  <2>8. QED
    BY <1>1, <2>4, <2>7 DEF TableHolds
<1>7. QED
  BY <1>5, <1>6

\* A parallel stage returns.
LEMMA CleanUpKeeps ==
    ASSUME StageInv, StageNumbers, TableHolds, NEW retired, CleanUp(retired)
    PROVE  Raises' \/ TableHolds'
<1>1. SUFFICES ASSUME stageStep' # "raised"
               PROVE  TableHolds'
  BY DEF Raises
<1>2. /\ stageStep = "cleanup" /\ Record(FutureResults)
      /\ UNCHANGED <<stagePlan, stageAt, artifacts>>
  BY <1>1 DEF CleanUp
<1>3. /\ stageAt >= 1 /\ Len(recorded) = stageAt - 1
      /\ FutureResults \in [1..MaxCalls -> CallStatus]
  BY <1>2, ResultsAreStatuses DEF StageNumbers, InAStage
<1>4. recorded' = Append(recorded, FutureResults) /\ stageStep' \in {"over", "between"}
  BY <1>1, <1>2 DEF Record
<1>5. MergedPlaces' = PastPlaces(stagePlan, recorded')
  BY <1>2, <1>4, OnlyThePastNext
<1>6. PastPlaces(stagePlan, recorded') = PastPlaces(stagePlan, recorded)
          \cup PlacesUpTo(stagePlan, stageAt, Len(StageCalls), FutureResults)
  BY <1>3, <1>4, StageReturned
<1>7. MergedPlaces' = MergedPlaces
  BY <1>2, <1>5, <1>6 DEF MergedPlaces, LastMerged
<1>8. QED
  BY <1>2, <1>7 DEF TableHolds

\* The children and the threads.
LEMMA CallsKeepTable ==
    ASSUME StageInv, StageNumbers, TableHolds, NEW c \in 1..MaxCalls, CallThread(c)
    PROVE  TableHolds'
<1>1. UNCHANGED <<stagePlan, stageAt, callAt, stageStep, artifacts, recorded>>
  BY DEF CallThread, StartCall, ThreadDone, CallEnds
<1>2. stageStep \in {"serial", "collecting", "joining"}
  BY DEF CallThread, StartCall, ThreadDone, CallEnds, StageInv, Joined, Unfinished
<1>3. CASE stageStep \in {"collecting", "joining"}
  <2>1. MergedPlaces' = MergedPlaces
    BY <1>1, <1>3, OnlyThePast, OnlyThePastNext
  <2>2. QED
    BY <1>1, <2>1 DEF TableHolds
<1>4. CASE stageStep = "serial"
  <2>1. future[c] = "running" /\ c = callAt
    BY <1>4 DEF CallThread, StartCall, ThreadDone, CallEnds, StageInv, Unfinished
  <2>2. PICK status : CallEnds(c, status)
    BY <1>4, <2>1 DEF CallThread, StartCall, ThreadDone
  <2>3. /\ future' = [future EXCEPT ![c] = "done"]
        /\ outcome' = [outcome EXCEPT ![c] = status]
    BY <2>2 DEF CallEnds
  <2>4. LastMerged = callAt - 1 /\ LastMerged' = callAt - 1 /\ MaxCalls \in Nat
    BY <1>1, <1>4, StagesAssumption DEF LastMerged
  <2>5. \A d \in 1..MaxCalls : d <= callAt - 1 => FutureResults'[d] = FutureResults[d]
    BY <2>1, <2>3, <2>4 DEF FutureResults, FutureResult, StageInv, StageNumbers
  <2>6. PlacesUpTo(stagePlan, stageAt, callAt - 1, FutureResults')
           = PlacesUpTo(stagePlan, stageAt, callAt - 1, FutureResults)
    BY <2>5, SamePlaces
  <2>7. MergedPlaces' = MergedPlaces
    BY <1>1, <2>4, <2>6 DEF MergedPlaces
  <2>8. QED
    BY <1>1, <2>7 DEF TableHolds
<1>5. QED
  BY <1>2, <1>3, <1>4

\* What is merged is the merge of the plan, in its order.
LEMMA TableInvKept ==
    ASSUME TableInv, StageInv', [StageNext]_stageVars
    PROVE  TableInv'
<1>1. CASE RunnerThread
  <2>1. StageNumbers'
    BY <1>1, RunnerNumbers DEF TableInv
  <2>2. CASE Raises
    <3>1. \E retired \in BOOLEAN : CleanUp(retired)
      BY <1>1, <2>2 DEF RunnerThread, Raises, BeginStage, EndRun, SerialInvoke, SerialReturns,
           OpenStage, CollectRaises, CollectCalls, CancelSibling, LeaveView, JoinStage, MergeCall
    <3>2. stageStep' = "raised"
      BY <2>2, <3>1 DEF CleanUp, Raises
    <3>3. QED
      BY <2>1, <3>2 DEF TableInv, Raises
  <2>3. CASE TableHolds
    <3>1. StageInv /\ StageNumbers
      BY DEF TableInv
    <3>2. Raises' \/ TableHolds'
      BY <1>1, <2>3, <3>1, QuietSteps, SerialMerges, ParallelMerges, CleanUpKeeps
         DEF RunnerThread
    <3>3. QED
      BY <2>1, <3>2 DEF TableInv
  <2>4. QED
    BY <2>2, <2>3 DEF TableInv
<1>2. ASSUME NEW c \in 1..MaxCalls, CallThread(c)
      PROVE  TableInv'
  <2>1. StageNumbers'
    BY <1>2, CallNumbers DEF TableInv
  <2>2. UNCHANGED <<stageStep, failing>>
    BY <1>2 DEF CallThread, StartCall, ThreadDone, CallEnds
  <2>3. CASE Raises
    BY <2>1, <2>2, <2>3 DEF Raises, TableInv
  <2>4. CASE TableHolds
    BY <1>2, <2>1, <2>4, CallsKeepTable DEF TableInv
  <2>5. QED
    BY <2>3, <2>4 DEF TableInv
<1>3. CASE UNCHANGED <<stagePlan, stageAt, callAt, stageStep, failing, future, outcome, artifacts,
                       recorded>>
  <2>1. MergedPlaces' = MergedPlaces
    BY <1>3 DEF MergedPlaces, LastMerged, StageCalls, StageNow, FutureResults, FutureResult
  <2>2. (Raises <=> Raises') /\ (TableHolds <=> TableHolds')
    BY <1>3, <2>1 DEF Raises, TableHolds
  <2>3. StageNumbers => StageNumbers'
    BY <1>3 DEF StageNumbers, InAStage, StageCalls, StageNow
  <2>4. QED
    BY <2>2, <2>3 DEF TableInv
<1>4. CASE CancelCase \/ BeatLost \/ GracePasses \/ UNCHANGED stageVars
  BY <1>3, <1>4 DEF CancelCase, BeatLost, GracePasses, batchVars, stageVars
<1>5. QED
  BY <1>1, <1>2, <1>4 DEF StageNext

\* Which child an artifact stands for never depends on which children finished
\* first, for any plan of stages, however the threads of the pool interleave.
THEOREM MergeIgnoresTimingThm == StageSpec => []MergeIgnoresTiming
<1>1. StageInit => TableInv
  <2>1. SUFFICES ASSUME StageInit
                 PROVE  TableInv
    OBVIOUS
  <2>2. StageInv
    BY <2>1 DEF StageInit, StageInv, Joined, Unfinished
  <2>3. StageNumbers
    <3>1. Len(stagePlan) \in Nat /\ recorded = <<>> /\ stagePlan \in StagePlans
      BY <2>1, StagesAssumption DEF StageInit
    <3>2. recorded \in Seq([1..MaxCalls -> CallStatus]) /\ Len(recorded) = 0
      BY <3>1
    <3>3. stageAt = 0 /\ stageStep = "between" /\ outcome \in [1..MaxCalls -> CallStatus]
      BY <2>1 DEF StageInit, CallStatus
    <3>4. QED
      BY <3>1, <3>2, <3>3 DEF StageNumbers, InAStage
  <2>4. TableHolds
    <3>1. stageStep = "between" /\ recorded = <<>> /\ artifacts = <<>>
      BY <2>1 DEF StageInit
    <3>2. PastPlaces(stagePlan, recorded) = {}
      BY <3>1 DEF PastPlaces
    <3>3. MergedPlaces = {}
      BY <3>1, <3>2, OnlyThePast
    <3>4. NamesOf(stagePlan, {}) = {} /\ DOMAIN artifacts = {}
      BY <3>1 DEF NamesOf
    <3>5. QED
      BY <3>3, <3>4 DEF TableHolds, TableOf
  <2>5. QED
    BY <2>2, <2>3, <2>4 DEF TableInv
<1>2. TableInv /\ [StageNext]_stageVars => TableInv'
  BY TableInvKept, StageInvKept DEF TableInv
<1>3. TableInv => MergeIgnoresTiming
  <2>1. SUFFICES ASSUME TableInv, stageStep \in {"between", "over"}
                 PROVE  MergeIgnoresTiming
    BY DEF MergeIgnoresTiming
  <2>2. TableOf(stagePlan, PastPlaces(stagePlan, recorded), artifacts)
    BY <2>1, OnlyThePast DEF TableInv, Raises, TableHolds
  <2>3. QED
    BY <2>2 DEF MergeIgnoresTiming, TableOf, PastPlaces, NamesOf, PublishersOf, NotLater,
                CallAtPlace
<1>4. QED
  BY <1>1, <1>2, <1>3, PTL DEF StageSpec

-----------------------------------------------------------------------------
(* Plugins. While a receipt is being closed, what is still open of a       *)
(* plugin are the places it has in the rest of the receipt.                *)

\* How often p is named in R from place k on.
Named(R, k, p) == Cardinality({i \in k..Len(R) : R[i] = p})

ARun == {"init", "running", "generationStart", "generationEnd"}

IsReceipt(R) == \E S : R \in Seq(S)

PluginTypes ==
    /\ walk \in Nat \ {0}
    /\ stage \in ARun \cup {"idle", "restore", "finish", "over"}
    /\ IsReceipt(receipt) /\ IsReceipt(started)
    /\ runOpen \in [Plugin -> Int] /\ generationOpen \in [Plugin -> Int]

\* on_solver_init and its finish.
RunBooked(p) ==
    /\ stage \in {"idle", "restore"} => receipt = <<>>
    /\ runOpen[p] = CASE stage = "over" -> 0
                      [] stage = "finish" -> Named(receipt, walk, p)
                      [] OTHER -> Named(receipt, 1, p)

\* The start of a generation and its end.
GenerationBooked(p) ==
    generationOpen[p] = CASE stage = "generationStart" -> Named(started, 1, p)
                          [] stage = "generationEnd" -> Named(started, walk, p)
                          [] OTHER -> 0

PluginInv == PluginTypes /\ \A p \in Plugin : RunBooked(p) /\ GenerationBooked(p)

\* The places of a receipt from k on are finitely many.
LEMMA NamedType ==
    ASSUME NEW R, IsReceipt(R), NEW k \in Nat \ {0}, NEW p
    PROVE  Named(R, k, p) \in Nat
<1> PICK S : R \in Seq(S)
  BY DEF IsReceipt
<1>1. IsFiniteSet(1..Len(R))
  BY FS_Interval
<1>2. {i \in k..Len(R) : R[i] = p} \subseteq 1..Len(R)
  OBVIOUS
<1> QED  BY <1>1, <1>2, FS_Subset, FS_CardinalityType DEF Named

\* Nobody is named past the end, or in an empty receipt.
LEMMA NamedNowhere ==
    ASSUME NEW R, IsReceipt(R), NEW k \in Nat, k > Len(R), NEW p
    PROVE  Named(R, k, p) = 0
<1> PICK S : R \in Seq(S)
  BY DEF IsReceipt
<1>1. {i \in k..Len(R) : R[i] = p} = {}
  OBVIOUS
<1> QED  BY <1>1, FS_EmptySet DEF Named

\* A start adds a place to the receipt: that of the plugin that started.
LEMMA NamedAppend ==
    ASSUME NEW R, IsReceipt(R), NEW v, NEW p
    PROVE  /\ IsReceipt(Append(R, v))
           /\ Named(Append(R, v), 1, p) = IF v = p THEN Named(R, 1, p) + 1 ELSE Named(R, 1, p)
<1> PICK S : R \in Seq(S)
  BY DEF IsReceipt
<1>1. R \in Seq(S \cup {v}) /\ Append(R, v) \in Seq(S \cup {v})
  OBVIOUS
<1>2. Len(Append(R, v)) = Len(R) + 1 /\ Len(R) \in Nat
  OBVIOUS
<1>3. \A i \in 1..Len(R) : Append(R, v)[i] = R[i]
  OBVIOUS
<1>4. Append(R, v)[Len(R) + 1] = v
  OBVIOUS
<1> DEFINE old == {i \in 1..Len(R) : R[i] = p}
           new == {i \in 1..Len(Append(R, v)) : Append(R, v)[i] = p}
<1>5. new = IF v = p THEN old \cup {Len(R) + 1} ELSE old
  BY <1>2, <1>3, <1>4
<1>6. IsFiniteSet(old) /\ Len(R) + 1 \notin old
  <2>1. IsFiniteSet(1..Len(R))
    BY <1>2, FS_Interval
  <2>2. old \subseteq 1..Len(R) /\ Len(R) + 1 \notin old
    BY <1>2
  <2> QED  BY <2>1, <2>2, FS_Subset
<1>7. Cardinality(old \cup {Len(R) + 1}) = Cardinality(old) + 1
  BY <1>6, FS_AddElement
<1> QED  BY <1>1, <1>5, <1>7 DEF Named, IsReceipt

\* An end takes off the place the walk is at.
LEMMA NamedNext ==
    ASSUME NEW R, IsReceipt(R), NEW k \in Nat \ {0}, k <= Len(R), NEW p
    PROVE  Named(R, k, p) = IF R[k] = p THEN Named(R, k + 1, p) + 1 ELSE Named(R, k + 1, p)
<1> PICK S : R \in Seq(S)
  BY DEF IsReceipt
<1> DEFINE old == {i \in k..Len(R) : R[i] = p}
           new == {i \in (k + 1)..Len(R) : R[i] = p}
<1>1. old = IF R[k] = p THEN new \cup {k} ELSE new
  OBVIOUS
<1>2. new \subseteq 1..Len(R) /\ k \notin new
  OBVIOUS
<1>3. IsFiniteSet(new)
  BY <1>2, FS_Interval, FS_Subset
<1>4. Cardinality(new \cup {k}) = Cardinality(new) + 1
  BY <1>2, <1>3, FS_AddElement
<1> QED  BY <1>1, <1>4 DEF Named

\* A count that goes up or down, of a plugin or of anything else.
LEMMA CountsType ==
    ASSUME NEW f \in [Plugin -> Int], NEW v
    PROVE  /\ [f EXCEPT ![v] = f[v] + 1] \in [Plugin -> Int]
           /\ [f EXCEPT ![v] = f[v] - 1] \in [Plugin -> Int]
<1>1. v \in Plugin => f[v] + 1 \in Int /\ f[v] - 1 \in Int
  OBVIOUS
<1>2. \A x : (v \in Plugin => x \in Int) => [f EXCEPT ![v] = x] \in [Plugin -> Int]
  OBVIOUS
<1> QED  BY <1>1, <1>2

\* Steps that touch neither receipt nor count: registration, walks that go
\* on or move to another stage of the run.
LEMMA PluginMoves ==
    ASSUME PluginInv, UNCHANGED bookVars,
           \/ UNCHANGED <<walk, stage>>
           \/ stage \in {"restore", "init", "generationStart"} /\ Step
           \/ stage = "idle" /\ GoTo("restore")
           \/ stage = "restore" /\ (GoTo("over") \/ GoTo("init"))
           \/ stage \in {"init", "running"} /\ (GoTo("finish") \/ GoTo("running"))
           \/ stage = "generationStart" /\ GoTo("generationEnd")
    PROVE  PluginInv'
<1>1. PluginTypes'
  BY DEF PluginInv, PluginTypes, ARun, Step, GoTo, bookVars
<1> SUFFICES ASSUME NEW p \in Plugin
             PROVE  RunBooked(p)' /\ GenerationBooked(p)'
  BY <1>1 DEF PluginInv
<1>2. RunBooked(p) /\ GenerationBooked(p) /\ UNCHANGED <<receipt, started, runOpen, generationOpen>>
  BY DEF PluginInv, bookVars
<1>3. Named(<<>>, 1, p) = 0
  <2>1. IsReceipt(<<>>)
    <3>1. <<>> \in Seq({})
      OBVIOUS
    <3> QED  BY <3>1 DEF IsReceipt
  <2> QED  BY <2>1, NamedNowhere
<1>4. stage \in ARun \cup {"idle", "restore", "finish", "over"}
  BY DEF PluginInv, PluginTypes
<1>5. CASE UNCHANGED <<walk, stage>>
  BY <1>2, <1>5 DEF RunBooked, GenerationBooked, Named
<1>6. CASE stage \in {"restore", "init", "generationStart"} /\ Step
  BY <1>2, <1>6 DEF RunBooked, GenerationBooked, Named, Step
<1>7. CASE stage = "idle" /\ GoTo("restore")
  BY <1>2, <1>7 DEF RunBooked, GenerationBooked, Named, GoTo
<1>8. CASE stage = "restore" /\ (GoTo("over") \/ GoTo("init"))
  BY <1>2, <1>3, <1>8 DEF RunBooked, GenerationBooked, Named, GoTo
<1>9. CASE stage \in {"init", "running"} /\ (GoTo("finish") \/ GoTo("running"))
  BY <1>2, <1>9 DEF RunBooked, GenerationBooked, Named, GoTo
<1>10. CASE stage = "generationStart" /\ GoTo("generationEnd")
  BY <1>2, <1>10 DEF RunBooked, GenerationBooked, Named, GoTo
<1> QED  BY <1>5, <1>6, <1>7, <1>8, <1>9, <1>10

\* A hook that started, for the run or for a generation.
LEMMA PluginStarts ==
    ASSUME PluginInv, InitCompletes \/ GenerationStarts
    PROVE  PluginInv'
<1>1. CASE InitCompletes
  <2> PICK v : v = Visited
    OBVIOUS
  <2>1. /\ stage = "init" /\ stage' = "init" /\ walk' = walk + 1
        /\ receipt' = Append(receipt, v) /\ started' = started
        /\ runOpen' = [runOpen EXCEPT ![v] = runOpen[v] + 1]
        /\ generationOpen' = generationOpen
    BY <1>1 DEF InitCompletes, Walking, Step
  <2>2. PluginTypes'
    <3>1. PluginTypes
      BY DEF PluginInv
    <3>2. IsReceipt(receipt')
      BY <2>1, <3>1, NamedAppend DEF PluginTypes
    <3>3. runOpen' \in [Plugin -> Int]
      BY <2>1, <3>1, CountsType DEF PluginTypes
    <3> QED  BY <2>1, <3>1, <3>2, <3>3 DEF PluginTypes, ARun, IsReceipt
  <2> SUFFICES ASSUME NEW p \in Plugin
               PROVE  RunBooked(p)' /\ GenerationBooked(p)'
    BY <2>2 DEF PluginInv
  <2>3. RunBooked(p) /\ GenerationBooked(p) /\ PluginTypes
    BY DEF PluginInv
  <2>4. runOpen[p] = Named(receipt, 1, p)
    BY <2>1, <2>3 DEF RunBooked
  <2>5. Named(receipt', 1, p)
           = IF v = p THEN Named(receipt, 1, p) + 1 ELSE Named(receipt, 1, p)
    BY <2>1, <2>3, NamedAppend DEF PluginTypes
  <2>6. runOpen'[p] = Named(receipt', 1, p)
    BY <2>1, <2>3, <2>4, <2>5 DEF PluginTypes
  <2>7. RunBooked(p)'
    BY <2>1, <2>6 DEF RunBooked, Named
  <2>8. GenerationBooked(p)'
    BY <2>1, <2>3 DEF GenerationBooked, Named
  <2> QED  BY <2>7, <2>8
<1>2. CASE GenerationStarts
  <2> PICK v : v = Visited
    OBVIOUS
  <2>1. /\ stage = "generationStart" /\ stage' = "generationStart" /\ walk' = walk + 1
        /\ started' = Append(started, v) /\ receipt' = receipt
        /\ generationOpen' = [generationOpen EXCEPT ![v] = generationOpen[v] + 1]
        /\ runOpen' = runOpen
    BY <1>2 DEF GenerationStarts, Walking, Step
  <2>2. PluginTypes'
    <3>1. PluginTypes
      BY DEF PluginInv
    <3>2. IsReceipt(started')
      BY <2>1, <3>1, NamedAppend DEF PluginTypes
    <3>3. generationOpen' \in [Plugin -> Int]
      BY <2>1, <3>1, CountsType DEF PluginTypes
    <3> QED  BY <2>1, <3>1, <3>2, <3>3 DEF PluginTypes, ARun, IsReceipt
  <2> SUFFICES ASSUME NEW p \in Plugin
               PROVE  RunBooked(p)' /\ GenerationBooked(p)'
    BY <2>2 DEF PluginInv
  <2>3. RunBooked(p) /\ GenerationBooked(p) /\ PluginTypes
    BY DEF PluginInv
  <2>4. generationOpen[p] = Named(started, 1, p)
    BY <2>1, <2>3 DEF GenerationBooked
  <2>5. Named(started', 1, p)
           = IF v = p THEN Named(started, 1, p) + 1 ELSE Named(started, 1, p)
    BY <2>1, <2>3, NamedAppend DEF PluginTypes
  <2>6. generationOpen'[p] = Named(started', 1, p)
    BY <2>1, <2>3, <2>4, <2>5 DEF PluginTypes
  <2>7. RunBooked(p)'
    BY <2>1, <2>3 DEF RunBooked, Named
  <2>8. GenerationBooked(p)'
    BY <2>1, <2>6 DEF GenerationBooked, Named
  <2> QED  BY <2>7, <2>8
<1> QED  BY <1>1, <1>2

\* A hook that ended, and the end of the closing walk.
LEMMA PluginEnds ==
    ASSUME PluginInv, FinishPlugin \/ EndGeneration
    PROVE  PluginInv'
<1>0. PluginTypes
  BY DEF PluginInv
<1>1. CASE FinishPlugin
  <2>1. stage = "finish" /\ UNCHANGED <<receipt, started, generationOpen>>
    BY <1>1 DEF FinishPlugin
  <2>2. CASE walk > Len(receipt)
    <3>1. stage' = "over" /\ walk' = 1 /\ runOpen' = runOpen
      BY <1>1, <2>2 DEF FinishPlugin, GoTo, Participants
    <3>2. PluginTypes'
      BY <1>0, <2>1, <3>1 DEF PluginTypes, ARun
    <3>3. ASSUME NEW p \in Plugin
          PROVE  RunBooked(p)' /\ GenerationBooked(p)'
      <4>1. runOpen[p] = 0
        BY <1>0, <2>1, <2>2, NamedNowhere DEF PluginInv, RunBooked, PluginTypes
      <4> QED  BY <2>1, <3>1, <4>1 DEF PluginInv, RunBooked, GenerationBooked
    <3> QED  BY <3>2, <3>3 DEF PluginInv
  <2>3. CASE ~(walk > Len(receipt))
    <3> PICK v : v = receipt[walk]
      OBVIOUS
    <3>1. /\ stage' = "finish" /\ walk' = walk + 1
          /\ runOpen' = [runOpen EXCEPT ![v] = runOpen[v] - 1]
      BY <1>1, <2>3 DEF FinishPlugin, Step, Participants
    <3>2. PluginTypes'
      <4>1. runOpen' \in [Plugin -> Int]
        BY <1>0, <3>1, CountsType DEF PluginTypes
      <4> QED  BY <1>0, <2>1, <3>1, <4>1 DEF PluginTypes, ARun, IsReceipt
    <3>3. ASSUME NEW p \in Plugin
          PROVE  RunBooked(p)' /\ GenerationBooked(p)'
      <4>1. runOpen[p] = Named(receipt, walk, p)
        BY <2>1 DEF PluginInv, RunBooked
      <4>2. Len(receipt) \in Nat
        BY <1>0 DEF PluginTypes, IsReceipt
      <4>3. /\ Named(receipt, walk + 1, p) \in Nat
            /\ Named(receipt, walk, p) = IF v = p THEN Named(receipt, walk + 1, p) + 1
                                         ELSE Named(receipt, walk + 1, p)
        BY <1>0, <2>3, <4>2, NamedNext, NamedType DEF PluginTypes
      <4>4. runOpen'[p] = Named(receipt, walk + 1, p)
        BY <1>0, <3>1, <4>1, <4>3 DEF PluginTypes
      <4>5. RunBooked(p)'
        BY <2>1, <3>1, <4>4 DEF RunBooked, Named
      <4>6. GenerationBooked(p)'
        BY <2>1, <3>1 DEF PluginInv, GenerationBooked
      <4> QED  BY <4>5, <4>6
    <3> QED  BY <3>2, <3>3 DEF PluginInv
  <2> QED  BY <2>2, <2>3
<1>2. CASE EndGeneration
  <2>1. stage = "generationEnd" /\ UNCHANGED <<receipt, started, runOpen>>
    BY <1>2 DEF EndGeneration
  <2>2. CASE walk > Len(started)
    <3>1. stage' = "running" /\ walk' = 1 /\ generationOpen' = generationOpen
      BY <1>2, <2>2 DEF EndGeneration, GoTo, Participants
    <3>2. PluginTypes'
      BY <1>0, <2>1, <3>1 DEF PluginTypes, ARun
    <3>3. ASSUME NEW p \in Plugin
          PROVE  RunBooked(p)' /\ GenerationBooked(p)'
      <4>1. generationOpen[p] = 0
        BY <1>0, <2>1, <2>2, NamedNowhere DEF PluginInv, GenerationBooked, PluginTypes
      <4>2. RunBooked(p)'
        BY <2>1, <3>1 DEF PluginInv, RunBooked, Named
      <4> QED  BY <3>1, <4>1, <4>2 DEF GenerationBooked
    <3> QED  BY <3>2, <3>3 DEF PluginInv
  <2>3. CASE ~(walk > Len(started))
    <3> PICK v : v = started[walk]
      OBVIOUS
    <3>1. /\ stage' = "generationEnd" /\ walk' = walk + 1
          /\ generationOpen' = [generationOpen EXCEPT ![v] = generationOpen[v] - 1]
      BY <1>2, <2>3, <2>1 DEF EndGeneration, Step, Participants
    <3>2. PluginTypes'
      <4>1. generationOpen' \in [Plugin -> Int]
        BY <1>0, <3>1, CountsType DEF PluginTypes
      <4> QED  BY <1>0, <2>1, <3>1, <4>1 DEF PluginTypes, ARun, IsReceipt
    <3>3. ASSUME NEW p \in Plugin
          PROVE  RunBooked(p)' /\ GenerationBooked(p)'
      <4>1. generationOpen[p] = Named(started, walk, p)
        BY <2>1 DEF PluginInv, GenerationBooked
      <4>2. Len(started) \in Nat
        BY <1>0 DEF PluginTypes, IsReceipt
      <4>3. /\ Named(started, walk + 1, p) \in Nat
            /\ Named(started, walk, p) = IF v = p THEN Named(started, walk + 1, p) + 1
                                         ELSE Named(started, walk + 1, p)
        BY <1>0, <2>3, <4>2, NamedNext, NamedType DEF PluginTypes
      <4>4. generationOpen'[p] = Named(started, walk + 1, p)
        BY <1>0, <3>1, <4>1, <4>3 DEF PluginTypes
      <4>5. GenerationBooked(p)'
        BY <2>1, <3>1, <4>4 DEF GenerationBooked, Named
      <4>6. RunBooked(p)'
        BY <2>1, <3>1 DEF PluginInv, RunBooked, Named
      <4> QED  BY <4>5, <4>6
    <3> QED  BY <3>2, <3>3 DEF PluginInv
  <2> QED  BY <2>2, <2>3
<1> QED  BY <1>1, <1>2

\* A generation begins with an empty receipt of its own.
LEMMA PluginGeneration ==
    ASSUME PluginInv, BeginGeneration
    PROVE  PluginInv'
<1>1. /\ stage = "running" /\ stage' = "generationStart" /\ walk' = 1
      /\ started' = <<>> /\ UNCHANGED <<receipt, runOpen, generationOpen>>
  BY DEF BeginGeneration, GoTo
<1>2. IsReceipt(<<>>)
  <2>1. <<>> \in Seq({})
    OBVIOUS
  <2> QED  BY <2>1 DEF IsReceipt
<1>3. PluginTypes'
  BY <1>1, <1>2 DEF PluginInv, PluginTypes, ARun
<1>4. ASSUME NEW p \in Plugin
      PROVE  RunBooked(p)' /\ GenerationBooked(p)'
  <2>1. Named(<<>>, 1, p) = 0
    BY <1>2, NamedNowhere
  <2>2. RunBooked(p)'
    BY <1>1 DEF PluginInv, RunBooked, Named
  <2>3. GenerationBooked(p)'
    BY <1>1, <2>1 DEF PluginInv, GenerationBooked, Named
  <2> QED  BY <2>2, <2>3
<1> QED  BY <1>3, <1>4 DEF PluginInv

\* Every action keeps the books; the walks over the live list need nothing
\* of it, whatever hooks do to it.
LEMMA PluginStep ==
    ASSUME PluginInv, [PluginNext]_pluginVars
    PROVE  PluginInv'
<1>1. ASSUME NEW p, RegisterPlugin(p) \/ UnregisterPlugin(p) \/ SwitchPlugin(p)
                    \/ SetExecutionOrder(p)
      PROVE  PluginInv'
  BY <1>1, PluginMoves
     DEF RegisterPlugin, UnregisterPlugin, SwitchPlugin, SetExecutionOrder, Changes
<1>2. CASE SkipPlugin
  BY <1>2, PluginMoves DEF SkipPlugin, Walking
<1>3. CASE AttachFails
  BY <1>3, PluginMoves DEF AttachFails, Walking
<1>4. CASE StartRestore
  BY <1>4, PluginMoves DEF StartRestore
<1>5. CASE PrepareRestore
  BY <1>5, PluginMoves DEF PrepareRestore, Walking
<1>6. CASE InitFails
  BY <1>6, PluginMoves DEF InitFails, Walking
<1>7. CASE GenerationStartFails
  BY <1>7, PluginMoves DEF GenerationStartFails, Walking
<1>8. CASE WalkEnds
  BY <1>8, PluginMoves DEF WalkEnds
<1>9. CASE FinishRun
  BY <1>9, PluginMoves DEF FinishRun
<1>10. CASE UNCHANGED pluginVars
  BY <1>10, PluginMoves DEF pluginVars, bookVars
<1> QED
  BY <1>1, <1>2, <1>3, <1>4, <1>5, <1>6, <1>7, <1>8, <1>9, <1>10, PluginStarts, PluginEnds,
     PluginGeneration DEF PluginNext

\* For any plugins and any number of generations and changes: each start has
\* its end, however starts fail and hooks rearrange the list.
THEOREM LifecyclePairedThm == PluginSpec => []LifecyclePaired
<1>1. PluginInit => PluginInv
  <2> SUFFICES ASSUME PluginInit
               PROVE  PluginInv
    OBVIOUS
  <2>1. IsReceipt(<<>>)
    <3>1. <<>> \in Seq({})
      OBVIOUS
    <3> QED  BY <3>1 DEF IsReceipt
  <2>2. \A p \in Plugin : Named(<<>>, 1, p) = 0
    BY <2>1, NamedNowhere
  <2> QED
    BY <2>1, <2>2 DEF PluginInit, PluginInv, PluginTypes, RunBooked, GenerationBooked
<1>2. PluginInv /\ [PluginNext]_pluginVars => PluginInv'
  BY PluginStep
<1>3. PluginInv => LifecyclePaired
  <2> SUFFICES ASSUME PluginInv
               PROVE  LifecyclePaired
    OBVIOUS
  <2>1. PluginTypes
    BY DEF PluginInv
  <2>2. \A p \in Plugin :
           /\ Named(receipt, 1, p) \in Nat /\ Named(receipt, walk, p) \in Nat
           /\ Named(started, 1, p) \in Nat /\ Named(started, walk, p) \in Nat
    BY <2>1, NamedType DEF PluginTypes
  <2>3. \A p \in Plugin : runOpen[p] >= 0 /\ (stage = "over" => runOpen[p] = 0)
    BY <2>2 DEF PluginInv, RunBooked
  <2>4. \A p \in Plugin :
           /\ generationOpen[p] >= 0
           /\ stage # "generationStart" /\ stage # "generationEnd" => generationOpen[p] = 0
    BY <2>2 DEF PluginInv, GenerationBooked
  <2> QED  BY <2>3, <2>4 DEF LifecyclePaired
<1> QED  BY <1>1, <1>2, <1>3, PTL DEF PluginSpec

-----------------------------------------------------------------------------
(* PoolExecutor: the capacity of the pool.                                 *)

\* What is left of a queue is a queue of members of it.
LEMMA LiveOnlyKeeps ==
    ASSUME NEW q \in Seq(Task), NEW T
    PROVE  /\ LiveOnly(q, T) \in Seq(Task)
           /\ ToSet(LiveOnly(q, T)) \subseteq ToSet(q)
<1> DEFINE live == {i \in 1 .. Len(q) : IsLive(T, q[i])}
<1>1. IsFiniteSet(live) /\ live \subseteq Int /\ Cardinality(live) \in Nat
  <2>1. Len(q) \in Nat
    OBVIOUS
  <2>2. IsFiniteSet(1 .. Len(q))
    BY <2>1, FS_Interval
  <2>3. live \subseteq 1 .. Len(q)
    OBVIOUS
  <2> HIDE DEF live
  <2>4. IsFiniteSet(live)
    BY <2>2, <2>3, FS_Subset
  <2>5. \A i \in 1 .. Len(q) : i \in Int
    BY <2>1
  <2> QED BY <2>3, <2>4, <2>5, FS_CardinalityType
<1> DEFINE rank(i) == Cardinality({k \in live : k < i})
           pick(n) == CHOOSE i \in live : rank(i) = n - 1
           left == [n \in 1 .. Cardinality(live) |-> q[pick(n)]]
<1>2. LiveOnly(q, T) = left
  BY DEF LiveOnly
<1>3. \A i \in live : rank(i) = Cardinality(LessIn(live, i))
  BY DEF LessIn
<1> HIDE DEF rank
<1>4. \A n \in 1 .. Cardinality(live) : pick(n) \in live
  <2> SUFFICES ASSUME NEW n \in 1 .. Cardinality(live) PROVE pick(n) \in live
    OBVIOUS
  <2> HIDE DEF live
  <2>1. \E i \in live : rank(i) = n - 1
    BY <1>1, <1>3, RankTaken
  <2> QED BY <2>1
<1> HIDE DEF pick
<1>5. \A n \in 1 .. Cardinality(live) : q[pick(n)] \in Task /\ q[pick(n)] \in ToSet(q)
  BY <1>4 DEF ToSet
<1> HIDE DEF live
<1>6. left \in Seq(Task) /\ ToSet(left) \subseteq ToSet(q)
  BY <1>1, <1>5 DEF ToSet
<1> QED BY <1>2, <1>6

\* A sequence has at most as many different members as places.
LEMMA SeqRange ==
    ASSUME NEW S, NEW q \in Seq(S)
    PROVE  ToSet(q) \subseteq S /\ IsFiniteSet(ToSet(q)) /\ Cardinality(ToSet(q)) <= Len(q)
<1>1. Len(q) \in Nat /\ DOMAIN q = 1 .. Len(q) /\ ToSet(q) = {q[i] : i \in 1 .. Len(q)}
  BY DEF ToSet
<1>2. ToSet(q) \subseteq S
  BY <1>1
<1> DEFINE f == [i \in 1 .. Len(q) |-> q[i]]
<1>3. f \in Surjection(1 .. Len(q), ToSet(q))
  BY <1>1 DEF Surjection
<1> HIDE DEF f
<1>4. IsFiniteSet(1 .. Len(q)) /\ Cardinality(1 .. Len(q)) = Len(q)
  BY <1>1, FS_Interval
<1> QED BY <1>2, <1>3, <1>4, FS_Surjection

TasksOf(v) == {t \in Task : ViewOf[t] = v}

\* The tasks that are started are in the queue and fill at most the free slots.
LEMMA NextFits ==
    ASSUME NEW v, NEW s, NEW T, s.pending \in Seq(Task), Free(v, s) \in Nat
    PROVE  /\ NextToRun(v, s, T) \subseteq ToSet(s.pending)
           /\ IsFiniteSet(NextToRun(v, s, T))
           /\ Cardinality(NextToRun(v, s, T)) <= Free(v, s)
<1> DEFINE q == LiveOnly(s.pending, T)
           m == Min({Free(v, s), Len(q)})
<1>1. q \in Seq(Task) /\ ToSet(q) \subseteq ToSet(s.pending)
  BY LiveOnlyKeeps
<1>2. NextToRun(v, s, T) = ToSet(SubSeq(q, 1, m))
  BY DEF NextToRun
<1> HIDE DEF q
<1>3. Len(q) \in Nat
  BY <1>1
<1>4. m \in Nat /\ m <= Free(v, s) /\ m <= Len(q)
  <2>1. CASE Free(v, s) <= Len(q)
    <3>1. Free(v, s) \in {Free(v, s), Len(q)}
          /\ \A y \in {Free(v, s), Len(q)} : Free(v, s) <= y
      BY <1>3, <2>1
    <3> QED BY <1>3, <3>1 DEF Min
  <2>2. CASE Len(q) <= Free(v, s)
    <3>1. Len(q) \in {Free(v, s), Len(q)} /\ \A y \in {Free(v, s), Len(q)} : Len(q) <= y
      BY <1>3, <2>2
    <3> QED BY <1>3, <3>1 DEF Min
  <2> QED BY <1>3, <2>1, <2>2
<1> HIDE DEF m
<1>5. /\ SubSeq(q, 1, m) \in Seq(Task) /\ Len(SubSeq(q, 1, m)) = m
      /\ \A i \in 1 .. m : SubSeq(q, 1, m)[i] = q[i] /\ i \in DOMAIN q
  BY <1>1, <1>3, <1>4
<1>6. ToSet(SubSeq(q, 1, m)) \subseteq ToSet(q)
  BY <1>5 DEF ToSet
<1>7. IsFiniteSet(ToSet(SubSeq(q, 1, m))) /\ Cardinality(ToSet(SubSeq(q, 1, m))) <= m
  BY <1>5, SeqRange
<1>8. Cardinality(ToSet(SubSeq(q, 1, m))) \in Nat
  BY <1>7, FS_CardinalityType
<1> QED BY <1>1, <1>2, <1>4, <1>6, <1>7, <1>8

\* What stays in the queue was in it.
LEMMA LeftWasPending ==
    ASSUME NEW v, NEW s, NEW T, s.pending \in Seq(Task), Free(v, s) \in Nat, Free(v, s) > 0
    PROVE  /\ LeftPending(v, s, T) \in Seq(Task)
           /\ ToSet(LeftPending(v, s, T)) \subseteq ToSet(s.pending)
<1> DEFINE go == NextToRun(v, s, T)
           at == {i \in 1 .. Len(s.pending) : s.pending[i] \in go}
<1>1. Len(s.pending) \in Nat
  OBVIOUS
<1>2. CASE Cardinality(go) < Free(v, s)
  <2>1. LeftPending(v, s, T) = <<>>
    BY <1>2 DEF LeftPending
  <2> QED BY <2>1 DEF ToSet
<1>3. CASE ~(Cardinality(go) < Free(v, s))
  <2>1. LeftPending(v, s, T) = SubSeq(s.pending, Max(at) + 1, Len(s.pending))
    BY <1>3 DEF LeftPending
  <2>2. go # {} /\ go \subseteq ToSet(s.pending)
    BY <1>3, NextFits, FS_EmptySet
  <2> HIDE DEF go
  <2>3. at # {}
    BY <2>2 DEF ToSet
  <2>4. at \subseteq 1 .. Len(s.pending) /\ IsFiniteSet(1 .. Len(s.pending))
    <3>1. IsFiniteSet(1 .. Len(s.pending))
      BY <1>1, FS_Interval
    <3> QED BY <3>1
  <2> HIDE DEF at
  <2>5. IsFiniteSet(at)
    BY <2>4, FS_Subset
  <2>6. \A i \in at : i \in Int /\ 1 <= i /\ i <= Len(s.pending)
    BY <1>1, <2>4
  <2>7. PICK M \in at : \A i \in at : i <= M
    BY <2>3, <2>5, <2>6, LargestExists
  <2>8. \A i \in at : M >= i
    BY <2>6, <2>7
  <2>9. Max(at) \in at
    BY <2>7, <2>8 DEF Max
  <2>10. Max(at) \in Nat
    BY <2>6, <2>9
  <2> DEFINE m == Max(at)
  <2> HIDE DEF m
  <2>11. m \in Nat
    BY <2>10 DEF m
  <2> DEFINE rest == SubSeq(s.pending, m + 1, Len(s.pending))
  <2>12. rest \in Seq(Task)
    BY <1>1, <2>11
  <2>13. \A i \in DOMAIN rest : rest[i] = s.pending[m + i] /\ m + i \in DOMAIN s.pending
    BY <1>1, <2>11
  <2>14. ToSet(rest) \subseteq ToSet(s.pending)
    <3> HIDE DEF rest
    <3> QED BY <2>13 DEF ToSet
  <2> QED BY <2>1, <2>12, <2>14 DEF m
<1> QED BY <1>2, <1>3

-----------------------------------------------------------------------------

ViewRecord == [entered : BOOLEAN, closed : BOOLEAN, reserved : BOOLEAN,
               pending : Seq(Task), inflight : SUBSET Task, all : SUBSET Task]
TaskTable == [Task -> [outer : OuterStates, ptask : PoolTaskStates, under : UnderStates]]

\* A view s and the futures T of its tasks agree: what is in flight is what the
\* thread pool has of this view, it fits, and the view holds its capacity for it.
ViewBook(v, s, T) ==
    /\ s \in ViewRecord
    /\ ToSet(s.pending) \subseteq TasksOf(v)
    /\ s.inflight = {t \in TasksOf(v) : T[t].under \in InUse}
    /\ Cardinality(s.inflight) <= Count[v]
    /\ s.inflight # {} => s.reserved
    /\ s.reserved => s.entered

\* Launching keeps the books of the view and touches no other one.
LEMMA LaunchKeepsBook ==
    ASSUME NEW v \in View, NEW s, NEW T \in TaskTable, ViewBook(v, s, T),
           shutdown \in BOOLEAN
    PROVE  /\ ViewBook(v, LaunchedView(v, s, T), LaunchedTasks(v, s, T))
           /\ LaunchedTasks(v, s, T) \in TaskTable
           /\ \A t \in Task \ TasksOf(v) : LaunchedTasks(v, s, T)[t] = T[t]
           /\ LaunchedView(v, s, T).entered = s.entered
           /\ LaunchedView(v, s, T).reserved = s.reserved
           /\ Wedges(v, s, T) => s.reserved /\ LaunchedView(v, s, T).inflight = {}
<1> DEFINE s1 == LaunchedView(v, s, T)
           T1 == LaunchedTasks(v, s, T)
           go == NextToRun(v, s, T)
<1>1. /\ s \in ViewRecord /\ s.pending \in Seq(Task) /\ s.inflight \subseteq Task
      /\ IsFiniteSet(s.inflight) /\ Cardinality(s.inflight) \in Nat
      /\ Count[v] \in Nat /\ Free(v, s) \in Nat
      /\ Free(v, s) = Count[v] - Cardinality(s.inflight)
  <2>1. s \in ViewRecord /\ s.pending \in Seq(Task) /\ s.inflight \subseteq Task
    BY DEF ViewBook, ViewRecord
  <2>2. IsFiniteSet(s.inflight) /\ Cardinality(s.inflight) \in Nat
    BY <2>1, PoolConstants, FS_Subset, FS_CardinalityType
  <2>3. Count[v] \in Nat
    BY PoolConstants
  <2> QED BY <2>1, <2>2, <2>3 DEF ViewBook, Free
<1>2. \A t \in Task : /\ T[t] \in [outer : OuterStates, ptask : PoolTaskStates, under : UnderStates]
                      /\ [T[t] EXCEPT !.outer = "done"].under = T[t].under
                      /\ [T[t] EXCEPT !.under = "queued"].under = "queued"
  BY DEF TaskTable
<1>3. CASE ~Launching(v, s)
  <2>1. s1 = s /\ \A t \in Task : T1[t] = T[t]
    BY <1>3 DEF LaunchedView, LaunchedTasks
  <2>2. T1 \in TaskTable
    BY <1>2, <1>3 DEF LaunchedTasks, TaskTable
  <2>3. ViewBook(v, s1, T1)
    BY <2>1 DEF ViewBook, TasksOf
  <2> QED BY <1>3, <2>1, <2>2, <2>3 DEF Wedges
<1>4. CASE Launching(v, s) /\ shutdown
  <2>1. s1 = [s EXCEPT !.pending = <<>>, !.all = @ \ ToSet(s.pending)]
    BY <1>4 DEF LaunchedView
  <2>2. /\ s1 \in ViewRecord /\ s1.pending = <<>> /\ s1.inflight = s.inflight
        /\ s1.reserved = s.reserved /\ s1.entered = s.entered
    <3> DEFINE rest == s.all \ ToSet(s.pending)
    <3>1. rest \subseteq Task
      BY <1>1 DEF ViewRecord
    <3>2. s1 = [s EXCEPT !.pending = <<>>, !.all = rest]
      BY <2>1
    <3> HIDE DEF rest, s1
    <3>3. <<>> \in Seq(Task)
      OBVIOUS
    <3> QED BY <1>1, <3>1, <3>2, <3>3 DEF ViewRecord
  <2>3. \A t \in Task : T1[t] = IF t \in ToSet(s.pending) /\ IsLive(T, t)
                                THEN [T[t] EXCEPT !.outer = "done"] ELSE T[t]
    BY <1>4 DEF LaunchedTasks
  <2>4. \A t \in Task : T1[t].under = T[t].under
    BY <1>2, <2>3
  <2>5. T1 \in TaskTable
    <3>1. T1 = [t \in Task |-> T1[t]]
      BY DEF LaunchedTasks
    <3>2. \A t \in Task :
             T1[t] \in [outer : OuterStates, ptask : PoolTaskStates, under : UnderStates]
      BY <1>2, <2>3 DEF OuterStates
    <3> HIDE DEF T1
    <3> QED BY <3>1, <3>2 DEF TaskTable
  <2>6. \A t \in Task \ TasksOf(v) : T1[t] = T[t]
    BY <2>3 DEF ViewBook
  <2>7. ViewBook(v, s1, T1)
    <3>1. ToSet(s1.pending) \subseteq TasksOf(v)
      BY <2>2 DEF ToSet
    <3> HIDE DEF s1, T1
    <3> QED BY <2>2, <2>4, <3>1 DEF ViewBook, TasksOf
  <2>8. Wedges(v, s, T) => s.reserved /\ s1.inflight = {}
    BY <2>2, <1>4 DEF Wedges, Launching
  <2> QED BY <2>2, <2>5, <2>6, <2>7, <2>8
<1>5. CASE Launching(v, s) /\ ~shutdown
  <2>1. s1 = [s EXCEPT !.pending = LeftPending(v, s, T), !.inflight = @ \cup go]
    BY <1>5 DEF LaunchedView
  <2>2. Free(v, s) > 0 /\ s.reserved
    BY <1>5 DEF Launching
  <2>3. go \subseteq TasksOf(v) /\ IsFiniteSet(go) /\ Cardinality(go) <= Free(v, s)
    BY <1>1, NextFits DEF ViewBook
  <2>4. LeftPending(v, s, T) \in Seq(Task) /\ ToSet(LeftPending(v, s, T)) \subseteq TasksOf(v)
    BY <1>1, <2>2, LeftWasPending DEF ViewBook
  <2>5. \A t \in Task : T1[t] = IF t \in go THEN [T[t] EXCEPT !.under = "queued"] ELSE T[t]
    BY <1>5 DEF LaunchedTasks
  <2> DEFINE left == LeftPending(v, s, T)
  <2> HIDE DEF go, left
  <2>6. /\ s1 \in ViewRecord /\ s1.pending = left /\ s1.inflight = s.inflight \cup go
        /\ s1.reserved = s.reserved /\ s1.entered = s.entered
    <3>1. go \subseteq Task
      BY <2>3 DEF TasksOf
    <3>2. s1 = [s EXCEPT !.pending = left, !.inflight = @ \cup go]
      BY <2>1 DEF left
    <3>3. left \in Seq(Task)
      BY <2>4 DEF left
    <3> HIDE DEF s1
    <3> QED BY <1>1, <3>1, <3>2, <3>3 DEF ViewRecord
  <2>7. T1 \in TaskTable
    <3>1. T1 = [t \in Task |-> T1[t]]
      BY DEF LaunchedTasks
    <3>2. \A t \in Task :
             T1[t] \in [outer : OuterStates, ptask : PoolTaskStates, under : UnderStates]
      BY <1>2, <2>5 DEF UnderStates
    <3> HIDE DEF T1
    <3> QED BY <3>1, <3>2 DEF TaskTable
  <2>8. \A t \in Task \ TasksOf(v) : T1[t] = T[t]
    BY <2>3, <2>5
  <2>9. s1.inflight = {t \in TasksOf(v) : T1[t].under \in InUse}
    <3>1. \A t \in Task : T1[t].under = IF t \in go THEN "queued" ELSE T[t].under
      BY <1>2, <2>5
    <3>2. s.inflight = {t \in TasksOf(v) : T[t].under \in InUse}
      BY DEF ViewBook
    <3>3. "queued" \in InUse
      BY DEF InUse
    <3> HIDE DEF s1, T1
    <3> QED BY <2>3, <2>6, <3>1, <3>2, <3>3 DEF TasksOf
  <2>10. Cardinality(s1.inflight) <= Count[v]
    <3>1. /\ IsFiniteSet(s.inflight \cap go) /\ IsFiniteSet(s.inflight \cup go)
          /\ Cardinality(s.inflight \cup go)
                = Cardinality(s.inflight) + Cardinality(go) - Cardinality(s.inflight \cap go)
      BY <1>1, <2>3, FS_Union, FS_Intersection
    <3>2. Cardinality(s.inflight \cap go) \in Nat /\ Cardinality(go) \in Nat
      BY <2>3, <3>1, FS_CardinalityType
    <3>3. s1.inflight = s.inflight \cup go
      BY <2>6
    <3> HIDE DEF s1
    <3> QED BY <1>1, <2>3, <3>1, <3>2, <3>3
  <2>11. ToSet(s1.pending) \subseteq TasksOf(v)
    BY <2>4, <2>6 DEF left
  <2>12. ViewBook(v, s1, T1)
    <3> HIDE DEF s1, T1
    <3>1. s.reserved => s.entered
      BY DEF ViewBook
    <3> QED BY <2>2, <2>6, <2>9, <2>10, <2>11, <3>1 DEF ViewBook
  <2>13. ~Wedges(v, s, T)
    BY <1>5 DEF Wedges
  <2> QED BY <2>6, <2>7, <2>8, <2>12, <2>13
<1> QED BY <1>3, <1>4, <1>5

-----------------------------------------------------------------------------

CapacityBooked(a, H, D) ==
    /\ a \in Nat
    /\ a + SumFunctionOnSet(Count, H) + SumFunctionOnSet(Permits, D) = Total

\* What is taken from the pool and put back is the share of one view or of one
\* direct task; the clamp of _release_capacity never acts.
LEMMA BookedMoves ==
    ASSUME NEW a, NEW H \in SUBSET View, NEW D \in SUBSET Direct, CapacityBooked(a, H, D)
    PROVE  /\ a \in 0 .. Total
           /\ \A v \in View \ H : a >= Count[v] => CapacityBooked(a - Count[v], H \cup {v}, D)
           /\ \A v \in H : /\ Min({Total, a + Count[v]}) = a + Count[v]
                           /\ CapacityBooked(a + Count[v], H \ {v}, D)
           /\ \A d \in Direct \ D : a >= Permits[d] => CapacityBooked(a - Permits[d], H, D \cup {d})
           /\ \A d \in D : /\ Min({Total, a + Permits[d]}) = a + Permits[d]
                           /\ CapacityBooked(a + Permits[d], H, D \ {d})
<1>1. /\ Total \in Nat /\ IsFiniteSet(View) /\ IsFiniteSet(Direct)
      /\ \A v \in View : Count[v] \in Nat /\ Count[v] \in Int
      /\ \A d \in Direct : Permits[d] \in Nat /\ Permits[d] \in Int
  BY PoolConstants
<1>2. ASSUME NEW S \in SUBSET View PROVE SumFunctionOnSet(Count, S) \in Nat
  BY <1>1, SumType, FS_Subset
<1>3. ASSUME NEW S \in SUBSET Direct PROVE SumFunctionOnSet(Permits, S) \in Nat
  BY <1>1, SumType, FS_Subset
<1>4. ASSUME NEW S \in SUBSET View, NEW v \in S
      PROVE  SumFunctionOnSet(Count, S) = Count[v] + SumFunctionOnSet(Count, S \ {v})
  <2>1. IsFiniteSet(S) /\ \A x \in S : Count[x] \in Int
    BY <1>1, FS_Subset
  <2> QED BY <2>1, SumRemove
<1>5. ASSUME NEW S \in SUBSET Direct, NEW d \in S
      PROVE  SumFunctionOnSet(Permits, S) = Permits[d] + SumFunctionOnSet(Permits, S \ {d})
  <2>1. IsFiniteSet(S) /\ \A x \in S : Permits[x] \in Int
    BY <1>1, FS_Subset
  <2> QED BY <2>1, SumRemove
<1>6. ASSUME NEW x \in Nat, x <= Total PROVE Min({Total, x}) = x
  <2>1. x \in {Total, x} /\ \A y \in {Total, x} : x <= y
    BY <1>1, <1>6
  <2>2. \A z \in {Total, x} : (\A y \in {Total, x} : z <= y) => z = x
    BY <1>1, <1>6
  <2> QED BY <2>1, <2>2 DEF Min
<1> DEFINE c(S) == SumFunctionOnSet(Count, S)
           p(S) == SumFunctionOnSet(Permits, S)
<1>7. a \in Nat /\ c(H) \in Nat /\ p(D) \in Nat /\ a + c(H) + p(D) = Total
  BY <1>2, <1>3 DEF CapacityBooked
<1>8. a \in 0 .. Total
  BY <1>1, <1>7
<1>9. ASSUME NEW v \in View \ H, a >= Count[v]
      PROVE  CapacityBooked(a - Count[v], H \cup {v}, D)
  <2>1. (H \cup {v}) \ {v} = H /\ H \cup {v} \in SUBSET View
    OBVIOUS
  <2>2. c(H \cup {v}) = Count[v] + c(H)
    BY <1>4, <2>1
  <2> QED BY <1>1, <1>7, <1>9, <2>2 DEF CapacityBooked
<1>10. ASSUME NEW v \in H
       PROVE  /\ Min({Total, a + Count[v]}) = a + Count[v]
              /\ CapacityBooked(a + Count[v], H \ {v}, D)
  <2>1. c(H) = Count[v] + c(H \ {v}) /\ c(H \ {v}) \in Nat /\ Count[v] \in Nat
    BY <1>1, <1>2, <1>4
  <2>2. a + Count[v] \in Nat /\ a + Count[v] <= Total
    BY <1>1, <1>7, <2>1
  <2>3. Min({Total, a + Count[v]}) = a + Count[v]
    BY <1>6, <2>2
  <2> QED BY <1>7, <2>1, <2>2, <2>3 DEF CapacityBooked
<1>11. ASSUME NEW d \in Direct \ D, a >= Permits[d]
       PROVE  CapacityBooked(a - Permits[d], H, D \cup {d})
  <2>1. (D \cup {d}) \ {d} = D /\ D \cup {d} \in SUBSET Direct
    OBVIOUS
  <2>2. p(D \cup {d}) = Permits[d] + p(D)
    BY <1>5, <2>1
  <2> QED BY <1>1, <1>7, <1>11, <2>2 DEF CapacityBooked
<1>12. ASSUME NEW d \in D
       PROVE  /\ Min({Total, a + Permits[d]}) = a + Permits[d]
              /\ CapacityBooked(a + Permits[d], H, D \ {d})
  <2>1. p(D) = Permits[d] + p(D \ {d}) /\ p(D \ {d}) \in Nat /\ Permits[d] \in Nat
    BY <1>1, <1>3, <1>5
  <2>2. a + Permits[d] \in Nat /\ a + Permits[d] <= Total
    BY <1>1, <1>7, <2>1
  <2>3. Min({Total, a + Permits[d]}) = a + Permits[d]
    BY <1>6, <2>2
  <2> QED BY <1>7, <2>1, <2>2, <2>3 DEF CapacityBooked
<1> HIDE DEF c, p
<1> QED BY <1>8, <1>9, <1>10, <1>11, <1>12

Holders == {v \in View : Holding(v)}
Held == {d \in Direct : direct[d].held}

\* A view is entered once, after the capacity was taken; a launch that waits for
\* the lock it holds is one of an entered view.
EntrySane ==
    /\ wedged \in View \cup {NoView}
    /\ \A v \in View : /\ poolCall[v].pc \in {"out", "admitted"} => ~views[v].entered
                       /\ wedged = v => views[v].entered

\* The books of all views.
ViewBooks ==
    /\ views \in [View -> ViewRecord] /\ tasks \in TaskTable
    /\ \A v \in View : ViewBook(v, views[v], tasks)

\* Whoever shuts a view down knows which one.
CallRecord == [pc : PoolPhases, view : View \cup {NoView}, wait : BOOLEAN,
               pend : SUBSET Task, live : SUBSET (Task \cup Direct),
               watch : SUBSET Task, views : SUBSET View]
CallSane ==
    /\ poolCall \in [Thread -> CallRecord]
    /\ \A th \in Thread : poolCall[th].pc \in {"cancel", "wait", "drain"} => poolCall[th].view \in View

\* A direct task holds its permits from admission until it was cancelled before
\* a thread took it, or ended; one that was told not to run does not run.
DirectRecord == [pc : DirectPhases, ptask : PoolTaskStates, under : UnderStates, held : BOOLEAN]
DirectSane(s) ==
    /\ s \in DirectRecord
    /\ s.pc = "out" => ~s.held
    /\ s.pc = "admitted" => s.held
    /\ s.pc \in {"out", "admitted"} => s.under = "none"
    /\ s.pc = "cancelling" => s.ptask = "cancelled"
    /\ s.under = "running" => s.ptask = "started"
    /\ s.under \in {"queued", "running"} => s.held
DirectBooks ==
    /\ direct \in [Direct -> DirectRecord]
    /\ \A d \in Direct : DirectSane(direct[d])

CapacityInv ==
    /\ shutdown \in BOOLEAN
    /\ CapacityBooked(available, Holders, Held)
    /\ EntrySane /\ ViewBooks /\ CallSane /\ DirectBooks

\* Who still holds capacity in each step: the same views and direct tasks.
SameHolds ==
    /\ \A u \in View : poolCall'[u].pc = "admitted" <=> poolCall[u].pc = "admitted"
    /\ \A d \in Direct : direct'[d].held = direct[d].held

\* The books of the other views do not move with those of one view.
LEMMA OtherBooks ==
    ASSUME ViewBooks, NEW v \in View, NEW s, ViewBook(v, s, tasks'), tasks' \in TaskTable,
           \A t \in Task \ TasksOf(v) : tasks'[t].under = tasks[t].under,
           views' = [views EXCEPT ![v] = s], s.entered = views[v].entered
    PROVE  /\ ViewBooks'
           /\ views'[v] = s /\ \A u \in View \ {v} : views'[u] = views[u]
           /\ \A u \in View : views'[u].entered = views[u].entered
<1>1. views'[v] = s /\ \A u \in View \ {v} : views'[u] = views[u]
  BY DEF ViewBooks
<1>2. views' \in [View -> ViewRecord]
  BY DEF ViewBooks, ViewBook
<1>3. ASSUME NEW u \in View \ {v} PROVE ViewBook(u, views'[u], tasks')
  <2>1. \A t \in TasksOf(u) : tasks'[t].under = tasks[t].under
    BY <1>3 DEF TasksOf
  <2>2. ViewBook(u, views[u], tasks)
    BY DEF ViewBooks
  <2> QED BY <1>1, <2>1, <2>2 DEF ViewBook
<1>4. ViewBooks'
  BY <1>1, <1>2, <1>3 DEF ViewBooks
<1> QED BY <1>1, <1>4

\* Releasing an idle view puts its share back, once.
LEMMA SettleKeepsBooks ==
    ASSUME CapacityBooked(available, Holders, Held), EntrySane, ViewBooks,
           NEW v \in View, NEW s, ViewBook(v, s, tasks'), tasks' \in TaskTable,
           \A t \in Task \ TasksOf(v) : tasks'[t].under = tasks[t].under,
           s.entered = views[v].entered, s.reserved = views[v].reserved,
           PoolLockFree, SettleFuture(v, s), wedged' = wedged, SameHolds
    PROVE  /\ CapacityBooked(available', Holders', Held')
           /\ ViewBooks' /\ \A u \in View : views'[u].entered = views[u].entered
<1>1. NoView \notin View /\ wedged = NoView /\ wedged' = NoView
  BY PoolConstants DEF PoolLockFree
<1>2. Holders \in SUBSET View /\ Held \in SUBSET Direct /\ Held' = Held
  BY DEF Holders, Held, SameHolds
<1>3. \A u \in View : /\ u \in Holders <=> views[u].reserved \/ poolCall[u].pc = "admitted"
                      /\ u \in Holders' <=> views'[u].reserved \/ poolCall[u].pc = "admitted"
  BY <1>1 DEF Holders, Holding, SameHolds
<1>4. CASE Idle(s)
  <2> DEFINE r == [s EXCEPT !.reserved = FALSE]
  <2>1. views' = [views EXCEPT ![v] = r] /\ available' = Min({Total, available + Count[v]})
    BY <1>4 DEF SettleFuture
  <2>2. /\ r \in ViewRecord /\ r.entered = s.entered /\ r.reserved = FALSE
        /\ r.pending = s.pending /\ r.inflight = s.inflight
    BY DEF ViewBook, ViewRecord
  <2>3. s.reserved /\ s.inflight = {}
    BY <1>4 DEF Idle
  <2> HIDE DEF r
  <2>4. ViewBook(v, r, tasks')
    BY <2>2, <2>3 DEF ViewBook
  <2>5. /\ ViewBooks' /\ views'[v] = r /\ \A u \in View \ {v} : views'[u] = views[u]
        /\ \A u \in View : views'[u].entered = views[u].entered
    BY <2>1, <2>2, <2>4, OtherBooks
  <2>6. poolCall[v].pc # "admitted" /\ v \in Holders
    BY <1>3, <2>3 DEF EntrySane, ViewBook
  <2>7. Holders' = Holders \ {v}
    <3>1. Holders' \subseteq View
      BY DEF Holders
    <3> QED BY <1>2, <1>3, <2>2, <2>5, <2>6, <3>1
  <2>8. CapacityBooked(available', Holders', Held')
    <3>1. /\ CapacityBooked(available + Count[v], Holders \ {v}, Held)
          /\ Min({Total, available + Count[v]}) = available + Count[v]
      BY <1>2, <2>6, BookedMoves
    <3> QED BY <1>2, <2>1, <2>7, <3>1
  <2> QED BY <2>5, <2>8
<1>5. CASE ~Idle(s)
  <2>1. views' = [views EXCEPT ![v] = s] /\ available' = available
    BY <1>5 DEF SettleFuture
  <2>2. /\ ViewBooks' /\ views'[v] = s /\ \A u \in View \ {v} : views'[u] = views[u]
        /\ \A u \in View : views'[u].entered = views[u].entered
    BY <2>1, OtherBooks
  <2>3. Holders' = Holders
    <3>1. Holders' \subseteq View
      BY DEF Holders
    <3> QED BY <1>2, <1>3, <2>2, <3>1
  <2> QED BY <1>2, <2>1, <2>2, <2>3
<1> QED BY <1>4, <1>5

\* The same of a launch and the release after it, or of a launch that stops on
\* the lock: then the view keeps its share for ever.
LEMMA LaunchAndSettleKeepsBooks ==
    ASSUME shutdown \in BOOLEAN,
           CapacityBooked(available, Holders, Held), EntrySane, ViewBooks,
           NEW v \in View, NEW s, NEW T, T \in TaskTable, ViewBook(v, s, T),
           \A t \in Task \ TasksOf(v) : T[t].under = tasks[t].under,
           s.entered = views[v].entered, s.reserved = views[v].reserved,
           PoolLockFree, LaunchAndSettle(v, s, T), SameHolds
    PROVE  /\ CapacityBooked(available', Holders', Held')
           /\ ViewBooks' /\ \A u \in View : views'[u].entered = views[u].entered
           /\ wedged' \in View \cup {NoView}
           /\ \A u \in View : wedged' = u => views[u].entered
<1> DEFINE s1 == LaunchedView(v, s, T)
<1>1. /\ ViewBook(v, s1, tasks') /\ tasks' \in TaskTable
      /\ \A t \in Task \ TasksOf(v) : tasks'[t].under = tasks[t].under
      /\ s1.entered = views[v].entered /\ s1.reserved = views[v].reserved
      /\ Wedges(v, s, T) => s.reserved /\ s1.inflight = {}
  BY LaunchKeepsBook DEF LaunchAndSettle
<1>0. NoView \notin View /\ wedged = NoView
  BY PoolConstants DEF PoolLockFree
<1>2. CASE ~Wedges(v, s, T)
  <2>1. SettleFuture(v, s1) /\ wedged' = wedged
    BY <1>2 DEF LaunchAndSettle
  <2> HIDE DEF s1
  <2> QED BY <1>0, <1>1, <2>1, SettleKeepsBooks
<1>3. CASE Wedges(v, s, T)
  <2> DEFINE r == [s1 EXCEPT !.reserved = FALSE]
  <2>1. views' = [views EXCEPT ![v] = r] /\ wedged' = v /\ available' = available
    BY <1>3 DEF LaunchAndSettle
  <2> HIDE DEF s1
  <2>2. /\ r \in ViewRecord /\ r.entered = s1.entered /\ r.reserved = FALSE
        /\ r.pending = s1.pending /\ r.inflight = s1.inflight
    BY <1>1 DEF ViewBook, ViewRecord
  <2>3. s.reserved /\ s1.inflight = {} /\ views[v].reserved /\ views[v].entered
    BY <1>1, <1>3 DEF ViewBook
  <2> HIDE DEF r
  <2>4. ViewBook(v, r, tasks')
    BY <1>1, <2>2, <2>3 DEF ViewBook
  <2>5. /\ ViewBooks' /\ views'[v] = r /\ \A u \in View \ {v} : views'[u] = views[u]
        /\ \A u \in View : views'[u].entered = views[u].entered
    BY <1>1, <2>1, <2>2, <2>4, OtherBooks
  <2>6. Holders' = Holders
    <3>1. \A u \in View \ {v} : Holding(u)' <=> Holding(u)
      BY <1>0, <2>1, <2>5 DEF Holding, SameHolds
    <3>2. Holding(v)
      BY <2>3 DEF Holding
    <3>3. Holding(v)'
      BY <2>1 DEF Holding
    <3> QED BY <3>1, <3>2, <3>3 DEF Holders
  <2>7. Held' = Held
    BY DEF Held, SameHolds
  <2> QED BY <2>1, <2>3, <2>5, <2>6, <2>7
<1> QED BY <1>2, <1>3

-----------------------------------------------------------------------------

TaskRecord == [outer : OuterStates, ptask : PoolTaskStates, under : UnderStates]

\* Cancelling a pending future touches nothing the thread pool has.
LEMMA CancelOuterKeeps ==
    ASSUME NEW T \in TaskTable, NEW t \in Task
    PROVE  CancelOuter(T, t) \in TaskTable /\ \A x \in Task : CancelOuter(T, t)[x].under = T[x].under
<1>1. PICK r : r = [T[t] EXCEPT !.outer = "cancelled"]
  OBVIOUS
<1>2. r \in TaskRecord /\ r.under = T[t].under
  BY <1>1 DEF TaskTable, TaskRecord, OuterStates
<1>3. CancelOuter(T, t) = IF T[t].outer = "pending" THEN [T EXCEPT ![t] = r] ELSE T
  BY <1>1 DEF CancelOuter
<1> QED BY <1>2, <1>3 DEF TaskTable, TaskRecord

\* ... and in its view only the set of futures.
LEMMA DiscardKeeps ==
    ASSUME NEW s \in ViewRecord, NEW T, NEW t
    PROVE  /\ Discard(s, T, t) \in ViewRecord
           /\ Discard(s, T, t).entered = s.entered /\ Discard(s, T, t).reserved = s.reserved
           /\ Discard(s, T, t).pending = s.pending /\ Discard(s, T, t).inflight = s.inflight
  BY DEF Discard, ViewRecord

\* A step that neither starts nor ends anything in the thread pool and takes
\* nothing from it keeps the books.
LEMMA QuietStep ==
    ASSUME CapacityBooked(available, Holders, Held), ViewBooks,
           tasks' \in TaskTable, views' \in [View -> ViewRecord],
           \A t \in Task : tasks'[t].under \in InUse <=> tasks[t].under \in InUse,
           \A u \in View : /\ views'[u].entered = views[u].entered
                           /\ views'[u].reserved = views[u].reserved
                           /\ views'[u].inflight = views[u].inflight
                           /\ ToSet(views'[u].pending) \subseteq ToSet(views[u].pending),
           available' = available, wedged' = wedged, SameHolds
    PROVE  CapacityBooked(available', Holders', Held') /\ ViewBooks'
<1>1. Holders' = Holders
  <2>1. \A u \in View : Holding(u)' <=> Holding(u)
    BY DEF Holding, SameHolds
  <2> QED BY <2>1 DEF Holders
<1>2. Held' = Held
  BY DEF Held, SameHolds
<1>3. ASSUME NEW u \in View PROVE ViewBook(u, views'[u], tasks')
  <2>1. ViewBook(u, views[u], tasks)
    BY DEF ViewBooks
  <2>2. views'[u] \in ViewRecord
    OBVIOUS
  <2> QED BY <2>1, <2>2 DEF ViewBook, TasksOf
<1>4. ViewBooks'
  BY <1>3 DEF ViewBooks
<1> QED BY <1>1, <1>2, <1>4

\* Nobody enters a view in this step.
LEMMA EntryKept ==
    ASSUME EntrySane, \A u \in View : views'[u].entered = views[u].entered,
           wedged' \in View \cup {NoView}, \A u \in View : wedged' = u => views[u].entered,
           \A u \in View : poolCall'[u].pc \in {"out", "admitted"} =>
                              poolCall[u].pc \in {"out", "admitted"}
    PROVE  EntrySane'
  BY DEF EntrySane

\* A thread that moves on in a shutdown neither takes nor gives up capacity.
LEMMA CallMoves ==
    ASSUME CallSane, NEW th \in Thread, NEW c \in CallRecord,
           poolCall' = [poolCall EXCEPT ![th] = c],
           c.pc \in {"cancel", "wait", "drain"} => c.view \in View,
           c.pc \notin {"out", "admitted"}, poolCall[th].pc # "admitted",
           UNCHANGED direct
    PROVE  /\ CallSane' /\ SameHolds
           /\ \A u \in View : poolCall'[u].pc \in {"out", "admitted"} =>
                                 poolCall[u].pc \in {"out", "admitted"}
<1>1. View \subseteq Thread
  BY DEF Thread
<1>2. \A u \in Thread : poolCall'[u] = IF u = th THEN c ELSE poolCall[u]
  BY DEF CallSane
<1>3. poolCall' \in [Thread -> CallRecord]
  BY DEF CallSane
<1> QED BY <1>1, <1>2, <1>3 DEF CallSane, SameHolds

\* What stays when the calls and the direct tasks do not move.
LEMMA CallsStay ==
    ASSUME CallSane, UNCHANGED <<poolCall, direct>>
    PROVE  /\ CallSane' /\ SameHolds
           /\ \A u \in View : poolCall'[u].pc \in {"out", "admitted"} =>
                                 poolCall[u].pc \in {"out", "admitted"}
  BY DEF CallSane, SameHolds

-----------------------------------------------------------------------------
(* The steps of the views, one by one.                                     *)

\* __enter__ takes the share of a view that held none.
LEMMA EnterKeeps ==
    ASSUME CapacityInv, NEW v \in View, Enter(v), UNCHANGED direct
    PROVE  CapacityInv'
<1>1. /\ poolCall[v].pc = "out" /\ wedged = NoView /\ NoView \notin View /\ v \in Thread
      /\ UNCHANGED <<shutdown, views, tasks, wedged, direct>>
  BY PoolConstants DEF Enter, PoolLockFree, Thread
<1>2. ViewBooks' /\ DirectBooks' /\ shutdown' \in BOOLEAN /\ Held' = Held
  BY <1>1 DEF CapacityInv, ViewBooks, DirectBooks, Held
<1>3. PICK pc : /\ pc \in {"returned", "admitted"}
                /\ poolCall' = [poolCall EXCEPT ![v].pc = pc]
                /\ pc = "returned" => available' = available
                /\ pc = "admitted" => /\ available >= Count[v]
                                      /\ available' = available - Count[v]
  BY DEF Enter, Goto
<1>4. /\ \A th \in Thread \ {v} : poolCall'[th] = poolCall[th]
      /\ poolCall'[v].pc = pc /\ poolCall' \in [Thread -> CallRecord]
  BY <1>1, <1>3 DEF CapacityInv, CallSane, CallRecord, PoolPhases
<1>5. CallSane'
  BY <1>3, <1>4 DEF CapacityInv, CallSane
<1>6. EntrySane'
  BY <1>1, <1>4 DEF CapacityInv, EntrySane, Thread
<1>7. v \notin Holders /\ Holders \in SUBSET View /\ Held \in SUBSET Direct
  BY <1>1 DEF CapacityInv, EntrySane, ViewBooks, ViewBook, Holders, Holding, Held
<1>8. \A u \in View : Holding(u)' <=> Holding(u) \/ (u = v /\ pc = "admitted")
  BY <1>1, <1>4 DEF Holding, Thread
<1>9. CapacityBooked(available', Holders', Held')
  <2>1. CASE pc = "returned"
    <3>1. Holders' = Holders
      BY <1>8, <2>1 DEF Holders
    <3> QED BY <1>2, <1>3, <2>1, <3>1 DEF CapacityInv
  <2>2. CASE pc = "admitted"
    <3>1. Holders' = Holders \cup {v}
      BY <1>8, <2>2 DEF Holders
    <3>2. CapacityBooked(available - Count[v], Holders \cup {v}, Held)
      BY <1>3, <1>7, <2>2, BookedMoves DEF CapacityInv
    <3> QED BY <1>2, <1>3, <2>2, <3>1, <3>2
  <2> QED BY <1>3, <2>1, <2>2
<1> QED BY <1>2, <1>5, <1>6, <1>9 DEF CapacityInv

\* ... and registers the view with it, or puts it back.
LEMMA RegisterKeeps ==
    ASSUME CapacityInv, NEW v \in View, Register(v), UNCHANGED direct
    PROVE  CapacityInv'
<1>1. /\ poolCall[v].pc = "admitted" /\ wedged = NoView /\ NoView \notin View /\ v \in Thread
      /\ UNCHANGED <<shutdown, tasks, wedged, direct>>
  BY PoolConstants DEF Register, PoolLockFree, Thread
<1>2. /\ DirectBooks' /\ shutdown' \in BOOLEAN /\ Held' = Held
      /\ Holders \in SUBSET View /\ Held \in SUBSET Direct /\ v \in Holders
  BY <1>1 DEF CapacityInv, DirectBooks, Held, Holders, Holding
<1>3. /\ views[v] \in ViewRecord /\ ViewBook(v, views[v], tasks)
      /\ ~views[v].entered /\ ~views[v].reserved /\ views[v].inflight = {}
  BY <1>1 DEF CapacityInv, ViewBooks, EntrySane, ViewBook, ViewRecord
<1>4. PICK pc : /\ pc \in {"returned", "active"}
                /\ poolCall' = [poolCall EXCEPT ![v].pc = pc]
                /\ shutdown <=> pc = "returned"
  BY DEF Register, Goto, CapacityInv
<1>5. /\ \A th \in Thread \ {v} : poolCall'[th] = poolCall[th]
      /\ poolCall'[v].pc = pc /\ poolCall' \in [Thread -> CallRecord]
  BY <1>1, <1>4 DEF CapacityInv, CallSane, CallRecord, PoolPhases
<1>6. CallSane'
  BY <1>4, <1>5 DEF CapacityInv, CallSane
<1>7. PICK s : /\ views' = [views EXCEPT ![v] = s]
               /\ s = IF shutdown THEN [views[v] EXCEPT !.closed = TRUE]
                      ELSE [views[v] EXCEPT !.entered = TRUE, !.reserved = TRUE]
  BY DEF Register
<1>8. /\ s \in ViewRecord /\ s.pending = views[v].pending /\ s.inflight = views[v].inflight
      /\ (s.reserved <=> pc = "active") /\ (s.entered <=> pc = "active")
  BY <1>3, <1>4, <1>7 DEF ViewRecord, CapacityInv
<1>9. ViewBook(v, s, tasks)
  BY <1>3, <1>8 DEF ViewBook
<1>10. views'[v] = s /\ \A u \in View \ {v} : views'[u] = views[u]
  BY <1>7 DEF CapacityInv, ViewBooks
<1>11. ViewBooks'
  BY <1>1, <1>7, <1>8, <1>9, <1>10 DEF CapacityInv, ViewBooks
<1>12. EntrySane'
  BY <1>1, <1>4, <1>5, <1>8, <1>10 DEF CapacityInv, EntrySane, Thread
<1>13. \A u \in View : Holding(u)' <=> IF u = v THEN pc = "active" ELSE Holding(u)
  BY <1>1, <1>4, <1>5, <1>8, <1>10 DEF Holding, Thread
<1>14. CapacityBooked(available', Holders', Held')
  <2>1. CASE pc = "returned"
    <3>1. Holders' = Holders \ {v}
      BY <1>13, <2>1 DEF Holders
    <3>2. available' = Min({Total, available + Count[v]})
      BY <1>4, <2>1 DEF Register
    <3>3. /\ CapacityBooked(available + Count[v], Holders \ {v}, Held)
          /\ Min({Total, available + Count[v]}) = available + Count[v]
      BY <1>2, BookedMoves DEF CapacityInv
    <3> QED BY <1>2, <3>1, <3>2, <3>3
  <2>2. CASE pc = "active"
    <3>1. Holders' = Holders
      BY <1>2, <1>13, <2>2 DEF Holders
    <3>2. available' = available
      BY <1>4, <2>2 DEF Register
    <3> QED BY <1>2, <3>1, <3>2 DEF CapacityInv
  <2> QED BY <1>4, <2>1, <2>2
<1> QED BY <1>2, <1>6, <1>11, <1>12, <1>14 DEF CapacityInv

\* submit: the new task is one of this view, and launching keeps the books.
LEMMA SubmitKeeps ==
    ASSUME CapacityInv, NEW t \in Task, Submit(t), UNCHANGED direct
    PROVE  CapacityInv'
<1>1. PICK v \in View : v = ViewOf[t]
  BY PoolConstants
<1>2. PICK s : s = [views[v] EXCEPT !.pending = Append(@, t), !.all = @ \cup {t}]
  OBVIOUS
<1>3. PICK T : T = [tasks EXCEPT ![t].outer = "pending"]
  OBVIOUS
<1>4. /\ LaunchAndSettle(v, s, T) /\ PoolLockFree /\ poolCall[v].pc = "active"
      /\ UNCHANGED <<shutdown, poolCall, direct>>
  BY <1>1, <1>2, <1>3 DEF Submit
<1>5. views[v] \in ViewRecord /\ ViewBook(v, views[v], tasks) /\ tasks \in TaskTable
  BY DEF CapacityInv, ViewBooks
<1>6. /\ s \in ViewRecord /\ s.pending = Append(views[v].pending, t)
      /\ s.entered = views[v].entered /\ s.reserved = views[v].reserved
      /\ s.inflight = views[v].inflight
  <2>1. Append(views[v].pending, t) \in Seq(Task) /\ views[v].all \cup {t} \subseteq Task
    BY <1>5 DEF ViewRecord
  <2> QED BY <1>2, <1>5, <2>1 DEF ViewRecord
<1>7. T \in TaskTable /\ \A x \in Task : T[x].under = tasks[x].under
  BY <1>3, <1>5 DEF TaskTable, OuterStates
<1>8. ToSet(s.pending) \subseteq TasksOf(v)
  <2>1. views[v].pending \in Seq(Task) /\ t \in TasksOf(v)
    BY <1>1, <1>5 DEF ViewRecord, TasksOf
  <2>2. \A i \in DOMAIN s.pending : s.pending[i] = t \/ \E j \in DOMAIN views[v].pending :
                                                       s.pending[i] = views[v].pending[j]
    BY <1>6, <2>1
  <2> QED BY <1>5, <2>1, <2>2 DEF ViewBook, ToSet
<1>9. ViewBook(v, s, T)
  BY <1>5, <1>6, <1>7, <1>8 DEF ViewBook, TasksOf
<1>10. SameHolds
  BY <1>4 DEF SameHolds
<1>11. /\ CapacityBooked(available', Holders', Held') /\ ViewBooks'
       /\ \A u \in View : views'[u].entered = views[u].entered
       /\ wedged' \in View \cup {NoView} /\ \A u \in View : wedged' = u => views[u].entered
  BY <1>4, <1>6, <1>7, <1>9, <1>10, LaunchAndSettleKeepsBooks DEF CapacityInv
<1>12. EntrySane' /\ CallSane' /\ DirectBooks' /\ shutdown' \in BOOLEAN
  BY <1>4, <1>11, EntryKept, CallsStay DEF CapacityInv, DirectBooks
<1> QED BY <1>11, <1>12 DEF CapacityInv

\* The steps that change a future of a view without the thread pool.
LEMMA FutureStepKeeps ==
    ASSUME CapacityInv, NEW t \in Task, NEW v \in View,
           tasks' = CancelOuter(tasks, t), views' = [views EXCEPT ![v] = Discard(@, tasks, t)],
           UNCHANGED <<shutdown, available, wedged>>, CallSane', SameHolds, DirectBooks',
           \A u \in View : poolCall'[u].pc \in {"out", "admitted"} =>
                              poolCall[u].pc \in {"out", "admitted"}
    PROVE  CapacityInv'
<1>1. tasks' \in TaskTable /\ \A x \in Task : tasks'[x].under = tasks[x].under
  BY CancelOuterKeeps DEF CapacityInv, ViewBooks
<1>2. PICK s : s = Discard(views[v], tasks, t)
  OBVIOUS
<1>3. views[v] \in ViewRecord /\ views \in [View -> ViewRecord]
  BY DEF CapacityInv, ViewBooks
<1>4. /\ s \in ViewRecord /\ s.entered = views[v].entered /\ s.reserved = views[v].reserved
      /\ s.pending = views[v].pending /\ s.inflight = views[v].inflight
  BY <1>2, <1>3, DiscardKeeps
<1>5. views' = [views EXCEPT ![v] = s]
  BY <1>2
<1>6. /\ views' \in [View -> ViewRecord]
      /\ \A u \in View : /\ views'[u].entered = views[u].entered
                         /\ views'[u].reserved = views[u].reserved
                         /\ views'[u].inflight = views[u].inflight
                         /\ ToSet(views'[u].pending) \subseteq ToSet(views[u].pending)
  BY <1>3, <1>4, <1>5
<1>7. CapacityBooked(available', Holders', Held') /\ ViewBooks'
  BY <1>1, <1>6, QuietStep DEF CapacityInv
<1>8. EntrySane'
  <2>1. wedged' \in View \cup {NoView} /\ \A u \in View : wedged' = u => views[u].entered
    BY DEF CapacityInv, EntrySane
  <2> QED BY <1>6, <2>1, EntryKept DEF CapacityInv
<1> QED BY <1>7, <1>8 DEF CapacityInv

\* A future that is cancelled while pending is not in the thread pool.
LEMMA CancelFutureKeeps ==
    ASSUME CapacityInv, NEW t \in Task, CancelFuture(t), UNCHANGED direct
    PROVE  CapacityInv'
<1>1. PICK v \in View : v = ViewOf[t]
  BY PoolConstants
<1>2. /\ tasks' = CancelOuter(tasks, t) /\ views' = [views EXCEPT ![v] = Discard(@, tasks, t)]
      /\ UNCHANGED <<shutdown, available, poolCall, wedged, direct>>
  BY <1>1 DEF CancelFuture
<1>3. /\ CallSane' /\ SameHolds /\ DirectBooks'
      /\ \A u \in View : poolCall'[u].pc \in {"out", "admitted"} =>
                            poolCall[u].pc \in {"out", "admitted"}
  BY <1>2, CallsStay DEF CapacityInv, DirectBooks
<1> QED BY <1>2, <1>3, FutureStepKeeps

\* A thread that takes or leaves a callable keeps it in flight.
LEMMA RunStepKeeps ==
    ASSUME CapacityInv, NEW t \in Task, NEW r \in TaskRecord, NEW v \in View, NEW rest,
           r.under \in InUse <=> tasks[t].under \in InUse,
           tasks' = [tasks EXCEPT ![t] = r],
           rest \subseteq views[v].all, views' = [views EXCEPT ![v].all = rest],
           UNCHANGED <<shutdown, available, poolCall, wedged, direct>>
    PROVE  CapacityInv'
<1>1. views[v] \in ViewRecord /\ views \in [View -> ViewRecord] /\ tasks \in TaskTable
  BY DEF CapacityInv, ViewBooks
<1>2. tasks' \in TaskTable /\ \A x \in Task : tasks'[x].under \in InUse <=> tasks[x].under \in InUse
  BY <1>1 DEF TaskTable, TaskRecord
<1>3. PICK s : s = [views[v] EXCEPT !.all = rest]
  OBVIOUS
<1>4. /\ s \in ViewRecord /\ s.entered = views[v].entered /\ s.reserved = views[v].reserved
      /\ s.pending = views[v].pending /\ s.inflight = views[v].inflight
  BY <1>1, <1>3 DEF ViewRecord
<1>5. views' = [views EXCEPT ![v] = s]
  BY <1>3
<1>6. /\ views' \in [View -> ViewRecord]
      /\ \A u \in View : /\ views'[u].entered = views[u].entered
                         /\ views'[u].reserved = views[u].reserved
                         /\ views'[u].inflight = views[u].inflight
                         /\ ToSet(views'[u].pending) \subseteq ToSet(views[u].pending)
  BY <1>1, <1>4, <1>5
<1>7. /\ CallSane' /\ SameHolds /\ DirectBooks'
      /\ \A u \in View : poolCall'[u].pc \in {"out", "admitted"} =>
                            poolCall[u].pc \in {"out", "admitted"}
  BY CallsStay DEF CapacityInv, DirectBooks
<1>8. CapacityBooked(available', Holders', Held') /\ ViewBooks'
  BY <1>2, <1>6, <1>7, QuietStep DEF CapacityInv
<1>9. EntrySane'
  <2>1. wedged' \in View \cup {NoView} /\ \A u \in View : wedged' = u => views[u].entered
    BY DEF CapacityInv, EntrySane
  <2> QED BY <1>6, <1>7, <2>1, EntryKept DEF CapacityInv
<1> QED BY <1>7, <1>8, <1>9 DEF CapacityInv

\* A thread that takes a task keeps it in flight ...
LEMMA StartKeeps ==
    ASSUME CapacityInv, NEW t \in Task, Start(t), UNCHANGED direct
    PROVE  CapacityInv'
<1>1. PICK v \in View : v = ViewOf[t]
  BY PoolConstants
<1>2. PICK r : r = Started(tasks[t])
  OBVIOUS
<1>3. r \in TaskRecord /\ r.under \in InUse /\ tasks[t].under \in InUse
  BY <1>2 DEF Start, Started, TaskRecord, OuterStates, PoolTaskStates, UnderStates, InUse
<1>4. PICK rest : rest = IF r.outer = "done" THEN views[v].all \ {t} ELSE views[v].all
  OBVIOUS
<1>5. views' = [views EXCEPT ![v].all = rest] /\ rest \subseteq views[v].all
  BY <1>1, <1>2, <1>4 DEF Start
<1>6. tasks' = [tasks EXCEPT ![t] = r] /\ UNCHANGED <<shutdown, available, poolCall, wedged>>
  BY <1>2 DEF Start
<1> QED BY <1>3, <1>5, <1>6, RunStepKeeps

\* ... also when its result is published, before the callback.
LEMMA PublishKeeps ==
    ASSUME CapacityInv, NEW t \in Task, Publish(t), UNCHANGED direct
    PROVE  CapacityInv'
<1>1. PICK v \in View : v = ViewOf[t]
  BY PoolConstants
<1>2. PICK r : r = [outer |-> "done", ptask |-> "done", under |-> "finishing"]
  OBVIOUS
<1>3. r \in TaskRecord /\ r.under \in InUse /\ tasks[t].under \in InUse
  BY <1>2 DEF Publish, TaskRecord, OuterStates, PoolTaskStates, UnderStates, InUse
<1>4. PICK rest : rest = views[v].all \ {t}
  OBVIOUS
<1>5. views' = [views EXCEPT ![v].all = rest] /\ rest \subseteq views[v].all
  BY <1>1, <1>4 DEF Publish
<1>6. tasks' = [tasks EXCEPT ![t] = r] /\ UNCHANGED <<shutdown, available, poolCall, wedged>>
  BY <1>2 DEF Publish
<1> QED BY <1>3, <1>5, <1>6, RunStepKeeps

\* What left the thread pool leaves its view.
LEMMA TakenOffBook ==
    ASSUME NEW v \in View, NEW s, NEW T, NEW t \in TasksOf(v), NEW s2, NEW T2 \in TaskTable,
           ViewBook(v, s, T), s2 \in ViewRecord, s2.inflight = s.inflight \ {t},
           s2.pending = s.pending, s2.reserved = s.reserved, s2.entered = s.entered,
           T2[t].under \notin InUse, \A x \in Task \ {t} : T2[x].under = T[x].under
    PROVE  ViewBook(v, s2, T2)
<1>1. s2.inflight = {x \in TasksOf(v) : T2[x].under \in InUse}
  BY DEF ViewBook, TasksOf
<1>2. IsFiniteSet(s.inflight) /\ Cardinality(s.inflight) \in Nat /\ Count[v] \in Nat
  <2>1. s.inflight \subseteq Task /\ IsFiniteSet(Task)
    BY PoolConstants DEF ViewBook, ViewRecord
  <2> QED BY <2>1, PoolConstants, FS_Subset, FS_CardinalityType
<1>3. /\ Cardinality(s2.inflight) <= Cardinality(s.inflight)
      /\ Cardinality(s2.inflight) \in Nat
  BY <1>2, FS_Subset, FS_CardinalityType
<1>4. Cardinality(s2.inflight) <= Count[v]
  BY <1>2, <1>3 DEF ViewBook
<1> QED BY <1>1, <1>4 DEF ViewBook

\* _underlying_done takes the task off the thread pool and the view together.
LEMMA FinishKeeps ==
    ASSUME CapacityInv, NEW t \in Task, Finish(t), UNCHANGED direct
    PROVE  CapacityInv'
<1>1. PICK v \in View : v = ViewOf[t]
  BY PoolConstants
<1>2. PICK s : s = [views[v] EXCEPT !.inflight = @ \ {t}]
  OBVIOUS
<1>3. PICK T : T = [tasks EXCEPT ![t].under = "done"]
  OBVIOUS
<1>4. LaunchAndSettle(v, s, T) /\ PoolLockFree /\ UNCHANGED <<shutdown, poolCall, direct>>
  BY <1>1, <1>2, <1>3 DEF Finish
<1>5. views[v] \in ViewRecord /\ ViewBook(v, views[v], tasks) /\ tasks \in TaskTable
  BY DEF CapacityInv, ViewBooks
<1>6. /\ s \in ViewRecord /\ s.pending = views[v].pending
      /\ s.entered = views[v].entered /\ s.reserved = views[v].reserved
      /\ s.inflight = views[v].inflight \ {t}
  BY <1>2, <1>5 DEF ViewRecord
<1>7. /\ T \in TaskTable /\ T[t].under = "done"
      /\ \A x \in Task \ {t} : T[x].under = tasks[x].under
  BY <1>3, <1>5 DEF TaskTable, UnderStates
<1>8. t \in TasksOf(v) /\ "done" \notin InUse
  BY <1>1 DEF TasksOf, InUse
<1>9. ViewBook(v, s, T)
  BY <1>5, <1>6, <1>7, <1>8, TakenOffBook
<1>10. SameHolds /\ \A x \in Task \ TasksOf(v) : T[x].under = tasks[x].under
  BY <1>4, <1>7, <1>8 DEF SameHolds
<1>11. /\ CapacityBooked(available', Holders', Held') /\ ViewBooks'
       /\ \A u \in View : views'[u].entered = views[u].entered
       /\ wedged' \in View \cup {NoView} /\ \A u \in View : wedged' = u => views[u].entered
  BY <1>4, <1>6, <1>7, <1>9, <1>10, LaunchAndSettleKeepsBooks DEF CapacityInv
<1>12. EntrySane' /\ CallSane' /\ DirectBooks' /\ shutdown' \in BOOLEAN
  BY <1>4, <1>11, EntryKept, CallsStay DEF CapacityInv, DirectBooks
<1> QED BY <1>11, <1>12 DEF CapacityInv

\* The first section of a shutdown closes the view; what it holds stays.
LEMMA BeginShutdownKeeps ==
    ASSUME CapacityInv, NEW th \in Thread, NEW v \in View, NEW wait \in BOOLEAN,
           NEW cancel \in BOOLEAN, poolCall[th].pc # "admitted",
           BeginShutdown(th, v, wait, cancel), UNCHANGED direct
    PROVE  CapacityInv'
<1>1. PICK s : s = [views[v] EXCEPT !.closed = TRUE]
  OBVIOUS
<1>2. views[v] \in ViewRecord /\ ViewBook(v, views[v], tasks) /\ tasks \in TaskTable
  BY DEF CapacityInv, ViewBooks
<1>3. /\ s \in ViewRecord /\ s.pending = views[v].pending /\ s.inflight = views[v].inflight
      /\ s.entered = views[v].entered /\ s.reserved = views[v].reserved /\ s.all = views[v].all
  BY <1>1, <1>2 DEF ViewRecord
<1>4. ViewBook(v, s, tasks)
  BY <1>2, <1>3 DEF ViewBook
<1>5. PICK c : c = [poolCall[th] EXCEPT !.pc = IF cancel THEN "cancel" ELSE "wait",
                                       !.view = v, !.wait = wait,
                                       !.pend = IF cancel THEN ToSet(s.pending) ELSE {},
                                       !.live = IF cancel THEN s.inflight ELSE {},
                                       !.watch = IF wait THEN s.all ELSE {},
                                       !.views = @ \ {v}]
  OBVIOUS
<1>6. poolCall' = [poolCall EXCEPT ![th] = c] /\ PoolLockFree /\ UNCHANGED <<shutdown, direct>>
  BY <1>1, <1>5 DEF BeginShutdown
<1>7. c \in CallRecord /\ c.view = v /\ c.pc \in {"cancel", "wait"}
  <2>1. poolCall[th] \in CallRecord
    BY DEF CapacityInv, CallSane
  <2>2. PICK pend, live, watch : /\ pend = IF cancel THEN ToSet(s.pending) ELSE {}
                                 /\ live = IF cancel THEN s.inflight ELSE {}
                                 /\ watch = IF wait THEN s.all ELSE {}
    OBVIOUS
  <2>3. pend \subseteq Task /\ live \subseteq Task \cup Direct /\ watch \subseteq Task
    BY <1>3, <1>4, <2>2 DEF ViewBook, ViewRecord, TasksOf
  <2>4. PICK pc : pc = IF cancel THEN "cancel" ELSE "wait"
    OBVIOUS
  <2>5. pc \in PoolPhases /\ pc \in {"cancel", "wait"}
    BY <2>4 DEF PoolPhases
  <2>6. c = [poolCall[th] EXCEPT !.pc = pc, !.view = v, !.wait = wait, !.pend = pend,
                                 !.live = live, !.watch = watch, !.views = @ \ {v}]
    BY <1>5, <2>2, <2>4
  <2> QED BY <2>1, <2>3, <2>5, <2>6 DEF CallRecord
<1>8. /\ CallSane' /\ SameHolds
      /\ \A u \in View : poolCall'[u].pc \in {"out", "admitted"} =>
                            poolCall[u].pc \in {"out", "admitted"}
  <2>1. c.pc \notin {"out", "admitted"} /\ c.view \in View
    BY <1>7
  <2> QED BY <1>6, <1>7, <2>1, CallMoves DEF CapacityInv
<1>9. CASE cancel
  <2>1. /\ views' = [views EXCEPT ![v] = s] /\ UNCHANGED <<available, tasks, wedged>>
    BY <1>1, <1>9 DEF BeginShutdown
  <2>2. /\ views' \in [View -> ViewRecord]
        /\ \A u \in View : /\ views'[u].entered = views[u].entered
                           /\ views'[u].reserved = views[u].reserved
                           /\ views'[u].inflight = views[u].inflight
                           /\ ToSet(views'[u].pending) \subseteq ToSet(views[u].pending)
    BY <1>3, <2>1 DEF CapacityInv, ViewBooks
  <2>3. CapacityBooked(available', Holders', Held') /\ ViewBooks'
    BY <1>2, <1>8, <2>1, <2>2, QuietStep DEF CapacityInv
  <2>4. EntrySane'
    <3>1. wedged' \in View \cup {NoView} /\ \A u \in View : wedged' = u => views[u].entered
      BY <2>1 DEF CapacityInv, EntrySane
    <3> QED BY <1>8, <2>2, <3>1, EntryKept DEF CapacityInv
  <2> QED BY <1>6, <1>8, <2>3, <2>4 DEF CapacityInv, DirectBooks
<1>10. CASE ~cancel
  <2>1. LaunchAndSettle(v, s, tasks)
    BY <1>1, <1>10 DEF BeginShutdown
  <2>2. /\ CapacityBooked(available', Holders', Held') /\ ViewBooks'
        /\ \A u \in View : views'[u].entered = views[u].entered
        /\ wedged' \in View \cup {NoView} /\ \A u \in View : wedged' = u => views[u].entered
    <3>1. PICK T : T = tasks
      OBVIOUS
    <3>2. /\ T \in TaskTable /\ ViewBook(v, s, T) /\ LaunchAndSettle(v, s, T)
          /\ \A t \in Task \ TasksOf(v) : T[t].under = tasks[t].under
      BY <1>2, <1>4, <2>1, <3>1
    <3> QED BY <1>3, <1>6, <1>8, <3>2, LaunchAndSettleKeepsBooks DEF CapacityInv
  <2>3. EntrySane'
    BY <1>8, <2>2, EntryKept DEF CapacityInv
  <2> QED BY <1>6, <1>8, <2>2, <2>3 DEF CapacityInv, DirectBooks
<1> QED BY <1>9, <1>10

\* A step that moves only a thread in its shutdown.
LEMMA CallStepKeeps ==
    ASSUME CapacityInv, shutdown' \in BOOLEAN, NEW th \in Thread, NEW c \in CallRecord,
           poolCall' = [poolCall EXCEPT ![th] = c],
           c.pc \in {"cancel", "wait", "drain"} => c.view \in View,
           c.pc \notin {"out", "admitted"}, poolCall[th].pc # "admitted",
           UNCHANGED <<available, views, tasks, wedged, direct>>
    PROVE  CapacityInv'
<1>1. /\ CallSane' /\ SameHolds
      /\ \A u \in View : poolCall'[u].pc \in {"out", "admitted"} =>
                            poolCall[u].pc \in {"out", "admitted"}
  BY CallMoves DEF CapacityInv
<1>2. CapacityBooked(available', Holders', Held') /\ ViewBooks'
  BY <1>1, QuietStep DEF CapacityInv, ViewBooks
<1>3. EntrySane'
  <2>1. wedged' \in View \cup {NoView} /\ \A u \in View : wedged' = u => views[u].entered
    BY DEF CapacityInv, EntrySane
  <2> QED BY <1>1, <2>1, EntryKept DEF CapacityInv
<1> QED BY <1>1, <1>2, <1>3 DEF CapacityInv, DirectBooks

\* Then the pending futures ...
LEMMA CancelPendingKeeps ==
    ASSUME CapacityInv, NEW th \in Thread, NEW t \in Task, CancelPending(th, t), UNCHANGED direct
    PROVE  CapacityInv'
<1>1. PICK v \in View : v = ViewOf[t]
  BY PoolConstants
<1>2. PICK c : c = [poolCall[th] EXCEPT !.pend = @ \ {t}]
  OBVIOUS
<1>3. /\ tasks' = CancelOuter(tasks, t) /\ views' = [views EXCEPT ![v] = Discard(@, tasks, t)]
      /\ poolCall' = [poolCall EXCEPT ![th] = c] /\ poolCall[th].pc = "cancel"
      /\ UNCHANGED <<shutdown, available, wedged, direct>>
  BY <1>1, <1>2 DEF CancelPending
<1>4. c \in CallRecord /\ c.pc = "cancel" /\ c.view \in View
  BY <1>2, <1>3 DEF CapacityInv, CallSane, CallRecord
<1>5. /\ CallSane' /\ SameHolds
      /\ \A u \in View : poolCall'[u].pc \in {"out", "admitted"} =>
                            poolCall[u].pc \in {"out", "admitted"}
  <2>1. c.pc \notin {"out", "admitted"} /\ poolCall[th].pc # "admitted"
    BY <1>3, <1>4
  <2> QED BY <1>3, <1>4, <2>1, CallMoves DEF CapacityInv
<1>6. DirectBooks'
  BY <1>3 DEF CapacityInv, DirectBooks
<1> QED BY <1>3, <1>5, <1>6, FutureStepKeeps

\* ... the PoolTasks ...
LEMMA CancelPoolTaskKeeps ==
    ASSUME CapacityInv, NEW th \in Thread, NEW t \in Task, CancelPoolTask(th, t), UNCHANGED direct
    PROVE  CapacityInv'
<1>1. PICK v \in View : v = ViewOf[t]
  BY PoolConstants
<1>2. PICK r : r = [tasks[t] EXCEPT !.ptask = "cancelled"]
  OBVIOUS
<1>3. r \in TaskRecord /\ r.under = tasks[t].under
  BY <1>2 DEF CapacityInv, ViewBooks, TaskTable, TaskRecord, PoolTaskStates
<1>4. /\ tasks' = [tasks EXCEPT ![t] = r]
      /\ UNCHANGED <<shutdown, available, views, poolCall, wedged, direct>>
  BY <1>2 DEF CancelPoolTask
<1>5. PICK rest : rest = views[v].all
  OBVIOUS
<1>6. views' = [views EXCEPT ![v].all = rest] /\ rest \subseteq views[v].all
  BY <1>4, <1>5 DEF CapacityInv, ViewBooks, ViewRecord
<1> QED BY <1>3, <1>4, <1>6, RunStepKeeps

\* ... and the underlying futures, where a queued one leaves as if it had ended.
LEMMA CancelLaunchedKeeps ==
    ASSUME CapacityInv, NEW th \in Thread, NEW t \in Task, CancelLaunched(th, t), UNCHANGED direct
    PROVE  CapacityInv'
<1>1. PICK v \in View : v = ViewOf[t]
  BY PoolConstants
<1>2. PICK c : c = [poolCall[th] EXCEPT !.live = @ \ {t}]
  OBVIOUS
<1>3. PICK both : both = (poolCall[th].pc = "cancel" \/ tasks[t].under = "queued")
  OBVIOUS
<1>4. PICK T : T = IF both THEN CancelOuter(tasks, t) ELSE tasks
  OBVIOUS
<1>5. PICK s : s = IF both THEN Discard(views[v], tasks, t) ELSE views[v]
  OBVIOUS
<1>6. /\ poolCall[th].pc \in {"pool", "cancel"} /\ PoolLockFree
      /\ poolCall' = [poolCall EXCEPT ![th] = c] /\ UNCHANGED <<shutdown, direct>>
  BY <1>2 DEF CancelLaunched
<1>7. c \in CallRecord /\ c.pc = poolCall[th].pc /\ (c.pc = "cancel" => c.view \in View)
  BY <1>2, <1>6 DEF CapacityInv, CallSane, CallRecord
<1>8. /\ CallSane' /\ SameHolds
      /\ \A u \in View : poolCall'[u].pc \in {"out", "admitted"} =>
                            poolCall[u].pc \in {"out", "admitted"}
  <2>1. /\ c.pc \notin {"out", "admitted"} /\ poolCall[th].pc # "admitted"
        /\ c.pc \in {"cancel", "wait", "drain"} => c.view \in View
    BY <1>6, <1>7
  <2> QED BY <1>6, <1>7, <2>1, CallMoves DEF CapacityInv
<1>9. views[v] \in ViewRecord /\ ViewBook(v, views[v], tasks) /\ tasks \in TaskTable
  BY DEF CapacityInv, ViewBooks
<1>10. T \in TaskTable /\ \A x \in Task : T[x].under = tasks[x].under
  BY <1>4, <1>9, CancelOuterKeeps
<1>11. /\ s \in ViewRecord /\ s.entered = views[v].entered /\ s.reserved = views[v].reserved
       /\ s.pending = views[v].pending /\ s.inflight = views[v].inflight
  BY <1>5, <1>9, DiscardKeeps
<1>12. ViewBook(v, s, T)
  BY <1>9, <1>10, <1>11 DEF ViewBook, TasksOf
<1>13. CASE tasks[t].under = "queued"
  <2>1. PICK T2 : T2 = [T EXCEPT ![t].under = "cancelled"]
    OBVIOUS
  <2>2. PICK s2 : s2 = [s EXCEPT !.inflight = @ \ {t}]
    OBVIOUS
  <2>3. LaunchAndSettle(v, s2, T2)
    BY <1>1, <1>3, <1>4, <1>5, <1>13, <2>1, <2>2 DEF CancelLaunched
  <2>4. /\ T2 \in TaskTable /\ T2[t].under = "cancelled"
        /\ \A x \in Task \ {t} : T2[x].under = T[x].under
    BY <1>10, <2>1 DEF TaskTable, UnderStates
  <2>5. /\ s2 \in ViewRecord /\ s2.pending = s.pending /\ s2.entered = s.entered
        /\ s2.reserved = s.reserved /\ s2.inflight = s.inflight \ {t}
    BY <1>11, <2>2 DEF ViewRecord
  <2>6. t \in TasksOf(v) /\ "cancelled" \notin InUse
    BY <1>1 DEF TasksOf, InUse
  <2>7. ViewBook(v, s2, T2)
    BY <1>12, <2>4, <2>5, <2>6, TakenOffBook
  <2>8. /\ s2.entered = views[v].entered /\ s2.reserved = views[v].reserved
        /\ \A x \in Task \ TasksOf(v) : T2[x].under = tasks[x].under
    BY <1>10, <1>11, <2>4, <2>5, <2>6
  <2>9. /\ CapacityBooked(available', Holders', Held') /\ ViewBooks'
        /\ \A u \in View : views'[u].entered = views[u].entered
        /\ wedged' \in View \cup {NoView} /\ \A u \in View : wedged' = u => views[u].entered
    BY <1>6, <1>8, <2>3, <2>4, <2>7, <2>8, LaunchAndSettleKeepsBooks DEF CapacityInv
  <2>10. EntrySane'
    BY <1>8, <2>9, EntryKept DEF CapacityInv
  <2> QED BY <1>6, <1>8, <2>9, <2>10 DEF CapacityInv, DirectBooks
<1>14. CASE tasks[t].under # "queued"
  <2>1. /\ tasks' = T /\ views' = [views EXCEPT ![v] = s] /\ UNCHANGED <<available, wedged>>
    BY <1>1, <1>3, <1>4, <1>5, <1>14 DEF CancelLaunched
  <2>2. /\ views' \in [View -> ViewRecord] /\ tasks' \in TaskTable
        /\ \A x \in Task : tasks'[x].under \in InUse <=> tasks[x].under \in InUse
        /\ \A u \in View : /\ views'[u].entered = views[u].entered
                           /\ views'[u].reserved = views[u].reserved
                           /\ views'[u].inflight = views[u].inflight
                           /\ ToSet(views'[u].pending) \subseteq ToSet(views[u].pending)
    BY <1>10, <1>11, <2>1 DEF CapacityInv, ViewBooks
  <2>3. CapacityBooked(available', Holders', Held') /\ ViewBooks'
    BY <1>8, <2>1, <2>2, QuietStep DEF CapacityInv
  <2>4. EntrySane'
    <3>1. wedged' \in View \cup {NoView} /\ \A u \in View : wedged' = u => views[u].entered
      BY <2>1 DEF CapacityInv, EntrySane
    <3> QED BY <1>8, <2>2, <3>1, EntryKept DEF CapacityInv
  <2> QED BY <1>6, <1>8, <2>3, <2>4 DEF CapacityInv, DirectBooks
<1> QED BY <1>13, <1>14

\* The queue only gets shorter.
LEMMA PruneCancelledKeeps ==
    ASSUME CapacityInv, NEW th \in Thread, PruneCancelled(th), UNCHANGED direct
    PROVE  CapacityInv'
<1>1. PICK v : v = poolCall[th].view
  OBVIOUS
<1>2. PICK q : q = LiveOnly(views[v].pending, tasks)
  OBVIOUS
<1>3. PICK c : c = [poolCall[th] EXCEPT !.pc = "wait"]
  OBVIOUS
<1>4. /\ poolCall[th].pc = "cancel" /\ views' = [views EXCEPT ![v].pending = q]
      /\ poolCall' = [poolCall EXCEPT ![th] = c]
      /\ UNCHANGED <<shutdown, available, tasks, wedged, direct>>
  BY <1>1, <1>2, <1>3 DEF PruneCancelled, Goto
<1>5. c \in CallRecord /\ c.pc = "wait" /\ c.view = v /\ v \in View
  BY <1>1, <1>3, <1>4 DEF CapacityInv, CallSane, CallRecord, PoolPhases
<1>6. /\ CallSane' /\ SameHolds
      /\ \A u \in View : poolCall'[u].pc \in {"out", "admitted"} =>
                            poolCall[u].pc \in {"out", "admitted"}
  <2>1. c.pc \notin {"out", "admitted"} /\ poolCall[th].pc # "admitted"
    BY <1>4, <1>5
  <2> QED BY <1>4, <1>5, <2>1, CallMoves DEF CapacityInv
<1>7. views[v] \in ViewRecord /\ views \in [View -> ViewRecord]
  BY <1>5 DEF CapacityInv, ViewBooks
<1>8. q \in Seq(Task) /\ ToSet(q) \subseteq ToSet(views[v].pending)
  BY <1>2, <1>7, LiveOnlyKeeps DEF ViewRecord
<1>9. PICK s : s = [views[v] EXCEPT !.pending = q]
  OBVIOUS
<1>10. /\ s \in ViewRecord /\ s.entered = views[v].entered /\ s.reserved = views[v].reserved
       /\ s.pending = q /\ s.inflight = views[v].inflight
  BY <1>7, <1>8, <1>9 DEF ViewRecord
<1>11. views' = [views EXCEPT ![v] = s]
  BY <1>4, <1>9
<1>12. /\ views' \in [View -> ViewRecord]
       /\ \A u \in View : /\ views'[u].entered = views[u].entered
                          /\ views'[u].reserved = views[u].reserved
                          /\ views'[u].inflight = views[u].inflight
                          /\ ToSet(views'[u].pending) \subseteq ToSet(views[u].pending)
  BY <1>7, <1>8, <1>10, <1>11
<1>13. CapacityBooked(available', Holders', Held') /\ ViewBooks'
  BY <1>4, <1>6, <1>12, QuietStep DEF CapacityInv, ViewBooks
<1>14. EntrySane'
  <2>1. wedged' \in View \cup {NoView} /\ \A u \in View : wedged' = u => views[u].entered
    BY <1>4 DEF CapacityInv, EntrySane
  <2> QED BY <1>6, <1>12, <2>1, EntryKept DEF CapacityInv
<1> QED BY <1>4, <1>6, <1>13, <1>14 DEF CapacityInv, DirectBooks

\* Waiting changes nothing that is booked.
LEMMA AwaitFuturesKeeps ==
    ASSUME CapacityInv, NEW th \in Thread, AwaitFutures(th), UNCHANGED direct
    PROVE  CapacityInv'
<1>1. PICK c : c = [poolCall[th] EXCEPT !.pc = "drain", !.watch = {}]
  OBVIOUS
<1>2. /\ poolCall[th].pc = "wait" /\ poolCall' = [poolCall EXCEPT ![th] = c]
      /\ UNCHANGED <<shutdown, available, views, tasks, wedged, direct>>
  BY <1>1 DEF AwaitFutures
<1>3. c \in CallRecord /\ c.pc = "drain" /\ c.view \in View
  BY <1>1, <1>2 DEF CapacityInv, CallSane, CallRecord, PoolPhases
<1>4. c.pc \notin {"out", "admitted"} /\ poolCall[th].pc # "admitted" /\ shutdown' \in BOOLEAN
  BY <1>2, <1>3 DEF CapacityInv
<1> QED BY <1>2, <1>3, <1>4, CallStepKeeps

\* The last section releases the view unless somebody did.
LEMMA DrainKeeps ==
    ASSUME CapacityInv, NEW th \in Thread, Drain(th), UNCHANGED direct
    PROVE  CapacityInv'
<1>1. PICK v : v = poolCall[th].view
  OBVIOUS
<1>2. PICK pc : pc = IF th = Closer THEN "views" ELSE "returned"
  OBVIOUS
<1>3. PICK c : c = [poolCall[th] EXCEPT !.pc = pc]
  OBVIOUS
<1>4. /\ poolCall[th].pc = "drain" /\ PoolLockFree /\ SettleFuture(v, views[v])
      /\ poolCall' = [poolCall EXCEPT ![th] = c]
      /\ UNCHANGED <<shutdown, tasks, wedged, direct>>
  BY <1>1, <1>2, <1>3 DEF Drain, Goto
<1>5. v \in View /\ c \in CallRecord /\ c.pc = pc /\ pc \in {"views", "returned"}
  BY <1>1, <1>2, <1>3, <1>4 DEF CapacityInv, CallSane, CallRecord, PoolPhases
<1>6. /\ CallSane' /\ SameHolds
      /\ \A u \in View : poolCall'[u].pc \in {"out", "admitted"} =>
                            poolCall[u].pc \in {"out", "admitted"}
  <2>1. /\ c.pc \notin {"out", "admitted"} /\ poolCall[th].pc # "admitted"
        /\ c.pc \notin {"cancel", "wait", "drain"}
    BY <1>4, <1>5
  <2> QED BY <1>4, <1>5, <2>1, CallMoves DEF CapacityInv
<1>7. PICK s : s = views[v]
  OBVIOUS
<1>8. /\ ViewBook(v, s, tasks') /\ tasks' \in TaskTable /\ SettleFuture(v, s)
      /\ s.entered = views[v].entered /\ s.reserved = views[v].reserved
      /\ \A t \in Task \ TasksOf(v) : tasks'[t].under = tasks[t].under
  BY <1>4, <1>5, <1>7 DEF CapacityInv, ViewBooks
<1>9. /\ CapacityBooked(available', Holders', Held') /\ ViewBooks'
      /\ \A u \in View : views'[u].entered = views[u].entered
  BY <1>4, <1>5, <1>6, <1>8, SettleKeepsBooks DEF CapacityInv
<1>10. EntrySane'
  <2>1. wedged' \in View \cup {NoView} /\ \A u \in View : wedged' = u => views[u].entered
    BY <1>4 DEF CapacityInv, EntrySane
  <2> QED BY <1>6, <1>9, <2>1, EntryKept DEF CapacityInv
<1> QED BY <1>4, <1>6, <1>9, <1>10 DEF CapacityInv, DirectBooks

\* The snapshots of PoolScheduler.shutdown hold views and tasks only.
LEMMA PoolShutdownKeeps ==
    ASSUME CapacityInv, NEW wait \in BOOLEAN, PoolShutdown(wait), UNCHANGED direct
    PROVE  CapacityInv'
<1>1. PICK live, vs : /\ live = {t \in Task : tasks[t].under \in InUse}
                                   \cup {d \in Direct : direct[d].under \in InUse}
                      /\ vs = {v \in View : views[v].reserved}
  OBVIOUS
<1>2. PICK c : c = [poolCall[Closer] EXCEPT !.pc = "pool", !.wait = wait,
                                            !.live = live, !.views = vs]
  OBVIOUS
<1>3. /\ poolCall[Closer].pc = "out" /\ poolCall' = [poolCall EXCEPT ![Closer] = c]
      /\ shutdown' = TRUE /\ UNCHANGED <<available, views, tasks, wedged, direct>>
  BY <1>1, <1>2 DEF PoolShutdown
<1>4. live \subseteq Task \cup Direct /\ vs \subseteq View /\ Closer \in Thread
  BY <1>1 DEF Thread
<1>5. c \in CallRecord /\ c.pc = "pool"
  BY <1>2, <1>4 DEF CapacityInv, CallSane, CallRecord, PoolPhases
<1>6. /\ c.pc \notin {"out", "admitted"} /\ poolCall[Closer].pc # "admitted"
      /\ c.pc \notin {"cancel", "wait", "drain"} /\ shutdown' \in BOOLEAN
  BY <1>3, <1>5
<1> QED BY <1>3, <1>4, <1>5, <1>6, CallStepKeeps

\* The closer shuts views down that were registered, one after the other.
LEMMA CloserStepKeeps ==
    ASSUME CapacityInv, CloserStep, UNCHANGED direct
    PROVE  CapacityInv'
<1>0. Closer \in Thread /\ poolCall[Closer] \in CallRecord /\ shutdown \in BOOLEAN
  BY DEF Thread, CapacityInv, CallSane
<1>1. CASE PoolCancelled
  <2>1. PICK c : c = [poolCall[Closer] EXCEPT !.pc = "views"]
    OBVIOUS
  <2>2. /\ poolCall' = [poolCall EXCEPT ![Closer] = c] /\ poolCall[Closer].pc # "admitted"
        /\ UNCHANGED <<shutdown, available, views, tasks, wedged, direct>>
    BY <1>1, <2>1 DEF PoolCancelled, Goto
  <2>3. c \in CallRecord /\ c.pc \notin {"out", "admitted"}
        /\ c.pc \notin {"cancel", "wait", "drain"}
    BY <1>0, <2>1 DEF CallRecord, PoolPhases
  <2> QED BY <1>0, <2>2, <2>3, CallStepKeeps
<1>2. CASE CloseNextView
  <2>1. PICK v \in poolCall[Closer].views, w \in BOOLEAN :
           BeginShutdown(Closer, v, w, TRUE) /\ poolCall[Closer].pc = "views"
    BY <1>0, <1>2 DEF CloseNextView, CallRecord
  <2>2. v \in View /\ poolCall[Closer].pc # "admitted"
    BY <1>0, <2>1 DEF CallRecord
  <2> QED BY <1>0, <2>1, <2>2, BeginShutdownKeeps
<1>3. CASE ExecutorShutdown
  <2>1. PICK c : c = [poolCall[Closer] EXCEPT !.pc = "returned"]
    OBVIOUS
  <2>2. /\ poolCall' = [poolCall EXCEPT ![Closer] = c] /\ poolCall[Closer].pc # "admitted"
        /\ UNCHANGED <<shutdown, available, views, tasks, wedged, direct>>
    BY <1>3, <2>1 DEF ExecutorShutdown, Goto
  <2>3. c \in CallRecord /\ c.pc \notin {"out", "admitted"}
        /\ c.pc \notin {"cancel", "wait", "drain"}
    BY <1>0, <2>1 DEF CallRecord, PoolPhases
  <2> QED BY <1>0, <2>2, <2>3, CallStepKeeps
<1> QED BY <1>1, <1>2, <1>3 DEF CloserStep

-----------------------------------------------------------------------------
(* The steps of the direct tasks.                                          *)

\* One direct task moves and its permits stay where they are.
LEMMA DirectMoves ==
    ASSUME CapacityInv, NEW d \in Direct, NEW s, DirectSane(s), s.held = direct[d].held,
           direct' = [direct EXCEPT ![d] = s],
           UNCHANGED <<shutdown, available, views, tasks, wedged>>, CallSane',
           \A u \in View : poolCall'[u].pc = poolCall[u].pc
    PROVE  CapacityInv'
<1>1. s \in DirectRecord
  BY DEF DirectSane
<1>2. DirectBooks'
  BY <1>1 DEF CapacityInv, DirectBooks
<1>3. SameHolds
  BY DEF SameHolds, CapacityInv, DirectBooks
<1>4. CapacityBooked(available', Holders', Held') /\ ViewBooks'
  BY <1>3, QuietStep DEF CapacityInv, ViewBooks
<1>5. EntrySane'
  BY DEF CapacityInv, EntrySane
<1> QED BY <1>2, <1>4, <1>5 DEF CapacityInv

\* One direct task gives up its permits, or finds that it has.
LEMMA DirectReturns ==
    ASSUME CapacityInv, NEW d \in Direct, NEW s, DirectSane(s), ~s.held,
           direct' = [direct EXCEPT ![d] = s], ReturnPermits(d),
           UNCHANGED <<shutdown, views, tasks, wedged>>, CallSane',
           \A u \in View : poolCall'[u].pc = poolCall[u].pc
    PROVE  CapacityInv'
<1>1. s \in DirectRecord
  BY DEF DirectSane
<1>2. DirectBooks' /\ \A x \in Direct : direct'[x] = IF x = d THEN s ELSE direct[x]
  BY <1>1 DEF CapacityInv, DirectBooks
<1>3. EntrySane' /\ ViewBooks' /\ shutdown' \in BOOLEAN
  BY DEF CapacityInv, EntrySane, ViewBooks
<1>4. Holders' = Holders /\ Holders \in SUBSET View
  <2>1. \A u \in View : Holding(u)' <=> Holding(u)
    BY DEF Holding
  <2> QED BY <2>1 DEF Holders
<1>5. Held' = Held \ {d} /\ Held \in SUBSET Direct
  BY <1>2 DEF Held
<1>6. CapacityBooked(available', Holders', Held')
  <2>1. CASE direct[d].held
    <3>1. d \in Held
      BY <2>1 DEF Held
    <3>2. available' = Min({Total, available + Permits[d]})
      BY <2>1 DEF ReturnPermits
    <3>3. /\ CapacityBooked(available + Permits[d], Holders, Held \ {d})
          /\ Min({Total, available + Permits[d]}) = available + Permits[d]
      BY <1>4, <1>5, <3>1, BookedMoves DEF CapacityInv
    <3> QED BY <1>4, <1>5, <3>2, <3>3
  <2>2. CASE ~direct[d].held
    <3>1. Held' = Held
      BY <1>5, <2>2 DEF Held
    <3>2. available' = available
      BY <2>2 DEF ReturnPermits
    <3> QED BY <1>4, <3>1, <3>2 DEF CapacityInv
  <2> QED BY <2>1, <2>2
<1> QED BY <1>2, <1>3, <1>6 DEF CapacityInv

\* A direct task in any state the invariant allows, whose future the thread pool
\* ends or never had, is one that no longer needs permits.
LEMMA EndedIsSane ==
    ASSUME NEW s, DirectSane(s), NEW pc \in {"returned", "submitted", "filed"} \cup {s.pc},
           pc \notin {"out", "admitted"}, NEW under \in {"none", "cancelled", "done", "finishing"},
           NEW r, r = [s EXCEPT !.held = FALSE, !.pc = pc, !.under = under]
    PROVE  DirectSane(r) /\ ~r.held
<1>1. s \in DirectRecord
  BY DEF DirectSane
<1>2. pc \in DirectPhases /\ under \in UnderStates
  BY <1>1 DEF DirectRecord, DirectPhases, UnderStates
<1>3. /\ r \in DirectRecord /\ r.pc = pc /\ r.under = under /\ r.held = FALSE
      /\ r.ptask = s.ptask
  BY <1>1, <1>2 DEF DirectRecord
<1>4. pc = "cancelling" => s.ptask = "cancelled"
  BY DEF DirectSane
<1> QED BY <1>3, <1>4 DEF DirectSane

\* A direct task takes its permits once.
LEMMA AdmitKeeps ==
    ASSUME CapacityInv, NEW d \in Direct, Admit(d)
    PROVE  CapacityInv'
<1>1. /\ direct[d] \in DirectRecord /\ direct[d].pc = "out" /\ ~direct[d].held
      /\ direct[d].under = "none" /\ UNCHANGED <<shutdown, views, tasks, poolCall, wedged>>
  BY DEF Admit, CapacityInv, DirectBooks, DirectSane
<1>2. CallSane' /\ \A u \in View : poolCall'[u].pc = poolCall[u].pc
  BY <1>1 DEF CapacityInv, CallSane
<1>3. CASE shutdown
  <2>1. PICK s : s = [direct[d] EXCEPT !.pc = "returned"]
    OBVIOUS
  <2>2. direct' = [direct EXCEPT ![d] = s] /\ available' = available
    BY <1>3, <2>1 DEF Admit
  <2>3. DirectSane(s) /\ s.held = direct[d].held
    BY <1>1, <2>1 DEF DirectSane, DirectRecord, DirectPhases
  <2> QED BY <1>1, <1>2, <2>2, <2>3, DirectMoves
<1>4. CASE ~shutdown
  <2>1. PICK s : s = [direct[d] EXCEPT !.pc = "admitted", !.held = TRUE]
    OBVIOUS
  <2>2. /\ direct' = [direct EXCEPT ![d] = s]
        /\ available >= Permits[d] /\ available' = available - Permits[d]
    BY <1>4, <2>1 DEF Admit
  <2>3. DirectSane(s) /\ s.held /\ s \in DirectRecord
    BY <1>1, <2>1 DEF DirectSane, DirectRecord, DirectPhases
  <2>4. DirectBooks' /\ \A x \in Direct : direct'[x] = IF x = d THEN s ELSE direct[x]
    BY <2>2, <2>3 DEF CapacityInv, DirectBooks
  <2>5. Held' = Held \cup {d} /\ d \notin Held /\ Held \in SUBSET Direct
    BY <1>1, <2>3, <2>4 DEF Held
  <2>6. Holders' = Holders /\ Holders \in SUBSET View
    BY <1>1 DEF Holders, Holding
  <2>7. CapacityBooked(available - Permits[d], Holders, Held \cup {d})
    BY <2>2, <2>5, <2>6, BookedMoves DEF CapacityInv
  <2>8. CapacityBooked(available', Holders', Held')
    BY <2>2, <2>5, <2>6, <2>7
  <2>9. EntrySane' /\ ViewBooks' /\ shutdown' \in BOOLEAN
    BY <1>1 DEF CapacityInv, EntrySane, ViewBooks
  <2> QED BY <1>2, <2>4, <2>8, <2>9 DEF CapacityInv
<1> QED BY <1>3, <1>4

\* What the steps of a direct task but the closer's have in common.
LEMMA DirectFrame ==
    ASSUME CapacityInv, UNCHANGED poolCall
    PROVE  CallSane' /\ \A u \in View : poolCall'[u].pc = poolCall[u].pc
  BY DEF CapacityInv, CallSane

\* It gives them back if the pool was shut down before it was submitted,
LEMMA SubmitDirectKeeps ==
    ASSUME CapacityInv, NEW d \in Direct, SubmitDirect(d)
    PROVE  CapacityInv'
<1>1. /\ direct[d] \in DirectRecord /\ DirectSane(direct[d]) /\ direct[d].pc = "admitted"
      /\ direct[d].under = "none" /\ direct[d].held
      /\ UNCHANGED <<shutdown, views, tasks, poolCall, wedged>>
  BY DEF SubmitDirect, CapacityInv, DirectBooks, DirectSane
<1>2. CASE shutdown
  <2>1. PICK s : s = [direct[d] EXCEPT !.held = FALSE, !.pc = "returned", !.under = "none"]
    OBVIOUS
  <2>2. s = [Returned(direct[d]) EXCEPT !.pc = "returned"]
    BY <1>1, <2>1 DEF Returned, DirectRecord
  <2>3. direct' = [direct EXCEPT ![d] = s] /\ ReturnPermits(d)
    BY <1>2, <2>2 DEF SubmitDirect
  <2>4. DirectSane(s) /\ ~s.held
    BY <1>1, <2>1, EndedIsSane
  <2> QED BY <1>1, <2>3, <2>4, DirectFrame, DirectReturns
<1>3. CASE ~shutdown
  <2>1. PICK s : s = [direct[d] EXCEPT !.pc = "filed", !.under = "queued"]
    OBVIOUS
  <2>2. direct' = [direct EXCEPT ![d] = s] /\ available' = available
    BY <1>3, <2>1 DEF SubmitDirect
  <2>3. DirectSane(s) /\ s.held = direct[d].held
    BY <1>1, <2>1 DEF DirectSane, DirectRecord, DirectPhases, UnderStates
  <2> QED BY <1>1, <2>2, <2>3, DirectFrame, DirectMoves
<1> QED BY <1>2, <1>3

\* if it was cancelled before the callback was attached,
LEMMA AttachCallbackKeeps ==
    ASSUME CapacityInv, NEW d \in Direct, AttachCallback(d)
    PROVE  CapacityInv'
<1>1. /\ direct[d] \in DirectRecord /\ DirectSane(direct[d]) /\ direct[d].pc = "filed"
      /\ UNCHANGED <<shutdown, views, tasks, poolCall, wedged>>
  BY DEF AttachCallback, CapacityInv, DirectBooks, DirectSane
<1>2. CASE direct[d].under = "cancelled"
  <2>1. PICK s : s = [direct[d] EXCEPT !.held = FALSE, !.pc = "submitted", !.under = "cancelled"]
    OBVIOUS
  <2>2. s = [Returned(direct[d]) EXCEPT !.pc = "submitted"]
    BY <1>1, <1>2, <2>1 DEF Returned, DirectRecord
  <2>3. direct' = [direct EXCEPT ![d] = s] /\ ReturnPermits(d)
    BY <1>2, <2>2 DEF AttachCallback
  <2>4. DirectSane(s) /\ ~s.held
    BY <1>1, <2>1, EndedIsSane
  <2> QED BY <1>1, <2>3, <2>4, DirectFrame, DirectReturns
<1>3. CASE direct[d].under # "cancelled"
  <2>1. PICK s : s = [direct[d] EXCEPT !.pc = "submitted"]
    OBVIOUS
  <2>2. direct' = [direct EXCEPT ![d] = s] /\ available' = available
    BY <1>3, <2>1 DEF AttachCallback
  <2>3. DirectSane(s) /\ s.held = direct[d].held
    BY <1>1, <2>1 DEF DirectSane, DirectRecord, DirectPhases
  <2> QED BY <1>1, <2>2, <2>3, DirectFrame, DirectMoves
<1> QED BY <1>2, <1>3

\* if its caller cancels it: it is not running then,
LEMMA CancelDirectKeeps ==
    ASSUME CapacityInv, NEW d \in Direct, CancelDirect(d)
    PROVE  CapacityInv'
<1>1. /\ direct[d] \in DirectRecord /\ DirectSane(direct[d]) /\ direct[d].pc = "cancelling"
      /\ direct[d].ptask = "cancelled" /\ direct[d].under # "running"
      /\ UNCHANGED <<shutdown, views, tasks, poolCall, wedged>>
  BY DEF CancelDirect, CapacityInv, DirectBooks, DirectSane
<1>2. PICK under : under = IF direct[d].under = "queued" THEN "cancelled" ELSE direct[d].under
  OBVIOUS
<1>3. under \in {"none", "cancelled", "done", "finishing"}
  BY <1>1, <1>2 DEF DirectRecord, UnderStates
<1>4. PICK s : s = [direct[d] EXCEPT !.held = FALSE, !.pc = "returned", !.under = under]
  OBVIOUS
<1>5. s = [Returned(direct[d]) EXCEPT !.pc = "returned",
                                      !.under = IF @ = "queued" THEN "cancelled" ELSE @]
  <2>1. PICK b : b = Returned(direct[d])
    OBVIOUS
  <2>2. b \in DirectRecord /\ b.under = direct[d].under /\ b = [direct[d] EXCEPT !.held = FALSE]
    BY <1>1, <2>1 DEF Returned, DirectRecord
  <2>3. s = [b EXCEPT !.pc = "returned", !.under = under]
    BY <1>1, <1>4, <2>2 DEF DirectRecord
  <2>4. s = [b EXCEPT !.pc = "returned", !.under = IF @ = "queued" THEN "cancelled" ELSE @]
    BY <1>2, <2>2, <2>3 DEF DirectRecord
  <2> QED BY <2>1, <2>4
<1>6. direct' = [direct EXCEPT ![d] = s] /\ ReturnPermits(d)
  BY <1>5 DEF CancelDirect
<1>7. DirectSane(s) /\ ~s.held
  BY <1>1, <1>3, <1>4, EndedIsSane
<1> QED BY <1>1, <1>6, <1>7, DirectFrame, DirectReturns

\* and when its wrapper ends.
LEMMA FinishDirectKeeps ==
    ASSUME CapacityInv, NEW d \in Direct, FinishDirect(d)
    PROVE  CapacityInv'
<1>1. /\ direct[d] \in DirectRecord /\ DirectSane(direct[d]) /\ direct[d].under = "finishing"
      /\ direct[d].pc \notin {"out", "admitted"}
      /\ UNCHANGED <<shutdown, views, tasks, poolCall, wedged>>
  BY DEF FinishDirect, CapacityInv, DirectBooks, DirectSane
<1>2. PICK pc : pc = direct[d].pc
  OBVIOUS
<1>3. PICK s : s = [direct[d] EXCEPT !.held = FALSE, !.pc = pc, !.under = "done"]
  OBVIOUS
<1>4. s = [Returned(direct[d]) EXCEPT !.under = "done"]
  BY <1>1, <1>2, <1>3 DEF Returned, DirectRecord
<1>5. direct' = [direct EXCEPT ![d] = s] /\ ReturnPermits(d)
  BY <1>4 DEF FinishDirect
<1>6. DirectSane(s) /\ ~s.held
  BY <1>1, <1>2, <1>3, EndedIsSane
<1> QED BY <1>1, <1>5, <1>6, DirectFrame, DirectReturns

\* The steps that leave the permits alone.
LEMMA DirectRunKeeps ==
    ASSUME CapacityInv, NEW d \in Direct,
           CancelResult(d) \/ StartDirect(d) \/ PublishDirect(d) \/ CloserCancelsTask(d)
    PROVE  CapacityInv'
<1>1. /\ direct[d] \in DirectRecord /\ DirectSane(direct[d])
      /\ UNCHANGED <<shutdown, available, views, tasks, poolCall, wedged>>
  BY DEF CancelResult, StartDirect, PublishDirect, CloserCancelsTask, viewVars,
         CapacityInv, DirectBooks
<1>2. ASSUME NEW s, DirectSane(s), s.held = direct[d].held, direct' = [direct EXCEPT ![d] = s]
      PROVE  CapacityInv'
  BY <1>1, <1>2, DirectFrame, DirectMoves
<1>3. CASE CancelResult(d)
  <2>1. PICK s : s = [direct[d] EXCEPT !.pc = "cancelling", !.ptask = "cancelled"]
    OBVIOUS
  <2>2. direct[d].pc = "submitted" /\ direct[d].ptask = "new" /\ direct' = [direct EXCEPT ![d] = s]
    BY <1>3, <2>1 DEF CancelResult
  <2>3. DirectSane(s) /\ s.held = direct[d].held
    BY <1>1, <2>1, <2>2 DEF DirectSane, DirectRecord, DirectPhases, PoolTaskStates
  <2> QED BY <1>2, <2>2, <2>3
<1>4. CASE StartDirect(d)
  <2>1. PICK s : s = IF direct[d].ptask = "cancelled" THEN [direct[d] EXCEPT !.under = "finishing"]
                     ELSE [direct[d] EXCEPT !.under = "running", !.ptask = "started"]
    OBVIOUS
  <2>2. direct[d].under = "queued" /\ direct' = [direct EXCEPT ![d] = s]
    BY <1>4, <2>1 DEF StartDirect
  <2>3. DirectSane(s) /\ s.held = direct[d].held
    BY <1>1, <2>1, <2>2 DEF DirectSane, DirectRecord, UnderStates, PoolTaskStates
  <2> QED BY <1>2, <2>2, <2>3
<1>5. CASE PublishDirect(d)
  <2>1. PICK s : s = [direct[d] EXCEPT !.under = "finishing", !.ptask = "done"]
    OBVIOUS
  <2>2. direct[d].under = "running" /\ direct' = [direct EXCEPT ![d] = s]
    BY <1>5, <2>1 DEF PublishDirect
  <2>3. DirectSane(s) /\ s.held = direct[d].held
    BY <1>1, <2>1, <2>2 DEF DirectSane, DirectRecord, UnderStates, PoolTaskStates
  <2> QED BY <1>2, <2>2, <2>3
<1>6. CASE CloserCancelsTask(d)
  <2>1. PICK s : s = [direct[d] EXCEPT !.ptask = "cancelled"]
    OBVIOUS
  <2>2. direct[d].ptask = "new" /\ direct' = [direct EXCEPT ![d] = s]
    BY <1>6, <2>1 DEF CloserCancelsTask
  <2>3. DirectSane(s) /\ s.held = direct[d].held
    BY <1>1, <2>1, <2>2 DEF DirectSane, DirectRecord, PoolTaskStates
  <2> QED BY <1>2, <2>2, <2>3
<1> QED BY <1>3, <1>4, <1>5, <1>6

\* The closer cancels a future only while it is queued.
LEMMA CloserCancelsFutureKeeps ==
    ASSUME CapacityInv, NEW d \in Direct, CloserCancelsFuture(d)
    PROVE  CapacityInv'
<1>1. /\ direct[d] \in DirectRecord /\ DirectSane(direct[d]) /\ direct \in [Direct -> DirectRecord]
      /\ poolCall[Closer].pc = "pool" /\ UNCHANGED <<shutdown, views, tasks, wedged>>
  BY DEF CloserCancelsFuture, CapacityInv, DirectBooks
<1>2. PICK c : c = [poolCall[Closer] EXCEPT !.live = @ \ {d}]
  OBVIOUS
<1>3. /\ poolCall' = [poolCall EXCEPT ![Closer] = c] /\ Closer \in Thread /\ Closer \notin View
      /\ View \subseteq Thread
  BY <1>2, PoolConstants DEF CloserCancelsFuture, Thread
<1>4. c \in CallRecord /\ c.pc = "pool"
  BY <1>1, <1>2, <1>3 DEF CapacityInv, CallSane, CallRecord
<1>5. CallSane' /\ \A u \in View : poolCall'[u].pc = poolCall[u].pc
  BY <1>3, <1>4 DEF CapacityInv, CallSane
<1>6. CASE direct[d].under # "queued"
  <2>1. PICK s : s = direct[d]
    OBVIOUS
  <2>2. direct' = [direct EXCEPT ![d] = s] /\ available' = available
    BY <1>1, <1>6, <2>1 DEF CloserCancelsFuture
  <2>3. DirectSane(s) /\ s.held = direct[d].held
    BY <1>1, <2>1
  <2> QED BY <1>1, <1>5, <2>2, <2>3, DirectMoves
<1>7. CASE direct[d].under = "queued" /\ direct[d].pc = "filed"
  <2>1. PICK s : s = [direct[d] EXCEPT !.under = "cancelled"]
    OBVIOUS
  <2>2. direct' = [direct EXCEPT ![d] = s] /\ available' = available
    BY <1>7, <2>1 DEF CloserCancelsFuture
  <2>3. DirectSane(s) /\ s.held = direct[d].held
    BY <1>1, <1>7, <2>1 DEF DirectSane, DirectRecord, UnderStates
  <2> QED BY <1>1, <1>5, <2>2, <2>3, DirectMoves
<1>8. CASE direct[d].under = "queued" /\ direct[d].pc # "filed"
  <2>1. PICK pc : pc = direct[d].pc
    OBVIOUS
  <2>2. PICK s : s = [direct[d] EXCEPT !.held = FALSE, !.pc = pc, !.under = "cancelled"]
    OBVIOUS
  <2>3. s = [Returned(direct[d]) EXCEPT !.under = "cancelled"]
    BY <1>1, <2>1, <2>2 DEF Returned, DirectRecord
  <2>4. direct' = [direct EXCEPT ![d] = s] /\ ReturnPermits(d)
    BY <1>8, <2>3 DEF CloserCancelsFuture
  <2>5. pc \notin {"out", "admitted"}
    BY <1>1, <1>8, <2>1 DEF DirectSane
  <2>6. DirectSane(s) /\ ~s.held
    BY <1>1, <2>1, <2>2, <2>5, EndedIsSane
  <2> QED BY <1>1, <1>5, <2>4, <2>6, DirectReturns
<1> QED BY <1>6, <1>7, <1>8

-----------------------------------------------------------------------------

\* At first nobody holds anything and the whole capacity is free.
LEMMA CapacityInit == PoolInit => CapacityInv
<1> SUFFICES ASSUME PoolInit PROVE CapacityInv
  OBVIOUS
<1>1. /\ \A v \in View : views[v] = NewView /\ poolCall[v].pc = "out"
      /\ wedged = NoView /\ NoView \notin View /\ available = Total /\ Total \in Nat
      /\ \A d \in Direct : direct[d] = NewDirect
      /\ \A t \in Task : tasks[t] = NewTask
      /\ \A th \in Thread : poolCall[th].pc = "out"
  BY PoolConstants DEF PoolInit, NewPoolCall, Thread
<1>2. Holders = {} /\ Held = {}
  BY <1>1 DEF Holders, Holding, Held, NewView, NewDirect
<1>3. CapacityBooked(available, Holders, Held)
  BY <1>1, <1>2, SumEmpty DEF CapacityBooked
<1>4. NewView \in ViewRecord /\ ToSet(<<>>) = {}
  BY DEF NewView, ViewRecord, ToSet
<1>5. \A v \in View : ViewBook(v, NewView, tasks)
  <2> SUFFICES ASSUME NEW v \in View PROVE ViewBook(v, NewView, tasks)
    OBVIOUS
  <2>1. {t \in TasksOf(v) : tasks[t].under \in InUse} = {}
    BY <1>1 DEF TasksOf, NewTask, InUse
  <2>2. /\ NewView.pending = <<>> /\ NewView.inflight = {} /\ ~NewView.reserved
        /\ Cardinality({}) <= Count[v]
    BY PoolConstants, FS_EmptySet DEF NewView
  <2> QED BY <1>4, <2>1, <2>2 DEF ViewBook
<1>6. tasks \in TaskTable /\ views \in [View -> ViewRecord]
  BY <1>4 DEF PoolInit, TaskTable, NewTask, OuterStates, PoolTaskStates, UnderStates
<1>7. ViewBooks
  BY <1>1, <1>5, <1>6 DEF ViewBooks
<1>8. EntrySane
  BY <1>1 DEF EntrySane, NewView
<1>9. CallSane
  <2>1. poolCall \in [Thread -> CallRecord]
    <3>1. \A th \in Thread : NewPoolCall(IF th = Closer THEN NoView ELSE th) \in CallRecord
      BY DEF NewPoolCall, CallRecord, PoolPhases, Thread
    <3> QED BY <3>1 DEF PoolInit
  <2> QED BY <1>1, <2>1 DEF CallSane
<1>10. DirectBooks
  <2>1. DirectSane(NewDirect) /\ NewDirect \in DirectRecord
    BY DEF DirectSane, NewDirect, DirectRecord, DirectPhases, PoolTaskStates, UnderStates
  <2> QED BY <1>1, <2>1 DEF DirectBooks, PoolInit
<1> QED BY <1>3, <1>7, <1>8, <1>9, <1>10 DEF CapacityInv, PoolInit

\* Every step of the pool keeps the books.
LEMMA CapacityStep == CapacityInv /\ [PoolNext]_poolVars => CapacityInv'
<1> SUFFICES ASSUME CapacityInv, [PoolNext]_poolVars PROVE CapacityInv'
  OBVIOUS
<1>1. CASE ViewNext /\ UNCHANGED direct
  <2>1. ASSUME NEW v \in View, Enter(v) PROVE CapacityInv'
    BY <1>1, <2>1, EnterKeeps
  <2>2. ASSUME NEW v \in View, Register(v) PROVE CapacityInv'
    BY <1>1, <2>2, RegisterKeeps
  <2>3. ASSUME NEW v \in View, NEW wait \in BOOLEAN, NEW cancel \in BOOLEAN,
               ViewShutdown(v, wait, cancel)
        PROVE  CapacityInv'
    <3>1. v \in Thread /\ poolCall[v].pc # "admitted" /\ BeginShutdown(v, v, wait, cancel)
      BY <2>3 DEF ViewShutdown, Thread
    <3> QED BY <1>1, <3>1, BeginShutdownKeeps
  <2>4. ASSUME NEW t \in Task, Submit(t) \/ CancelFuture(t) \/ WorkerStep(t) PROVE CapacityInv'
    BY <1>1, <2>4, SubmitKeeps, CancelFutureKeeps, StartKeeps, PublishKeeps, FinishKeeps
       DEF WorkerStep
  <2>5. ASSUME NEW th \in Thread, ShutdownStep(th) PROVE CapacityInv'
    BY <1>1, <2>5, CancelPendingKeeps, CancelPoolTaskKeeps, CancelLaunchedKeeps,
       PruneCancelledKeeps, AwaitFuturesKeeps, DrainKeeps DEF ShutdownStep
  <2>6. ASSUME NEW wait \in BOOLEAN, PoolShutdown(wait) PROVE CapacityInv'
    BY <1>1, <2>6, PoolShutdownKeeps
  <2>7. ASSUME CloserStep PROVE CapacityInv'
    BY <1>1, <2>7, CloserStepKeeps
  <2> QED BY <1>1, <2>1, <2>2, <2>3, <2>4, <2>5, <2>6, <2>7 DEF ViewNext
<1>2. ASSUME NEW d \in Direct, Admit(d) \/ CancelResult(d) \/ DirectStep(d) PROVE CapacityInv'
  BY <1>2, AdmitKeeps, SubmitDirectKeeps, AttachCallbackKeeps, CancelDirectKeeps,
     FinishDirectKeeps, DirectRunKeeps, CloserCancelsFutureKeeps DEF DirectStep
<1>3. CASE UNCHANGED poolVars
  <2>1. UNCHANGED <<shutdown, available, views, tasks, poolCall, wedged, direct>>
    BY <1>3 DEF poolVars, viewVars
  <2>2. CallSane' /\ SameHolds
    BY <2>1, CallsStay DEF CapacityInv
  <2>3. CapacityBooked(available', Holders', Held') /\ ViewBooks'
    BY <2>1, <2>2, QuietStep DEF CapacityInv, ViewBooks
  <2>4. EntrySane' /\ DirectBooks' /\ shutdown' \in BOOLEAN
    BY <2>1 DEF CapacityInv, EntrySane, DirectBooks
  <2> QED BY <2>2, <2>3, <2>4 DEF CapacityInv
<1> QED BY <1>1, <1>2, <1>3 DEF PoolNext

\* So they are kept in every behaviour.
LEMMA CapacityAlways == PoolSpec => []CapacityInv
  BY CapacityInit, CapacityStep, PTL DEF PoolSpec

\* The pool's tables keep their shapes, capacity stays between zero and the
\* number of threads, and no view has more in flight than its workers.
THEOREM PoolTypesThm == PoolSpec => []PoolTypeOK
<1>1. CapacityInv => PoolTypeOK
  <2> SUFFICES ASSUME CapacityInv PROVE PoolTypeOK
    OBVIOUS
  <2>1. available \in 0 .. Total
    <3>1. Holders \in SUBSET View /\ Held \in SUBSET Direct
      BY DEF Holders, Held
    <3> QED BY <3>1, BookedMoves DEF CapacityInv
  <2> QED BY <2>1 DEF CapacityInv, EntrySane, ViewBooks, ViewBook, ViewRecord, TaskTable,
                      CallSane, CallRecord, DirectBooks, DirectRecord, PoolTypeOK
<1> QED BY <1>1, CapacityAlways, PTL

\* The capacity of _PoolExecutor and PoolScheduler is exact: whoever of a user, a
\* worker and the closer releases a view or a direct task, its share is put back
\* once and not before its last thread left (_release_reservation_if_idle,
\* _release_capacity, release_reservation).
THEOREM CapacityExactThm == PoolSpec => []CapacityExact
<1>1. CapacityInv => CapacityExact
  <2> SUFFICES ASSUME CapacityInv PROVE CapacityExact
    OBVIOUS
  <2>1. available + SumFunctionOnSet(Count, {v \in View : Holding(v)})
                  + SumFunctionOnSet(Permits, {d \in Direct : direct[d].held}) = Total
    BY DEF CapacityInv, CapacityBooked, Holders, Held
  <2>2. \A d \in Direct : direct[d].under = "running" => direct[d].held
    BY DEF CapacityInv, DirectBooks, DirectSane
  <2>3. ASSUME NEW v \in View
        PROVE  Cardinality({t \in Task : ViewOf[t] = v /\ tasks[t].under \in InUse})
                  <= (IF Holding(v) THEN Count[v] ELSE 0)
    <3>1. ViewBook(v, views[v], tasks)
      BY DEF CapacityInv, ViewBooks
    <3>2. {t \in Task : ViewOf[t] = v /\ tasks[t].under \in InUse} = views[v].inflight
      BY <3>1 DEF ViewBook, TasksOf
    <3>3. views[v].inflight = {} \/ Holding(v)
      BY <3>1 DEF ViewBook, Holding
    <3>4. Cardinality({}) = 0 /\ Cardinality(views[v].inflight) <= Count[v] /\ Count[v] \in Nat
      BY <3>1, PoolConstants, FS_EmptySet DEF ViewBook
    <3>5. CASE Holding(v)
      BY <3>2, <3>4, <3>5
    <3>6. CASE ~Holding(v)
      <4>1. Cardinality({t \in Task : ViewOf[t] = v /\ tasks[t].under \in InUse}) = 0
        BY <3>2, <3>3, <3>4, <3>6
      <4> QED BY <3>6, <4>1
    <3> QED BY <3>5, <3>6
  <2> QED BY <2>1, <2>2, <2>3 DEF CapacityExact
<1> QED BY <1>1, CapacityAlways, PTL
=============================================================================
