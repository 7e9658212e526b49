------------------------- MODULE EvaluationRegistry -------------------------
(***************************************************************************)
(* EvaluationProviderRegistry and EvaluationGateway: a request is bound to *)
(* one of the registered providers inside the caller's resource grant, and *)
(* a state transition to the owner of its state. The first applied         *)
(* transition of a provider that replaces a slot is certified: the slot it *)
(* replaced must still be materialized, so that the caller can go back.    *)
(*                                                                         *)
(* The registry's lock covers single look-ups and updates only: providers  *)
(* are replaced between the steps of a transition. Providers (what they    *)
(* keep of their states) are external. Digests, wording of rejections and  *)
(* the contents of states are left out; a state has one slot, and all      *)
(* transitions are of one method and of states of provider StateOwner.     *)
(***************************************************************************)
EXTENDS Integers, Sequences, SequencesExt, FiniteSets

CONSTANTS
    Provider,      \* provider objects: records of a spec, and keeps (see below)
    Caller,        \* callers of the gateway, each with a trajectory of its own
    StateOwner,    \* provider_id of the owner of the states
    StateDevice,   \* device of the states
    Requests,      \* evaluation requests
    Grants,        \* resource grants of the callers
    MaxSlots,      \* bound: slots in use at a time
    Overtaking     \* providers change while a transition is under way

NoProvider == [id |-> 0]

ASSUME RegistryAssumption ==
    NoProvider \notin Provider /\ MaxSlots \in Nat /\ Overtaking \in BOOLEAN

\* What a provider's spec consists of; an id stands for its place in the order
\* of the provider ids.
ASSUME ProviderAssumption ==
    \A p \in Provider :
        /\ p.id \in Nat \ {0} /\ p.priority \in Int
        /\ IsFiniteSet(p.capabilities) /\ p.prefers \in Seq(STRING)

VARIABLES
    providers,   \* _providers, in the order of the dictionary
    certified,   \* providers a certification was issued to
    alive,       \* [Provider -> slots it holds]
    held,        \* [Caller -> its committed slot, 0 if none]
    gateway      \* [Caller -> its call of the gateway]

registryVars == <<providers, certified, alive, held, gateway>>

NoGatewayCall == [step |-> "idle"]

RegistryInit ==
    /\ providers = <<>> /\ certified = {}
    /\ alive = [p \in Provider |-> {}]
    /\ held = [c \in Caller |-> 0]
    /\ gateway = [c \in Caller |-> NoGatewayCall]

-----------------------------------------------------------------------------
(* Devices.                                                                *)

DeviceFamily(d) == IF d \in {"gpu", "cuda:0", "cuda:1"} THEN "gpu" ELSE "cpu"
Indexed(d) == d \in {"cuda:0", "cuda:1"}
PhysicalDevice(d) == DeviceFamily(d) = "gpu"

\* What the grant makes available, the device of the context first. A token
\* without a device behind it is none, and the CPU is always there.
AvailableDevices(g) ==
    LET current == IF g.device = "auto"
                      \/ (g.device \in ToSet(g.tokens) /\ ~PhysicalDevice(g.device))
                   THEN <<>> ELSE <<g.device>>
        resolved == SelectSeq(g.tokens, LAMBDA t : t \in DOMAIN g.resolved)
        named == current \o SelectSeq(g.tokens, PhysicalDevice)
                 \o [k \in 1..Len(resolved) |-> g.resolved[resolved[k]]]
        counted == IF g.gpus > 0 /\ g.tokens = <<>> /\ ~\E k \in 1..Len(named) :
                           PhysicalDevice(named[k])
                   THEN <<"gpu">> ELSE <<>>
    IN  named \o counted \o (IF "cpu" \in ToSet(named) THEN <<>> ELSE <<"cpu">>)

FitsPattern(pattern, d) ==
    IF Indexed(pattern) THEN pattern = d ELSE DeviceFamily(pattern) = DeviceFamily(d)

\* The device asked for, or else one of its family: a sequence of at most one.
MatchingDevice(wanted, available) ==
    IF wanted \in ToSet(available) THEN <<wanted>>
    ELSE LET k == SelectInSeq(available, LAMBDA d : ~Indexed(wanted)
                                  /\ DeviceFamily(d) = DeviceFamily(wanted))
         IN  IF k = 0 THEN <<>> ELSE <<available[k]>>

CompatibleDevices(p, g) ==
    SelectSeq(AvailableDevices(g),
              LAMBDA d : \E k \in 1..Len(p.supports) : FitsPattern(p.supports[k], d))

\* Preferred devices first, then the supported ones, in the provider's order.
SelectDevice(p, g) ==
    LET wishes == p.prefers \o p.supports
        k == SelectInSeq(wishes,
                         LAMBDA w : MatchingDevice(w, CompatibleDevices(p, g)) # <<>>)
    IN  IF k = 0 THEN <<>> ELSE MatchingDevice(wishes[k], CompatibleDevices(p, g))

-----------------------------------------------------------------------------
(* Binding.                                                                *)

\* GPUs the grant counts, or names as tokens, or implies by its device.
GrantedGpus(g) ==
    LET tokens == Len(SelectSeq(g.tokens, PhysicalDevice))
    IN  CASE g.gpus > 0 -> g.gpus
          [] g.gpus = 0 /\ tokens > 0 -> tokens
          [] OTHER -> IF PhysicalDevice(g.device) THEN 1 ELSE 0

WithinGrant(p, g) == p.threads <= g.threads /\ p.gpus <= GrantedGpus(g)

\* _try_binding: mode, required capabilities, ownership of a StateRef,
\* resources and device.
Bindable(p, r, g) ==
    /\ r.mode \in p.modes
    /\ r.required \subseteq p.capabilities
    /\ r.owner \in {0, p.id}
    /\ WithinGrant(p, g)
    /\ SelectDevice(p, g) # <<>>

PreferenceScore(p, d) ==
    LET k == SelectInSeq(p.prefers, LAMBDA w : DeviceFamily(w) = DeviceFamily(d))
    IN  IF k = 0 THEN 0 ELSE Len(p.prefers) - k + 1

\* Mutant: ties are left to the order of registration.
ScoreWithoutId(p, r, g) ==
    LET d == SelectDevice(p, g)[1]
    IN  <<p.priority, Cardinality(r.preferred \cap p.capabilities), PreferenceScore(p, d),
          IF PhysicalDevice(d) THEN 1 ELSE 0>>

\* Higher is better in every place; the smaller provider_id wins a tie.
Score(p, r, g) ==
    LET d == SelectDevice(p, g)[1]
    IN  <<p.priority, Cardinality(r.preferred \cap p.capabilities), PreferenceScore(p, d),
          IF PhysicalDevice(d) THEN 1 ELSE 0, -p.id>>

Outranks(s, t) ==
    \E k \in 1..Len(s) : s[k] > t[k] /\ \A j \in 1..(k - 1) : s[j] = t[j]

Owner == LET k == SelectInSeq(providers, LAMBDA p : p.id = StateOwner)
         IN  IF k = 0 THEN NoProvider ELSE providers[k]

OnStateDevice(g) == MatchingDevice(StateDevice, CompatibleDevices(Owner, g)) # <<>>

\* A state is changed and read by its owner only, inside the grant, on the
\* device of the state, and if the owner declares the method or the target.
TransitionBindable(g) ==
    /\ Owner # NoProvider /\ "transition" \in Owner.offers
    /\ WithinGrant(Owner, g) /\ OnStateDevice(g)

MaterializationBindable(g) ==
    /\ Owner # NoProvider /\ "materialize" \in Owner.offers
    /\ WithinGrant(Owner, g) /\ OnStateDevice(g)

\* A release needs the owner and the grant, on whatever device.
ReleaseBindable(g) == Owner # NoProvider /\ WithinGrant(Owner, g)

-----------------------------------------------------------------------------
(* Registration.                                                           *)

Changeable ==
    Overtaking \/ \A c \in Caller : gateway[c].step \in {"idle", "evaluating", "returned"}

Registration == {p.id : p \in ToSet(providers)}

\* Mutant: the certifications of a replaced provider stay.
ReplaceKeeping(p) ==
    /\ Changeable /\ p.id \in Registration
    /\ providers' = [k \in DOMAIN providers |->
                        IF providers[k].id = p.id THEN p ELSE providers[k]]
    /\ UNCHANGED <<certified, alive, held, gateway>>

RegisterProvider(p) ==
    /\ Changeable /\ p.id \notin Registration
    /\ providers' = Append(providers, p)
    /\ UNCHANGED <<certified, alive, held, gateway>>

\* register(replace=True): the place in the dictionary stays.
ReplaceProvider(p) ==
    /\ Changeable /\ p.id \in Registration
    /\ providers' = [k \in DOMAIN providers |->
                        IF providers[k].id = p.id THEN p ELSE providers[k]]
    /\ certified' = {q \in certified : q.id # p.id}
    /\ UNCHANGED <<alive, held, gateway>>

UnregisterProvider(id) ==
    /\ Changeable /\ id \in Registration
    /\ \E k \in DOMAIN providers :
          providers[k].id = id /\ providers' = RemoveAt(providers, k)
    /\ certified' = {q \in certified : q.id # id}
    /\ UNCHANGED <<alive, held, gateway>>

-----------------------------------------------------------------------------
(* Evaluation.                                                             *)

GatewayCalls(c, call) == gateway' = [gateway EXCEPT ![c] = call]

\* bind: the first of the candidates no other candidate outranks.
BindEvaluation(c, r, g) ==
    LET candidates == {p \in ToSet(providers) : Bindable(p, r, g)}
        best == {k \in DOMAIN providers :
                    /\ providers[k] \in candidates
                    /\ \A p \in candidates : ~Outranks(Score(p, r, g), Score(providers[k], r, g))}
    IN  /\ gateway[c].step = "idle"
        /\ \E k \in best :
              /\ \A j \in best : k <= j
              /\ GatewayCalls(c, [step |-> "evaluating", by |-> providers[k], request |-> r,
                                  grant |-> g, device |-> SelectDevice(providers[k], g)[1],
                                  among |-> ToSet(providers)])
        /\ UNCHANGED <<providers, certified, alive, held>>

\* The provider answers once: a result, or one that breaks the contract.
Evaluate(c) ==
    /\ gateway[c].step = "evaluating"
    /\ GatewayCalls(c, NoGatewayCall)
    /\ UNCHANGED <<providers, certified, alive, held>>

-----------------------------------------------------------------------------
(* Transitions.                                                            *)

BindTransition(c, g) ==
    /\ gateway[c].step = "idle" /\ TransitionBindable(g)
    /\ GatewayCalls(c, [step |-> "bound", by |-> Owner, grant |-> g])
    /\ UNCHANGED <<providers, certified, alive, held>>

\* _validate_transition_successor: skipped leaves the slot, applied renews it.
ValidSuccessor(old, status, new) ==
    IF status = "skipped" THEN new = old ELSE new # old

\* A new slot: the least one nobody holds or refers to.
Fresh ==
    LET used == (UNION {alive[p] : p \in Provider}) \cup {held[c] : c \in Caller}
                \cup (UNION {{gateway[c].old, gateway[c].new} :
                            c \in {d \in Caller : gateway[d].step \in
                                       {"applied", "verify", "record", "returned"}}})
        free == 1..MaxSlots \ used
    IN  {s \in free : \A t \in free : s <= t}

\* The bound provider works on a slot it holds (its own fence refuses others).
\* It may break the contract by changing the slot in place; one that does not
\* keep predecessors drops the old slot. A result that is no valid successor
\* is refused.
Transition(c, status, new) ==
    LET p == gateway[c].by
        old == held[c]
    IN  /\ gateway[c].step = "bound"
        /\ old # 0 => old \in alive[p]
        /\ status = "skipped" => old # 0
        /\ new \in Fresh \cup {old}
        /\ alive' = [alive EXCEPT ![p] =
                        IF status = "applied" /\ (new = old \/ ~p.keeps)
                        THEN (@ \ {old}) \cup ({new} \ {old}) ELSE @ \cup {new}]
        /\ p.keeps => ValidSuccessor(old, status, new)
        /\ GatewayCalls(c, IF ~ValidSuccessor(old, status, new) THEN NoGatewayCall
                    ELSE [step |-> IF status = "applied" /\ old # 0 THEN "applied"
                                   ELSE "returned",
                          by |-> p, grant |-> gateway[c].grant, old |-> old, new |-> new])
        /\ UNCHANGED <<providers, certified, held>>

\* The provider raises, or has no such state.
TransitionRaises(c) ==
    /\ gateway[c].step = "bound"
    /\ GatewayCalls(c, NoGatewayCall)
    /\ UNCHANGED <<providers, certified, alive, held>>

RequiresCertification(c) == ~\E p \in certified : p.id = gateway[c].by.id

LookUpCertification(c) ==
    /\ gateway[c].step = "applied"
    /\ GatewayCalls(c, [gateway[c] EXCEPT !.step =
                    IF RequiresCertification(c) THEN "verify" ELSE "returned"])
    /\ UNCHANGED <<providers, certified, alive, held>>

\* materialize: the owner registered now exports a slot it still holds.
Materializes(slot, g) == MaterializationBindable(g) /\ slot \in alive[Owner]

\* verify_copy_on_write_predecessors: the old slot is materialized; if that
\* fails, so does the transition.
VerifyPredecessor(c) ==
    /\ gateway[c].step = "verify"
    /\ GatewayCalls(c, IF Materializes(gateway[c].old, gateway[c].grant)
                THEN [gateway[c] EXCEPT !.step = "record"] ELSE NoGatewayCall)
    /\ UNCHANGED <<providers, certified, alive, held>>

RecordCertification(c) ==
    /\ gateway[c].step = "record"
    /\ certified' = IF RequiresCertification(c) THEN certified \cup {gateway[c].by}
                    ELSE certified
    /\ GatewayCalls(c, [gateway[c] EXCEPT !.step = "returned"])
    /\ UNCHANGED <<providers, alive, held>>

-----------------------------------------------------------------------------
(* The caller takes the new slot or goes back, and releases the other one. *)

\* The owner registered now drops what it holds of S; a release that cannot
\* be bound is refused.
Released(S, g) ==
    alive' = IF ReleaseBindable(g) THEN [alive EXCEPT ![Owner] = @ \ S] ELSE alive

Settle(c, keep) ==
    LET call == gateway[c]
    IN  /\ call.step = "returned" /\ keep \in {call.old, call.new}
        /\ held' = [held EXCEPT ![c] = keep]
        /\ Released({call.old, call.new} \ {keep}, call.grant)
        /\ GatewayCalls(c, NoGatewayCall)
        /\ UNCHANGED <<providers, certified>>

\* The whole trajectory is released.
ReleaseState(c, g) ==
    /\ gateway[c].step = "idle" /\ held[c] # 0 /\ ReleaseBindable(g)
    /\ held' = [held EXCEPT ![c] = 0]
    /\ Released({held[c]}, g)
    /\ UNCHANGED <<providers, certified, gateway>>

RegistrationNext ==
    \/ \E p \in Provider : RegisterProvider(p) \/ ReplaceProvider(p)
    \/ \E id \in Registration : UnregisterProvider(id)

EvaluationNext ==
    \E c \in Caller :
        Evaluate(c) \/ \E r \in Requests, g \in Grants : BindEvaluation(c, r, g)

TransitionNext ==
    \E c \in Caller :
        \/ \E g \in Grants : BindTransition(c, g) \/ ReleaseState(c, g)
        \/ \E status \in {"applied", "skipped"}, new \in 1..MaxSlots :
               Transition(c, status, new)
        \/ \E keep \in 0..MaxSlots : Settle(c, keep)
        \/ TransitionRaises(c) \/ LookUpCertification(c)
        \/ VerifyPredecessor(c) \/ RecordCertification(c)

RegistryNext == RegistrationNext \/ EvaluationNext \/ TransitionNext

RegistrySpec == RegistryInit /\ [][RegistryNext]_registryVars

-----------------------------------------------------------------------------
(* Properties *)

\* The choice of a provider depends on the request, the grant and the
\* registered providers, never on the order in which they were registered,
\* replaced or removed: what two callers are bound to agrees.
ChoiceIgnoresHistory ==
    \A c, d \in Caller :
        (/\ gateway[c].step = "evaluating" /\ gateway[d].step = "evaluating"
         /\ gateway[c].request = gateway[d].request
         /\ gateway[c].grant = gateway[d].grant
         /\ gateway[c].among = gateway[d].among)
        => gateway[c].by = gateway[d].by /\ gateway[c].device = gateway[d].device

\* A caller that was given an applied transition can still go back: the
\* provider that did it holds the slot it replaced, although only the first
\* transition of a provider is checked. (Of providers that always or never
\* keep predecessors.)
CallerCanGoBack ==
    \A c \in Caller :
        gateway[c].step = "returned" /\ gateway[c].old # 0
            => gateway[c].old \in alive[gateway[c].by]
=============================================================================
