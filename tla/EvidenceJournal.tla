-------------------------- MODULE EvidenceJournal --------------------------
(***************************************************************************)
(* EvaluationEvidenceJournal and its in-memory, SQLite and Redis backends: *)
(* one record per Evaluation Event, advanced from reservation to a         *)
(* verified decision by clients that race, repeat their calls and die.     *)
(*                                                                         *)
(* In memory and in SQLite an update is one step. In Redis it is an        *)
(* optimistic transaction: WATCH, GET and the updater, and then a SET that *)
(* fails when the key was written in between.                              *)
(***************************************************************************)
EXTENDS Integers

CONSTANTS
    Event,        \* event_id
    Client,       \* processes that use the journal
    Identity,     \* run_id, event_snapshot_key and identity of a reservation
    Key,          \* snapshot keys of dispositions and authorities
    None,         \* Python's None, and the empty snapshot key
    Intent,       \* the dispositions that clients prepare
    MaxWatch,     \* max_watch_retries
    Backends      \* the implementations considered

Active == {"preparing", "pending", "deciding"}
Decisions == {"committed", "rejected", "failed"}
Terminal == Decisions \cup {"abandoned"}

\* EvaluationDispositionEnvelope; of is its event_snapshot_key.
Envelope == [status : Decisions, of : Identity, authority : Key \cup {None}]

\* EvaluationDispositionVerificationReceipt; the digest of a disposition
\* stands for the disposition, by for the verifier and the time.
Receipt == [of : Identity, destination : Key, digest : Envelope, by : Client]

Record == [status : Active \cup Terminal \cup {"none"}, identity : Identity \cup {None},
           disposition : Envelope \cup {None}, key : Key \cup {None},
           verification : Receipt \cup {None}, revision : Nat]

NoRecord == [status |-> "none", identity |-> None, disposition |-> None, key |-> None,
             verification |-> None, revision |-> 0]

ASSUME JournalConstants ==
    /\ None \notin Identity \cup Key \cup Envelope \cup Receipt
    /\ Intent \subseteq Envelope
    /\ \A d \in Intent : d.status = "committed" => d.authority # None
    /\ MaxWatch \in Nat \ {0}
    /\ Backends \subseteq {"memory", "sqlite", "redis"}

VARIABLES
    backend,      \* the implementation in use, fixed from the start
    records,      \* event -> its record
    calls,        \* client -> its Redis transaction
    seen          \* client, event -> the last record the journal gave it

vars == <<backend, records, calls, seen>>

\* A call of the journal: what the client passes, and the revision it expects.
Ops == {"reserve", "durable", "prepare", "settle", "abandon"}
Arguments == [op : Ops, event : Event, identity : Identity \cup {None},
              intent : Envelope \cup {None}, key : Key \cup {None},
              receipt : Receipt \cup {None}, expected : Nat \cup {None}]
Request ==
    {q \in Arguments : /\ q.op = "reserve" => q.identity \in Identity
                       /\ q.op = "prepare" => q.intent \in Envelope
                       /\ q.op = "settle"  => q.receipt \in Receipt}

\* Between GET and EXEC: the record to be written, and whether the watched
\* key has been written since.
Watch == [req : Request, updated : Record, dirty : BOOLEAN, tries : 1 .. MaxWatch]

\* What an earlier version left: the fourth revision, a decision without a
\* receipt.
LegacyRecord ==
    {[status |-> d.status, identity |-> d.of, disposition |-> d, key |-> k,
      verification |-> None, revision |-> 4] : d \in Intent, k \in Key \cup {None}}

-----------------------------------------------------------------------------
(* The transitions: when an updater accepts the current record, and what it *)
(* makes of it                                                              *)

\* _next: everything else is kept.
Advanced(r, status) == [r EXCEPT !.status = status, !.revision = @ + 1]

\* reserve
Reserved(i) == [NoRecord EXCEPT !.status = "preparing", !.identity = i, !.revision = 1]
ReserveOk(r, i) == r = NoRecord \/ r.identity = i
ReserveNew(r, i) == IF r = NoRecord THEN Reserved(i) ELSE r

\* mark_event_durable
DurableNew(r) == IF r.status = "preparing" THEN Advanced(r, "pending") ELSE r

\* prepare_disposition: repeated, it must be the same disposition.
PrepareOk(r, d, k) ==
    /\ d.of = r.identity
    /\ \/ r.status = "pending"
       \/ r.status = "deciding" /\ r.disposition = d /\ r.key = k
       \/ r.status = d.status /\ r.disposition = d
PrepareNew(r, d, k) ==
    IF r.status = "pending" THEN [Advanced(r, "deciding") EXCEPT !.disposition = d, !.key = k]
    ELSE r

\* Where the effect of a disposition is to be found.
Destination(r) ==
    IF r.disposition.status = "committed" THEN r.disposition.authority ELSE r.key

\* The receipt is about this Event, this disposition and its destination.
Bound(r, v) == v.of = r.identity /\ v.destination = Destination(r) /\ v.digest = r.disposition

\* Mutant: the destination is not compared.
SettleAnywhere(r, v) ==
    /\ r.disposition # None /\ v.of = r.identity /\ v.digest = r.disposition
    /\ r.status = "deciding"

\* settle: the prepared decision becomes terminal; a legacy decision gets the
\* receipt it never had; repeated, it must be the same receipt.
SettleOk(r, v) ==
    /\ r.disposition # None
    /\ Bound(r, v)
    /\ \/ r.status \in Decisions /\ r.verification \in {None, v}
       \/ r.status = "deciding"
SettleNew(r, v) ==
    IF r.verification = v THEN r
    ELSE [Advanced(r, r.disposition.status) EXCEPT !.verification = v]

\* abandon
AbandonOk(r) == r.status \notin Decisions
AbandonNew(r) == IF r.status = "abandoned" THEN r ELSE Advanced(r, "abandoned")

\* _expected
Expected(r, x) == x \in {None, r.revision}

Accepts(q, r) ==
    /\ q.op # "reserve" => r # NoRecord /\ Expected(r, q.expected)
    /\ q.op = "reserve" => ReserveOk(r, q.identity)
    /\ q.op = "prepare" => PrepareOk(r, q.intent, q.key)
    /\ q.op = "settle"  => SettleOk(r, q.receipt)
    /\ q.op = "abandon" => AbandonOk(r)

Updated(q, r) ==
    IF q.op = "reserve" THEN ReserveNew(r, q.identity)
    ELSE IF q.op = "durable" THEN DurableNew(r)
    ELSE IF q.op = "prepare" THEN PrepareNew(r, q.intent, q.key)
    ELSE IF q.op = "settle" THEN SettleNew(r, q.receipt)
    ELSE AbandonNew(r)

-----------------------------------------------------------------------------
(* _atomic_update *)

Init ==
    /\ backend \in Backends
    /\ records \in [Event -> LegacyRecord \cup {NoRecord}]
    /\ calls = [c \in Client |-> None]
    /\ seen = [c \in Client |-> [e \in Event |-> NoRecord]]

\* The record is stored, and the client learns of it unless it or the
\* connection dies first.
Store(c, e, r) ==
    /\ records' = [records EXCEPT ![e] = r]
    /\ seen' \in {seen, [seen EXCEPT ![c][e] = r]}

\* One attempt in Redis: WATCH, GET, and the updater.
Watching(q, n) ==
    [req |-> q, updated |-> Updated(q, records[q.event]), dirty |-> FALSE, tries |-> n]

\* A call that the updater refuses raises and changes nothing.
Call(c, q) ==
    /\ calls[c] = None
    /\ Accepts(q, records[q.event])
    /\ IF backend = "redis"
       THEN /\ calls' = [calls EXCEPT ![c] = Watching(q, 1)]
            /\ UNCHANGED <<records, seen>>
       ELSE Store(c, q.event, Updated(q, records[q.event])) /\ UNCHANGED calls
    /\ UNCHANGED backend

\* Mutant: EXEC succeeds although the watched key was written.
CleanAnyway(c) == calls[c] # None

Clean(c) == calls[c] # None /\ ~calls[c].dirty

\* EXEC: the key is written, also when the record stays the same, and every
\* other transaction that watches it will fail.
Execute(c) ==
    LET e == calls[c].req.event
    IN  /\ Clean(c)
        /\ Store(c, e, calls[c].updated)
        /\ calls' = [d \in Client |->
              IF d = c THEN None
              ELSE IF calls[d] # None /\ calls[d].req.event = e
                   THEN [calls[d] EXCEPT !.dirty = TRUE]
              ELSE calls[d]]
        /\ UNCHANGED backend

\* WatchError: again from the start, at most MaxWatch times; the updater may
\* now refuse.
Retry(c) ==
    /\ calls[c] # None /\ calls[c].dirty
    /\ LET q == calls[c].req
           n == calls[c].tries
       IN  calls' = [calls EXCEPT ![c] =
              IF n < MaxWatch /\ Accepts(q, records[q.event]) THEN Watching(q, n + 1) ELSE None]
    /\ UNCHANGED <<backend, records, seen>>

\* The client dies between GET and EXEC.
Die(c) ==
    /\ calls[c] # None
    /\ calls' = [calls EXCEPT ![c] = None]
    /\ UNCHANGED <<backend, records, seen>>

-----------------------------------------------------------------------------
(* The public operations *)

NewCall(op, e, x) == [op |-> op, event |-> e, identity |-> None, intent |-> None,
                     key |-> None, receipt |-> None, expected |-> x]

\* A client expects nothing, or the revision it knows.
Expecting(c, e) == {None, seen[c][e].revision}

reserve(c, e, i) == Call(c, [NewCall("reserve", e, None) EXCEPT !.identity = i])

mark_event_durable(c, e, x) == Call(c, NewCall("durable", e, x))

prepare_disposition(c, e, d, k, x) ==
    Call(c, [NewCall("prepare", e, x) EXCEPT !.intent = d, !.key = k])

\* The receipt may be about any disposition, not only the one on record.
ReceiptsBy(c) == [of : Identity, destination : Key, digest : Intent, by : {c}]

settle(c, e, v, x) == Call(c, [NewCall("settle", e, x) EXCEPT !.receipt = v])

abandon(c, e, x) == Call(c, NewCall("abandon", e, x))

get(c, e) ==
    /\ calls[c] = None
    /\ seen' = [seen EXCEPT ![c][e] = records[e]]
    /\ UNCHANGED <<backend, records, calls>>

Next ==
    \E c \in Client :
        \/ \E e \in Event :
              \/ \E i \in Identity : reserve(c, e, i)
              \/ get(c, e)
              \/ \E x \in Expecting(c, e) :
                    \/ mark_event_durable(c, e, x)
                    \/ \E d \in Intent, k \in Key \cup {None} : prepare_disposition(c, e, d, k, x)
                    \/ \E v \in ReceiptsBy(c) : settle(c, e, v, x)
                    \/ abandon(c, e, x)
        \/ Execute(c) \/ Retry(c) \/ Die(c)

Spec == Init /\ [][Next]_vars

-----------------------------------------------------------------------------
(* Properties *)

\* What EvaluationEvidenceRecord.__post_init__ demands: a transition that
\* built anything else would raise ValueError in the middle of an update.
ValidRecord(r) ==
    /\ r.status \in {"preparing", "pending"} => r.disposition = None
    /\ r.status \in Decisions \cup {"deciding"} => r.disposition # None
    /\ r.status \in Decisions => r.disposition.status = r.status
    /\ r.verification # None =>
          /\ r.status \in Decisions
          /\ r.verification.of = r.identity /\ r.verification.digest = r.disposition
    /\ r.status = "none" <=> r = NoRecord

\* Every stored record is well formed, and so is every record that a Redis
\* transaction is about to store.
TypeOK ==
    /\ backend \in Backends
    /\ records \in [Event -> Record]
    /\ \A e \in Event : ValidRecord(records[e])
    /\ calls \in [Client -> Watch \cup {None}]
    /\ \A c \in Client : calls[c] # None => ValidRecord(calls[c].updated)
    /\ seen \in [Client -> [Event -> Record]]

\* Nothing a client was told is taken back by another one: a later revision
\* keeps the identity, the disposition, a terminal status and the receipt, and
\* a revision names one content (expected_revision means what it says).
Keeps(old, new) ==
    /\ old.revision <= new.revision
    /\ old.revision = new.revision => old = new
    /\ old.identity \in {None, new.identity}
    /\ old.disposition \in {None, new.disposition}
    /\ old.verification \in {None, new.verification}
    /\ old.status \in Terminal => new.status = old.status

SeenStays == \A c \in Client, e \in Event : Keeps(seen[c][e], records[e])

\* "preparing -> pending -> deciding -> terminal": a record only moves along
\* these edges, or is abandoned before a decision; a terminal record changes
\* once at most, to receive the receipt it lacks; each change is one revision.
Edges == {<<"none", "preparing">>, <<"preparing", "pending">>, <<"pending", "deciding">>}
            \cup {<<"deciding", s>> : s \in Decisions}
            \cup {<<s, "abandoned">> : s \in Active}

RecordAdvances(old, new) ==
    /\ new.revision = old.revision + 1
    /\ \/ <<old.status, new.status>> \in Edges
       \/ /\ old.status \in Decisions /\ old.verification = None
          /\ new.verification # None
          /\ new = [old EXCEPT !.verification = new.verification, !.revision = @ + 1]

RecordsAdvance ==
    [][\A e \in Event : records'[e] # records[e] => RecordAdvances(records[e], records'[e])]_vars

\* A decision is only written with a receipt that is bound to the Event, to
\* the disposition and to the snapshot that carries its effect, also when the
\* record changed between the verification and the update.
DecisionsAreVerified ==
    [][\A e \in Event :
          records'[e] # records[e] /\ records'[e].status \in Decisions =>
              /\ records'[e].verification # None
              /\ Bound(records'[e], records'[e].verification)]_vars
=============================================================================
