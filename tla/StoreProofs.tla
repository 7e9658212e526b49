---------------------------- MODULE StoreProofs ----------------------------
(***************************************************************************)
(* Proofs about what the process of a Case stores: the evidence journal,   *)
(* the snapshots in memory, in Redis and in files, and the states of       *)
(* evaluation providers, for any number of events, clients, processes,     *)
(* revisions, payloads, providers and slots.                               *)
(*                                                                         *)
(* The journal rests on two lemmas: UpdateStep says what one updater may   *)
(* do to one record, and CleanCalls that a Redis transaction whose key was *)
(* not written still holds the update of the current record. The snapshots *)
(* rest on what a call in progress has read of the pins: CallsAreCurrent   *)
(* and CallIsCurrent say that it still holds when the call uses it.        *)
(***************************************************************************)
EXTENDS EvidenceJournal, SnapshotStore, FileSnapshotStore, EvaluationRegistry,
        SequenceTheorems, SumTheorems, TLAPS

-----------------------------------------------------------------------------
(* One record *)

\* An Event nobody reserved yet has a well-formed record.
LEMMA NoRecordOk == NoRecord \in Record /\ ValidRecord(NoRecord)
BY JournalConstants DEF NoRecord, Record, ValidRecord, Decisions

\* Records of the older schema are well formed.
LEMMA LegacyOk ==
    ASSUME NEW r \in LegacyRecord
    PROVE  r \in Record /\ ValidRecord(r)
<1>1. PICK d \in Intent, k \in Key \cup {None} :
         r = [status |-> d.status, identity |-> d.of, disposition |-> d, key |-> k,
              verification |-> None, revision |-> 4]
  BY DEF LegacyRecord
<1>2. d \in Envelope /\ d # None
  BY JournalConstants
<1>. QED
  BY <1>1, <1>2 DEF Record, ValidRecord, NoRecord, Envelope, Decisions, Active, Terminal

\* What an update that is not a repetition does.
Effect(r, n) ==
    /\ RecordAdvances(r, n)
    /\ n.status \in Decisions => n.verification # None /\ Bound(n, n.verification)

\* reserve on one record.
LEMMA ReserveStep ==
    ASSUME NEW r \in Record, ValidRecord(r), NEW i \in Identity, ReserveOk(r, i)
    PROVE  LET n == ReserveNew(r, i)
           IN  n \in Record /\ ValidRecord(n) /\ Keeps(r, n) /\ (n # r => Effect(r, n))
<1>1. CASE r = NoRecord
  <2>1. ReserveNew(r, i) = [status |-> "preparing", identity |-> i, disposition |-> None,
                            key |-> None, verification |-> None, revision |-> 1]
    BY <1>1 DEF ReserveNew, Reserved, NoRecord
  <2>. QED
    BY <1>1, <2>1, JournalConstants
    DEF NoRecord, Record, ValidRecord, Keeps, Effect, RecordAdvances, Edges,
        Active, Decisions, Terminal
<1>2. CASE r # NoRecord
  BY <1>2 DEF ReserveNew, Keeps, Record
<1>. QED BY <1>1, <1>2

\* A record that differs from r in its revision, and perhaps in its status,
\* disposition, key and receipt, field by field.
IsNext(r, n, status, d, k, v) ==
    /\ n \in [status : {status}, identity : {r.identity}, disposition : {d}, key : {k},
              verification : {v}, revision : {r.revision + 1}]
    /\ n.status = status /\ n.identity = r.identity /\ n.disposition = d /\ n.key = k
    /\ n.verification = v /\ n.revision = r.revision + 1

\* mark_event_durable on one record.
LEMMA DurableStep ==
    ASSUME NEW r \in Record, ValidRecord(r)
    PROVE  LET n == DurableNew(r)
           IN  n \in Record /\ ValidRecord(n) /\ Keeps(r, n) /\ (n # r => Effect(r, n))
<1>1. CASE r.status = "preparing"
  <2>1. PICK n : n = DurableNew(r)
    OBVIOUS
  <2>2. IsNext(r, n, "pending", r.disposition, r.key, r.verification)
    BY <1>1, <2>1 DEF DurableNew, Advanced, Record, IsNext
  <2>3. r.disposition = None /\ r.verification = None
    BY <1>1 DEF ValidRecord, Decisions
  <2>4. n \in Record
    BY <2>2 DEF IsNext, Record, Active
  <2>5. ValidRecord(n)
    BY <2>2, <2>3 DEF IsNext, ValidRecord, Decisions, NoRecord
  <2>6. Keeps(r, n)
    BY <1>1, <2>2 DEF IsNext, Keeps, Record, Terminal, Decisions
  <2>7. Effect(r, n)
    BY <1>1, <2>2 DEF IsNext, Effect, RecordAdvances, Edges, Decisions
  <2>. QED BY <2>1, <2>4, <2>5, <2>6, <2>7
<1>2. CASE r.status # "preparing"
  BY <1>2 DEF DurableNew, Keeps, Record
<1>. QED BY <1>1, <1>2

\* prepare_disposition on one record.
LEMMA PrepareStep ==
    ASSUME NEW r \in Record, ValidRecord(r), NEW d \in Envelope, NEW k \in Key \cup {None},
           PrepareOk(r, d, k)
    PROVE  LET n == PrepareNew(r, d, k)
           IN  n \in Record /\ ValidRecord(n) /\ Keeps(r, n) /\ (n # r => Effect(r, n))
<1>1. CASE r.status = "pending"
  <2>1. PICK n : n = PrepareNew(r, d, k)
    OBVIOUS
  <2>2. IsNext(r, n, "deciding", d, k, r.verification)
    BY <1>1, <2>1 DEF PrepareNew, Advanced, Record, IsNext
  <2>3. r.disposition = None /\ r.verification = None /\ d # None
    BY <1>1, JournalConstants DEF ValidRecord, Decisions
  <2>4. n \in Record
    BY <2>2 DEF IsNext, Record, Active
  <2>5. ValidRecord(n)
    BY <2>2, <2>3 DEF IsNext, ValidRecord, Decisions, NoRecord
  <2>6. Keeps(r, n)
    BY <1>1, <2>2, <2>3 DEF IsNext, Keeps, Record, Terminal, Decisions
  <2>7. Effect(r, n)
    BY <1>1, <2>2 DEF IsNext, Effect, RecordAdvances, Edges, Decisions
  <2>. QED BY <2>1, <2>4, <2>5, <2>6, <2>7
<1>2. CASE r.status # "pending"
  BY <1>2 DEF PrepareNew, Keeps, Record
<1>. QED BY <1>1, <1>2

\* settle on one record.
LEMMA SettleStep ==
    ASSUME NEW r \in Record, ValidRecord(r), NEW v \in Receipt, SettleOk(r, v)
    PROVE  LET n == SettleNew(r, v)
           IN  n \in Record /\ ValidRecord(n) /\ Keeps(r, n) /\ (n # r => Effect(r, n))
<1>1. CASE r.verification # v
  <2>1. v # None /\ r.disposition \in Envelope /\ r.disposition.status \in Decisions
    BY JournalConstants DEF SettleOk, Record, Envelope
  <2>2. r.verification = None /\ r.status \in Decisions \cup {"deciding"}
    BY <1>1 DEF SettleOk, ValidRecord, Decisions
  <2>3. PICK n : n = SettleNew(r, v)
    OBVIOUS
  <2>4. IsNext(r, n, r.disposition.status, r.disposition, r.key, v)
    BY <1>1, <2>3 DEF SettleNew, Advanced, Record, IsNext
  <2>5. n \in Record
    BY <2>1, <2>4 DEF IsNext, Record, Terminal
  <2>6. ValidRecord(n)
    BY <2>1, <2>4 DEF IsNext, ValidRecord, SettleOk, Bound, Decisions, NoRecord
  <2>7. r.status \in Decisions => r.status = r.disposition.status
    BY DEF ValidRecord
  <2>8. Keeps(r, n)
    BY <2>2, <2>4, <2>7 DEF IsNext, Keeps, Record, Terminal
  <2>9. RecordAdvances(r, n)
    <3>1. CASE r.status = "deciding"
      BY <3>1, <2>1, <2>4 DEF IsNext, RecordAdvances, Edges
    <3>2. CASE r.status \in Decisions
      <4>1. n = [r EXCEPT !.verification = n.verification, !.revision = r.revision + 1]
        BY <3>2, <2>4, <2>7 DEF IsNext, Record
      <4>. QED
        BY <3>2, <4>1, <2>1, <2>2, <2>4 DEF IsNext, RecordAdvances
    <3>. QED BY <3>1, <3>2, <2>2
  <2>10. Bound(n, n.verification) /\ n.verification # None
    BY <2>1, <2>4 DEF IsNext, SettleOk, Bound, Destination
  <2>. QED BY <2>3, <2>5, <2>6, <2>8, <2>9, <2>10 DEF Effect
<1>2. CASE r.verification = v
  BY <1>2 DEF SettleNew, Keeps, Record
<1>. QED BY <1>1, <1>2

\* abandon on one record.
LEMMA AbandonStep ==
    ASSUME NEW r \in Record, ValidRecord(r), r # NoRecord, AbandonOk(r)
    PROVE  LET n == AbandonNew(r)
           IN  n \in Record /\ ValidRecord(n) /\ Keeps(r, n) /\ (n # r => Effect(r, n))
<1>1. CASE r.status # "abandoned"
  <2>1. PICK n : n = AbandonNew(r)
    OBVIOUS
  <2>2. IsNext(r, n, "abandoned", r.disposition, r.key, r.verification)
    BY <1>1, <2>1 DEF AbandonNew, Advanced, Record, IsNext
  <2>3. r.status \in Active /\ r.verification = None
    BY <1>1 DEF ValidRecord, AbandonOk, Record, Terminal
  <2>4. n \in Record
    BY <2>2 DEF IsNext, Record, Terminal
  <2>5. ValidRecord(n)
    BY <2>2, <2>3 DEF IsNext, ValidRecord, Decisions, NoRecord
  <2>6. Keeps(r, n)
    BY <2>2, <2>3 DEF IsNext, Keeps, Record, Active, Terminal, Decisions
  <2>7. Effect(r, n)
    BY <2>2, <2>3 DEF IsNext, Effect, RecordAdvances, Edges, Decisions
  <2>. QED BY <2>1, <2>4, <2>5, <2>6, <2>7
<1>2. CASE r.status = "abandoned"
  BY <1>2 DEF AbandonNew, Keeps, Record
<1>. QED BY <1>1, <1>2

\* Whatever is called: the updater makes a well-formed record that keeps what
\* the old one said, and is one step ahead of it unless it is the same.
LEMMA UpdateStep ==
    ASSUME NEW r \in Record, ValidRecord(r), NEW q \in Request, Accepts(q, r)
    PROVE  LET n == Updated(q, r)
           IN  n \in Record /\ ValidRecord(n) /\ Keeps(r, n) /\ (n # r => Effect(r, n))
<1>1. CASE q.op = "reserve"
  BY <1>1, ReserveStep DEF Updated, Accepts, Request, Arguments
<1>2. CASE q.op = "durable"
  BY <1>2, DurableStep DEF Updated
<1>3. CASE q.op = "prepare"
  BY <1>3, PrepareStep DEF Updated, Accepts, Request, Arguments
<1>4. CASE q.op = "settle"
  BY <1>4, SettleStep DEF Updated, Accepts, Request, Arguments
<1>5. CASE q.op = "abandon"
  BY <1>5, AbandonStep DEF Updated, Accepts, Request, Arguments
<1>. QED BY <1>1, <1>2, <1>3, <1>4, <1>5 DEF Request, Arguments, Ops

\* What was kept twice is kept.
LEMMA KeepsTransitive ==
    ASSUME NEW a \in Record, NEW b \in Record, NEW d \in Record, Keeps(a, b), Keeps(b, d)
    PROVE  Keeps(a, d)
BY DEF Keeps, Record, Terminal

-----------------------------------------------------------------------------
(* The inductive invariant *)

\* A transaction whose watched key was not written holds the update of the
\* record that is stored now.
CleanCalls ==
    \A c \in Client : Clean(c) =>
        LET q == calls[c].req
        IN  Accepts(q, records[q.event]) /\ calls[c].updated = Updated(q, records[q.event])

\* Only Redis leaves a call unfinished between two steps.
OnlyRedisWaits == backend # "redis" => \A c \in Client : calls[c] = None

JournalInv == TypeOK /\ CleanCalls /\ OnlyRedisWaits /\ SeenStays

\* The invariant at the start, with records of the older schema or none.
LEMMA InitInv == Init => JournalInv
<1>. SUFFICES ASSUME Init PROVE JournalInv
  OBVIOUS
<1>1. \A e \in Event : records[e] \in Record /\ ValidRecord(records[e])
  BY LegacyOk, NoRecordOk DEF Init
<1>2. TypeOK
  <2>1. records \in [Event -> Record]
    BY <1>1 DEF Init
  <2>. QED
    BY <2>1, <1>1, NoRecordOk DEF Init, TypeOK
<1>3. CleanCalls
  BY DEF Init, CleanCalls, Clean
<1>4. SeenStays
  <2>. SUFFICES ASSUME NEW c \in Client, NEW e \in Event PROVE Keeps(seen[c][e], records[e])
    BY DEF SeenStays
  <2>1. seen[c][e] = NoRecord
    BY DEF Init
  <2>2. CASE records[e] = NoRecord
    BY <2>1, <2>2 DEF Keeps, NoRecord, Terminal
  <2>3. CASE records[e] \in LegacyRecord
    <3>1. records[e].revision = 4
      BY <2>3 DEF LegacyRecord
    <3>. QED
      BY <2>1, <3>1 DEF Keeps, NoRecord, Terminal, Decisions
  <2>. QED BY <2>2, <2>3 DEF Init
<1>5. OnlyRedisWaits
  BY DEF Init, OnlyRedisWaits
<1>. QED BY <1>2, <1>3, <1>4, <1>5 DEF JournalInv

\* The record of an event is replaced by an update of it.
Stores(c, q) ==
    /\ q \in Request
    /\ Accepts(q, records[q.event])
    /\ Store(c, q.event, Updated(q, records[q.event]))

\* Every step is a call, a read, or a step of a transaction.
LEMMA NextShape ==
    ASSUME JournalInv, Next
    PROVE  \E c \in Client :
              \/ \E q \in Request : Call(c, q)
              \/ \E e \in Event : get(c, e)
              \/ Execute(c) \/ Retry(c) \/ Die(c)
<1>1. PICK c \in Client :
        \/ \E e \in Event :
              \/ \E i \in Identity : reserve(c, e, i)
              \/ get(c, e)
              \/ \E x \in Expecting(c, e) :
                    \/ mark_event_durable(c, e, x)
                    \/ \E d \in Intent, k \in Key \cup {None} : prepare_disposition(c, e, d, k, x)
                    \/ \E v \in ReceiptsBy(c) : settle(c, e, v, x)
                    \/ abandon(c, e, x)
        \/ Execute(c) \/ Retry(c) \/ Die(c)
  BY DEF Next
<1>2. CASE Execute(c) \/ Retry(c) \/ Die(c)
  BY <1>2
<1>3. ASSUME NEW e \in Event,
             \/ \E i \in Identity : reserve(c, e, i)
             \/ get(c, e)
             \/ \E x \in Expecting(c, e) :
                   \/ mark_event_durable(c, e, x)
                   \/ \E d \in Intent, k \in Key \cup {None} : prepare_disposition(c, e, d, k, x)
                   \/ \E v \in ReceiptsBy(c) : settle(c, e, v, x)
                   \/ abandon(c, e, x)
      PROVE  (\E q \in Request : Call(c, q)) \/ get(c, e)
  <2>1. ASSUME NEW i \in Identity, reserve(c, e, i)
        PROVE  \E q \in Request : Call(c, q)
    <3>1. [NewCall("reserve", e, None) EXCEPT !.identity = i] \in Request
      BY DEF NewCall, Request, Arguments, Ops
    <3>. QED BY <2>1, <3>1 DEF reserve
  <2>2. ASSUME NEW x \in Expecting(c, e),
               \/ mark_event_durable(c, e, x)
               \/ \E d \in Intent, k \in Key \cup {None} : prepare_disposition(c, e, d, k, x)
               \/ \E v \in ReceiptsBy(c) : settle(c, e, v, x)
               \/ abandon(c, e, x)
        PROVE  \E q \in Request : Call(c, q)
    <3>1. x \in Nat \cup {None}
      BY DEF Expecting, JournalInv, TypeOK, Record
    <3>2. CASE mark_event_durable(c, e, x)
      <4>1. NewCall("durable", e, x) \in Request
        BY <3>1 DEF NewCall, Request, Arguments, Ops
      <4>. QED BY <3>2, <4>1 DEF mark_event_durable
    <3>3. ASSUME NEW d \in Intent, NEW k \in Key \cup {None}, prepare_disposition(c, e, d, k, x)
          PROVE  \E q \in Request : Call(c, q)
      <4>1. [NewCall("prepare", e, x) EXCEPT !.intent = d, !.key = k] \in Request
        BY <3>1, JournalConstants DEF NewCall, Request, Arguments, Ops
      <4>. QED BY <3>3, <4>1 DEF prepare_disposition
    <3>4. ASSUME NEW v \in ReceiptsBy(c), settle(c, e, v, x)
          PROVE  \E q \in Request : Call(c, q)
      <4>1. v \in Receipt
        BY JournalConstants DEF ReceiptsBy, Receipt
      <4>2. [NewCall("settle", e, x) EXCEPT !.receipt = v] \in Request
        BY <3>1, <4>1 DEF NewCall, Request, Arguments, Ops
      <4>. QED BY <3>4, <4>2 DEF settle
    <3>5. CASE abandon(c, e, x)
      <4>1. NewCall("abandon", e, x) \in Request
        BY <3>1 DEF NewCall, Request, Arguments, Ops
      <4>. QED BY <3>5, <4>1 DEF abandon
    <3>. QED BY <2>2, <3>2, <3>3, <3>4, <3>5
  <2>. QED BY <1>3, <2>1, <2>2
<1>. QED BY <1>1, <1>2, <1>3

\* Whoever writes: records stay well formed, each one keeps what it said, and
\* so does what clients have seen.
LEMMA StoreStep ==
    ASSUME JournalInv, NEW c \in Client, NEW q, Stores(c, q)
    PROVE  /\ records' \in [Event -> Record]
           /\ seen' \in [Client -> [Event -> Record]]
           /\ \A e \in Event : ValidRecord(records'[e])
           /\ \A e \in Event : e # q.event => records'[e] = records[e]
           /\ \A e \in Event : records'[e] # records[e] => Effect(records[e], records'[e])
           /\ SeenStays'
<1>1. q.event \in Event /\ q \in Request
  BY DEF Stores, Request, Arguments
<1>2. PICK n : n = Updated(q, records[q.event])
  OBVIOUS
<1>3. /\ n \in Record /\ ValidRecord(n)
      /\ Keeps(records[q.event], n)
      /\ n # records[q.event] => Effect(records[q.event], n)
  BY <1>1, <1>2, UpdateStep DEF JournalInv, TypeOK, Stores
<1>4. /\ records \in [Event -> Record] /\ \A e \in Event : ValidRecord(records[e])
      /\ seen \in [Client -> [Event -> Record]] /\ SeenStays
  BY DEF JournalInv, TypeOK
<1>5. /\ records' = [records EXCEPT ![q.event] = n]
      /\ seen' = seen \/ seen' = [seen EXCEPT ![c][q.event] = n]
  BY <1>2 DEF Stores, Store
<1>6. /\ records' \in [Event -> Record]
      /\ seen' \in [Client -> [Event -> Record]]
      /\ \A e \in Event : ValidRecord(records'[e])
      /\ \A e \in Event : e # q.event => records'[e] = records[e]
      /\ \A e \in Event : records'[e] # records[e] => Effect(records[e], records'[e])
  BY <1>1, <1>3, <1>4, <1>5
<1>7. SeenStays'
  <2>. SUFFICES ASSUME NEW d \in Client, NEW e \in Event
                PROVE  Keeps(seen'[d][e], records'[e])
    BY DEF SeenStays
  <2>1. CASE seen'[d][e] = seen[d][e]
    <3>1. Keeps(seen[d][e], records[e])
      BY <1>4 DEF SeenStays
    <3>2. CASE e = q.event
      BY <2>1, <3>1, <3>2, <1>1, <1>3, <1>4, <1>5, KeepsTransitive
    <3>3. CASE e # q.event
      BY <2>1, <3>1, <3>3, <1>6
    <3>. QED BY <3>2, <3>3
  <2>2. CASE seen'[d][e] # seen[d][e]
    <3>1. e = q.event /\ seen'[d][e] = n
      BY <2>2, <1>1, <1>4, <1>5
    <3>2. records'[e] = n
      BY <3>1, <1>1, <1>4, <1>5
    <3>. QED BY <3>1, <3>2, <1>3 DEF Keeps, Record
  <2>. QED BY <2>1, <2>2
<1>. QED BY <1>6, <1>7

\* In a state of the invariant a transaction that EXEC lets pass is a Store.
LEMMA ExecuteStores ==
    ASSUME JournalInv, NEW c \in Client, Execute(c)
    PROVE  Stores(c, calls[c].req)
<1>1. calls[c] \in Watch
  BY DEF JournalInv, TypeOK, Execute, Clean
<1>2. /\ Accepts(calls[c].req, records[calls[c].req.event])
      /\ calls[c].updated = Updated(calls[c].req, records[calls[c].req.event])
  BY DEF JournalInv, CleanCalls, Execute
<1>. QED BY <1>1, <1>2 DEF Stores, Execute, Watch

\* A transaction that a client starts is about to write a well-formed record.
LEMMA WatchingOk ==
    ASSUME JournalInv, NEW q \in Request, NEW n \in 1 .. MaxWatch,
           Accepts(q, records[q.event])
    PROVE  Watching(q, n) \in Watch /\ ValidRecord(Watching(q, n).updated)
<1>1. records[q.event] \in Record /\ ValidRecord(records[q.event])
  BY DEF JournalInv, TypeOK, Request, Arguments
<1>2. Updated(q, records[q.event]) \in Record /\ ValidRecord(Updated(q, records[q.event]))
  BY <1>1, UpdateStep
<1>. QED BY <1>2 DEF Watching, Watch

\* A step that starts, repeats or ends c's transaction and writes nothing.
LEMMA TransactionStep ==
    ASSUME JournalInv, NEW c \in Client, UNCHANGED <<backend, records, seen>>, backend = "redis",
           NEW w, calls' = [calls EXCEPT ![c] = w],
           \/ w = None
           \/ \E q \in Request, n \in 1 .. MaxWatch :
                 w = Watching(q, n) /\ Accepts(q, records[q.event])
    PROVE  JournalInv'
<1>1. w = None \/ (w \in Watch /\ ValidRecord(w.updated))
  BY WatchingOk
<1>2. calls \in [Client -> Watch \cup {None}]
  BY DEF JournalInv, TypeOK
<1>3. TypeOK'
  <2>1. calls' \in [Client -> Watch \cup {None}]
    BY <1>1, <1>2
  <2>2. \A d \in Client : calls'[d] # None => ValidRecord(calls'[d].updated)
    BY <1>1, <1>2 DEF JournalInv, TypeOK
  <2>. QED BY <2>1, <2>2 DEF JournalInv, TypeOK
<1>4. CleanCalls'
  <2>. SUFFICES ASSUME NEW d \in Client, Clean(d)'
                PROVE  /\ Accepts(calls'[d].req, records[calls'[d].req.event])
                       /\ calls'[d].updated = Updated(calls'[d].req, records[calls'[d].req.event])
    BY DEF CleanCalls
  <2>1. CASE d = c
    <3>1. calls'[d] = w /\ w # None
      BY <2>1, <1>2 DEF Clean
    <3>. QED BY <3>1 DEF Watching
  <2>2. CASE d # c
    <3>1. calls'[d] = calls[d]
      BY <2>2, <1>2
    <3>. QED BY <3>1 DEF JournalInv, CleanCalls, Clean
  <2>. QED BY <2>1, <2>2
<1>5. SeenStays' /\ OnlyRedisWaits'
  BY DEF JournalInv, SeenStays, OnlyRedisWaits
<1>. QED BY <1>3, <1>4, <1>5 DEF JournalInv

\* Every step of the journal keeps its invariant.
LEMMA NextInv == JournalInv /\ [Next]_vars => JournalInv'
<1>. SUFFICES ASSUME JournalInv, [Next]_vars PROVE JournalInv'
  OBVIOUS
<1>1. CASE UNCHANGED vars
  BY <1>1 DEF vars, JournalInv, TypeOK, CleanCalls, Clean, OnlyRedisWaits, SeenStays
<1>2. CASE Next
  <2>1. PICK c \in Client :
           \/ \E q \in Request : Call(c, q)
           \/ \E e \in Event : get(c, e)
           \/ Execute(c) \/ Retry(c) \/ Die(c)
    BY <1>2, NextShape
  <2>2. ASSUME NEW q \in Request, Call(c, q) PROVE JournalInv'
    <3>1. CASE backend = "redis"
      <4>1. 1 \in 1 .. MaxWatch
        BY JournalConstants
      <4>. QED BY <2>2, <3>1, <4>1, TransactionStep DEF Call
    <3>2. CASE backend # "redis"
      <4>1. Stores(c, q) /\ UNCHANGED <<backend, calls>>
        BY <2>2, <3>2 DEF Call, Stores
      <4>2. \A d \in Client : calls[d] = None /\ calls'[d] = None
        BY <3>2, <4>1 DEF JournalInv, OnlyRedisWaits
      <4>3. TypeOK'
        BY <4>1, <4>2, StoreStep DEF JournalInv, TypeOK
      <4>4. CleanCalls' /\ OnlyRedisWaits' /\ SeenStays'
        BY <4>1, <4>2, StoreStep DEF CleanCalls, Clean, OnlyRedisWaits
      <4>. QED BY <4>3, <4>4 DEF JournalInv
    <3>. QED BY <3>1, <3>2
  <2>3. ASSUME NEW e \in Event, get(c, e) PROVE JournalInv'
    <3>1. /\ UNCHANGED <<backend, records, calls>>
          /\ seen' = [seen EXCEPT ![c][e] = records[e]]
      BY <2>3 DEF get
    <3>2. /\ seen \in [Client -> [Event -> Record]] /\ records \in [Event -> Record]
      BY DEF JournalInv, TypeOK
    <3>3. TypeOK' /\ CleanCalls' /\ OnlyRedisWaits'
      BY <3>1, <3>2 DEF JournalInv, TypeOK, CleanCalls, Clean, OnlyRedisWaits
    <3>4. SeenStays'
      <4>. SUFFICES ASSUME NEW d \in Client, NEW f \in Event
                    PROVE  Keeps(seen'[d][f], records[f])
        BY <3>1 DEF SeenStays
      <4>1. seen'[d][f] = seen[d][f] \/ seen'[d][f] = records[f]
        BY <3>1, <3>2
      <4>2. Keeps(records[f], records[f])
        BY <3>2 DEF Keeps, Record
      <4>. QED BY <4>1, <4>2 DEF JournalInv, SeenStays
    <3>. QED BY <3>3, <3>4 DEF JournalInv
  <2>4. CASE Execute(c)
    <3>. DEFINE e == calls[c].req.event
    <3>1. Stores(c, calls[c].req)
      BY <2>4, ExecuteStores
    <3>2. /\ calls \in [Client -> Watch \cup {None}]
          /\ \A d \in Client : calls[d] # None => ValidRecord(calls[d].updated)
      BY DEF JournalInv, TypeOK
    <3>3. \A d \in Client :
             \/ calls'[d] = None
             \/ calls'[d] = calls[d] /\ calls[d] # None /\ calls[d].req.event # e
             \/ calls'[d] = [calls[d] EXCEPT !.dirty = TRUE] /\ calls[d] # None
      BY <2>4, <3>2 DEF Execute
    <3>4. \A d \in Client : calls[d] # None => [calls[d] EXCEPT !.dirty = TRUE] \in Watch
                                /\ [calls[d] EXCEPT !.dirty = TRUE].updated = calls[d].updated
                                /\ [calls[d] EXCEPT !.dirty = TRUE].dirty
      BY <3>2 DEF Watch
    <3>5. calls' \in [Client -> Watch \cup {None}]
      <4>1. \A d \in Client : calls'[d] \in Watch \cup {None}
        BY <3>2, <3>3, <3>4
      <4>. QED BY <2>4, <4>1 DEF Execute
    <3>6. \A d \in Client : calls'[d] # None => ValidRecord(calls'[d].updated)
      BY <3>2, <3>3, <3>4
    <3>7. TypeOK'
      BY <2>4, <3>1, <3>5, <3>6, StoreStep DEF JournalInv, TypeOK, Execute
    <3>8. CleanCalls'
      <4>. SUFFICES ASSUME NEW d \in Client, Clean(d)'
                    PROVE  /\ Accepts(calls'[d].req, records'[calls'[d].req.event])
                           /\ calls'[d].updated
                                 = Updated(calls'[d].req, records'[calls'[d].req.event])
        BY DEF CleanCalls
      <4>1. calls'[d] = calls[d] /\ calls[d] # None /\ calls[d].req.event # e
        BY <3>3, <3>4 DEF Clean
      <4>2. calls[d].req.event \in Event
        BY <3>2, <4>1 DEF Watch, Request, Arguments
      <4>3. records'[calls[d].req.event] = records[calls[d].req.event]
        BY <3>1, <4>1, <4>2, StoreStep
      <4>. QED BY <4>1, <4>3 DEF JournalInv, CleanCalls, Clean
    <3>9. OnlyRedisWaits' /\ SeenStays'
      BY <2>4, <3>1, StoreStep DEF JournalInv, OnlyRedisWaits, Execute, Clean
    <3>. QED BY <3>7, <3>8, <3>9 DEF JournalInv
  <2>5. CASE Retry(c)
    <3>. DEFINE q == calls[c].req
                n == calls[c].tries
                again == n < MaxWatch /\ Accepts(q, records[q.event])
    <3>1. calls[c] \in Watch /\ backend = "redis"
      BY <2>5 DEF Retry, JournalInv, TypeOK, OnlyRedisWaits
    <3>2. q \in Request /\ (again => n + 1 \in 1 .. MaxWatch)
      BY <3>1, JournalConstants DEF Watch
    <3>3. calls' = [calls EXCEPT ![c] = IF again THEN Watching(q, n + 1) ELSE None]
      BY <2>5 DEF Retry
    <3>. HIDE DEF q, n
    <3>. QED BY <2>5, <3>1, <3>2, <3>3, TransactionStep DEF Retry
  <2>6. CASE Die(c)
    <3>1. backend = "redis"
      BY <2>6 DEF Die, JournalInv, OnlyRedisWaits
    <3>. QED BY <2>6, <3>1, TransactionStep DEF Die
  <2>. QED BY <2>1, <2>2, <2>3, <2>4, <2>5, <2>6
<1>. QED BY <1>1, <1>2

-----------------------------------------------------------------------------
(* The theorems *)

\* The invariant of the journal holds in every state.
LEMMA InvHolds == Spec => []JournalInv
BY InitInv, NextInv, PTL DEF Spec

\* No transition of any client builds a record that __post_init__ refuses, and
\* no Redis transaction is about to write one.
THEOREM RecordsWellFormed == Spec => []TypeOK
<1>1. JournalInv => TypeOK
  BY DEF JournalInv
<1>. QED BY <1>1, InvHolds, PTL

\* Nothing a client was told is taken back, whatever the others do and however
\* their Redis transactions overlap.
THEOREM SeenStaysThm == Spec => []SeenStays
<1>1. JournalInv => SeenStays
  BY DEF JournalInv
<1>. QED BY <1>1, InvHolds, PTL

\* A step that changes a record is an update by UpdateStep.
LEMMA StepEffect ==
    ASSUME JournalInv, Next, NEW e \in Event, records'[e] # records[e]
    PROVE  Effect(records[e], records'[e])
<1>1. PICK c \in Client :
         \/ \E q \in Request : Call(c, q)
         \/ \E f \in Event : get(c, f)
         \/ Execute(c) \/ Retry(c) \/ Die(c)
  BY NextShape
<1>2. ASSUME NEW q \in Request, Call(c, q) PROVE Effect(records[e], records'[e])
  <2>1. Stores(c, q)
    BY <1>2 DEF Call, Stores
  <2>. QED BY <2>1, StoreStep
<1>3. CASE Execute(c)
  BY <1>3, ExecuteStores, StoreStep
<1>. QED BY <1>1, <1>2, <1>3 DEF get, Retry, Die

\* Records only move along the edges of the state machine, one revision at a
\* time, and a terminal record changes at most to receive its receipt.
THEOREM RecordsAdvanceThm == Spec => RecordsAdvance
<1>1. JournalInv /\ [Next]_vars =>
        [\A e \in Event : records'[e] # records[e] => RecordAdvances(records[e], records'[e])]_vars
  BY StepEffect DEF Effect, vars
<1>. QED BY <1>1, InvHolds, PTL DEF Spec, RecordsAdvance

\* Every decision that is written carries a receipt bound to its Event, its
\* disposition and its destination.
THEOREM DecisionsAreVerifiedThm == Spec => DecisionsAreVerified
<1>1. JournalInv /\ [Next]_vars =>
        [\A e \in Event :
            records'[e] # records[e] /\ records'[e].status \in Decisions =>
                /\ records'[e].verification # None
                /\ Bound(records'[e], records'[e].verification)]_vars
  BY StepEffect DEF Effect, vars
<1>. QED BY <1>1, InvHolds, PTL DEF Spec, DecisionsAreVerified

-----------------------------------------------------------------------------
(* Snapshots in memory and in Redis.                                       *)

Times == {"none", "later", "past"}
ValueRecord == [rev : Nat, expires : Times, drop : Times]
JobSteps == {"idle", "dead", "count", "store", "delete", "add", "persist", "pinned",
             "unpinned", "recount", "expire"}
JobRecord == [at : JobSteps, kind : {"plain", "once", "cas"}, expected : Nat, ttl : BOOLEAN,
              seen : ValueRecord, pinned : BOOLEAN]

SnapshotTypes ==
    /\ engine \in {"memory", "redis"} /\ overlap \in BOOLEAN
    /\ value \in ValueRecord /\ restore \in Times
    /\ owners \in SUBSET SnapshotClient /\ keeps \in SUBSET SnapshotClient
    /\ job \in [SnapshotClient -> JobRecord]

InCall(c) == job[c].at \notin {"idle", "dead"}

\* Whoever keeps the snapshot is an owner, and while somebody is, the value is
\* there and, in Redis, has no expiry.
KeptIsThere ==
    /\ keeps \subseteq owners
    /\ engine = "memory" /\ owners # {} => value.rev # 0
    /\ engine = "redis" /\ keeps # {} => value.rev # 0 /\ value.drop = "none"

\* Calls do not overlap, and what a call has read of the pins still holds.
CallsAreCurrent ==
    /\ engine = "memory" => \A c \in SnapshotClient : ~InCall(c)
    /\ \A c, d \in SnapshotClient : InCall(c) /\ InCall(d) => c = d
    /\ \A c \in SnapshotClient :
          /\ job[c].at = "store" /\ ~job[c].pinned => owners = {}
          /\ job[c].at \in {"delete", "expire"} => owners = {}
          /\ job[c].at \in {"persist", "pinned"} => c \in owners
          /\ job[c].at = "pinned" => value.drop = "none"

SnapshotInv == SnapshotTypes /\ (overlap \/ (KeptIsThere /\ CallsAreCurrent))

\* A move of a client's call to another step.
LEMMA JobGoes ==
    ASSUME SnapshotTypes, NEW c \in SnapshotClient, NEW where \in JobSteps, Proceed(c, where)
    PROVE  /\ job' \in [SnapshotClient -> JobRecord] /\ job'[c].at = where
           /\ job'[c].pinned = job[c].pinned
           /\ \A d \in SnapshotClient : d # c => job'[d] = job[d]
BY DEF SnapshotTypes, Proceed, JobRecord

\* The empty call and the empty value.
LEMMA EmptyRecords ==
    /\ NoValue \in ValueRecord /\ NoValue.rev = 0 /\ NoValue.drop = "none"
    /\ NoJob \in JobRecord /\ NoJob.at = "idle"
BY DEF NoValue, NoJob, ValueRecord, JobRecord, Times, JobSteps

\* A call returns.
LEMMA JobReturns ==
    ASSUME SnapshotTypes, NEW c \in SnapshotClient, Return(c)
    PROVE  /\ job' \in [SnapshotClient -> JobRecord] /\ job'[c].at = "idle"
           /\ \A d \in SnapshotClient : d # c => job'[d] = job[d]
BY EmptyRecords DEF SnapshotTypes, Return

\* A revision that is stored.
LEMMA RevisionStored ==
    ASSUME NEW rev \in Nat, NEW ttl, NEW pinned
    PROVE  LET n == NextRevision(rev, ttl, pinned)
           IN  n \in ValueRecord /\ n.rev # 0 /\ (pinned => n.drop = "none")
BY DEF NextRevision, ValueRecord, Times

\* What every step shows of the state it leads to: the conjuncts of the
\* invariant that speak of the calls, from one call that moved.
LEMMA CallMoves ==
    ASSUME SnapshotTypes, CallsAreCurrent, NEW c \in SnapshotClient,
           InCall(c) \/ \A d \in SnapshotClient : ~InCall(d),
           \A d \in SnapshotClient : d # c => job'[d] = job[d]
    PROVE  /\ \A d, e \in SnapshotClient : InCall(d)' /\ InCall(e)' => d = e
           /\ \A d \in SnapshotClient : d # c => job'[d].at \in {"idle", "dead"}
<1>1. \A d \in SnapshotClient : d # c => ~InCall(d)
  BY DEF CallsAreCurrent
<1>2. \A d \in SnapshotClient : d # c => job'[d].at \in {"idle", "dead"}
  BY <1>1 DEF InCall
<1>3. QED
  BY <1>2 DEF InCall

\* Steps of the in-memory store: they move no call.
LEMMA MemoryStep ==
    ASSUME SnapshotInv, ~overlap, engine = "memory", UNCHANGED <<engine, overlap, job>>,
           value' \in ValueRecord, restore' \in Times,
           owners' \in SUBSET SnapshotClient, keeps' \subseteq owners',
           owners' # {} => value'.rev # 0
    PROVE  SnapshotInv'
<1>1. SnapshotTypes'
  BY DEF SnapshotInv, SnapshotTypes
<1>2. KeptIsThere'
  BY DEF KeptIsThere
<1>3. CallsAreCurrent'
  BY DEF SnapshotInv, CallsAreCurrent, InCall
<1>4. QED
  BY <1>1, <1>2, <1>3 DEF SnapshotInv

\* A time that passes stays a time.
LEMMA LaterIsTime == \A t \in Times : Later(t) \in Times
BY DEF Times, Later

\* What a call has read keeps its type when time passes.
LEMMA SeenLater ==
    ASSUME NEW r \in JobRecord
    PROVE  LET n == [r EXCEPT !.seen.expires = Later(@)]
           IN  n \in JobRecord /\ n.at = r.at /\ n.pinned = r.pinned
<1>1. [r.seen EXCEPT !.expires = Later(@)] \in ValueRecord
  BY LaterIsTime DEF JobRecord, ValueRecord
<1>2. PICK w \in ValueRecord : w = [r.seen EXCEPT !.expires = Later(@)]
  BY <1>1
<1>3. [r EXCEPT !.seen.expires = Later(@)] = [r EXCEPT !.seen = w]
  BY <1>2 DEF JobRecord
<1>4. QED
  BY <1>3 DEF JobRecord

\* The values a step may leave behind have the type of a value.
LEMMA ValueEdits ==
    ASSUME NEW v \in ValueRecord, NEW s \in Times, NEW t \in Times
    PROVE  /\ [v EXCEPT !.expires = s, !.drop = t] \in ValueRecord
           /\ [v EXCEPT !.expires = s, !.drop = t].rev = v.rev
           /\ [v EXCEPT !.expires = s, !.drop = t].drop = t
           /\ [v EXCEPT !.drop = t] \in ValueRecord
           /\ [v EXCEPT !.drop = t].rev = v.rev
           /\ [v EXCEPT !.drop = t].drop = t
BY DEF ValueRecord

\* What the in-memory store sweeps: never a value that is pinned.
LEMMA SweptValue ==
    ASSUME SnapshotTypes
    PROVE  /\ Swept \in ValueRecord
           /\ owners # {} => Swept.rev = value.rev
BY EmptyRecords DEF SnapshotTypes, Swept, ValueRecord, Times

\* Time passes.
LEMMA SnapshotTimeStep ==
    ASSUME SnapshotInv, TimePasses
    PROVE  SnapshotInv'
<1>1. SnapshotTypes
  BY DEF SnapshotInv
<1>2. /\ value.expires \in Times /\ value.drop \in Times /\ value \in ValueRecord
      /\ Later(value.expires) \in Times /\ Later(value.drop) \in Times
      /\ restore \in Times /\ Later(restore) \in Times
  BY <1>1, LaterIsTime DEF SnapshotTypes, ValueRecord
<1>3. /\ value' \in ValueRecord /\ restore' \in Times
      /\ engine = "memory" => value'.rev = value.rev
      /\ value.drop = "none" => value'.rev = value.rev /\ value'.drop = "none"
  <2>1. value' = NoValue \/ value' = [value EXCEPT !.expires = Later(value.expires),
                                                   !.drop = Later(value.drop)]
    BY <1>2 DEF TimePasses, ValueRecord
  <2>a. PICK v : v = [value EXCEPT !.expires = Later(value.expires), !.drop = Later(value.drop)]
    OBVIOUS
  <2>2. v \in ValueRecord /\ v.rev = value.rev /\ v.drop = Later(value.drop)
    BY <1>2, <2>a DEF ValueRecord
  <2>3. engine = "memory" \/ value.drop = "none" => value' = v
    BY <1>2, <2>a DEF TimePasses, ValueRecord, Later
  <2>4. QED
    BY <1>2, <2>1, <2>a, <2>2, <2>3, EmptyRecords DEF TimePasses, Later
<1>4. /\ job' \in [SnapshotClient -> JobRecord]
      /\ \A c \in SnapshotClient : job'[c].at = job[c].at /\ job'[c].pinned = job[c].pinned
  BY <1>1, SeenLater DEF TimePasses, SnapshotTypes
<1>5. SnapshotTypes'
  BY <1>1, <1>3, <1>4 DEF SnapshotTypes, TimePasses
<1>6. CASE ~overlap
  <2>1. KeptIsThere'
    BY <1>6, <1>3 DEF SnapshotInv, KeptIsThere, TimePasses
  <2>2. CallsAreCurrent'
    BY <1>6, <1>3, <1>4 DEF SnapshotInv, CallsAreCurrent, InCall, TimePasses
  <2>3. QED
    BY <1>5, <2>1, <2>2 DEF SnapshotInv
<1>7. QED
  BY <1>5, <1>6 DEF SnapshotInv, TimePasses

\* The methods of the in-memory store.
LEMMA MemoryMethods ==
    ASSUME SnapshotInv, engine = "memory",
           \/ MemoryRead \/ MemoryDelete
           \/ \E kind \in {"plain", "once", "cas"}, expected \in 0..MaxRevision, ttl \in BOOLEAN :
                 MemoryWrite(kind, expected, ttl)
           \/ \E c \in SnapshotClient : MemoryPin(c) \/ MemoryUnpin(c)
    PROVE  /\ UNCHANGED <<engine, overlap, job>>
           /\ value' \in ValueRecord /\ restore' \in Times
           /\ owners' \in SUBSET SnapshotClient /\ keeps' \in SUBSET SnapshotClient
           /\ ~overlap => keeps' \subseteq owners' /\ (owners' # {} => value'.rev # 0)
<1>1. /\ SnapshotTypes /\ value \in ValueRecord /\ restore \in Times
      /\ value.rev \in Nat /\ value.expires \in Times /\ value.drop \in Times
      /\ owners \in SUBSET SnapshotClient /\ keeps \in SUBSET SnapshotClient
  BY DEF SnapshotInv, SnapshotTypes, ValueRecord
<1>2. ~overlap => keeps \subseteq owners /\ (owners # {} => value.rev # 0)
  BY DEF SnapshotInv, KeptIsThere
<1>3. Swept \in ValueRecord /\ Swept.rev \in Nat /\ (owners # {} => Swept.rev = value.rev)
  BY <1>1, SweptValue DEF ValueRecord
<1>n. "none" \in Times
  BY DEF Times
<1>4. CASE MemoryRead
  BY <1>1, <1>2, <1>3, <1>4 DEF MemoryRead
<1>5. CASE MemoryDelete
  BY <1>1, <1>2, <1>5, <1>n, EmptyRecords DEF MemoryDelete
<1>6. ASSUME NEW kind, NEW expected, NEW ttl, MemoryWrite(kind, expected, ttl)
      PROVE  /\ UNCHANGED <<engine, overlap, job>>
             /\ value' \in ValueRecord /\ restore' \in Times
             /\ owners' \in SUBSET SnapshotClient /\ keeps' \in SUBSET SnapshotClient
             /\ ~overlap => keeps' \subseteq owners' /\ (owners' # {} => value'.rev # 0)
  <2>1. LET n == NextRevision(Swept.rev, ttl, owners # {})
        IN  n \in ValueRecord /\ n.rev # 0
    BY <1>3, RevisionStored
  <2>2. value' \in ValueRecord /\ (owners # {} /\ value.rev # 0 => value'.rev # 0)
    BY <2>1, <1>3, <1>6 DEF MemoryWrite
  <2>3. QED
    BY <2>2, <1>1, <1>2, <1>6 DEF MemoryWrite
<1>7. ASSUME NEW c \in SnapshotClient, MemoryPin(c)
      PROVE  /\ UNCHANGED <<engine, overlap, job>>
             /\ value' \in ValueRecord /\ restore' \in Times
             /\ owners' \in SUBSET SnapshotClient /\ keeps' \in SUBSET SnapshotClient
             /\ ~overlap => keeps' \subseteq owners' /\ (owners' # {} => value'.rev # 0)
  <2>1. value' \in ValueRecord /\ value'.rev = value.rev /\ value.rev # 0
    <3>1. LET v == [value EXCEPT !.expires = "none", !.drop = "none"]
          IN  v \in ValueRecord /\ v.rev = value.rev
      BY <1>1, <1>n DEF ValueRecord
    <3>2. QED
      BY <3>1, <1>7 DEF MemoryPin
  <2>2. QED
    BY <1>1, <1>2, <1>7, <2>1 DEF MemoryPin
<1>8. ASSUME NEW c \in SnapshotClient, MemoryUnpin(c)
      PROVE  /\ UNCHANGED <<engine, overlap, job>>
             /\ value' \in ValueRecord /\ restore' \in Times
             /\ owners' \in SUBSET SnapshotClient /\ keeps' \in SUBSET SnapshotClient
             /\ ~overlap => keeps' \subseteq owners' /\ (owners' # {} => value'.rev # 0)
  <2>0. \A t \in Times : [value EXCEPT !.expires = restore, !.drop = t] \in ValueRecord
    BY <1>1, ValueEdits
  <2>1. /\ value' \in ValueRecord /\ restore' \in Times
        /\ owners' # {} => value' = value
    <3>1. CASE owners' # {}
      BY <1>1, <1>8, <3>1 DEF MemoryUnpin
    <3>2. CASE owners' = {}
      <4>1. value' = [value EXCEPT !.expires = restore,
                                   !.drop = IF restore = "none" THEN value.drop ELSE restore]
        BY <1>8, <3>2, <1>1 DEF MemoryUnpin, ValueRecord
      <4>2. PICK t \in Times : t = IF restore = "none" THEN value.drop ELSE restore
        BY <1>1
      <4>3. QED
        BY <4>1, <4>2, <2>0, <1>n, <1>8, <3>2 DEF MemoryUnpin
    <3>3. QED
      BY <3>1, <3>2
  <2>2. QED
    BY <1>1, <1>2, <1>8, <2>1 DEF MemoryUnpin
<1>9. QED
  BY <1>4, <1>5, <1>6, <1>7, <1>8

\* What a command of client c leaves behind: the types, the calls of the
\* others, and, where calls do not overlap, the promise to those who keep the
\* snapshot and what the call of c knows of the pins.
CommandOf(c) ==
    /\ UNCHANGED <<engine, overlap, restore>>
    /\ value' \in ValueRecord
    /\ owners' \in SUBSET SnapshotClient /\ keeps' \in SUBSET SnapshotClient
    /\ job' \in [SnapshotClient -> JobRecord]
    /\ \A d \in SnapshotClient : d # c => job'[d] = job[d]
    /\ ~overlap =>
          /\ InCall(c) \/ \A d \in SnapshotClient : ~InCall(d)
          /\ keeps' \subseteq owners'
          /\ keeps' # {} => value'.rev # 0 /\ value'.drop = "none"
          /\ job'[c].at = "store" /\ ~job'[c].pinned => owners' = {}
          /\ job'[c].at \in {"delete", "expire"} => owners' = {}
          /\ job'[c].at \in {"persist", "pinned"} => c \in owners'
          /\ job'[c].at = "pinned" => value'.drop = "none"

\* Such a command keeps the invariant.
LEMMA CommandKeepsInv ==
    ASSUME SnapshotInv, engine = "redis", NEW c \in SnapshotClient, CommandOf(c)
    PROVE  SnapshotInv'
<1>1. SnapshotTypes /\ SnapshotTypes'
  BY DEF SnapshotInv, SnapshotTypes, CommandOf
<1>2. CASE overlap
  BY <1>1, <1>2 DEF SnapshotInv, CommandOf
<1>3. CASE ~overlap
  <2>1. KeptIsThere'
    BY <1>3 DEF KeptIsThere, CommandOf
  <2>2. /\ \A d, e \in SnapshotClient : InCall(d)' /\ InCall(e)' => d = e
        /\ \A d \in SnapshotClient : d # c => job'[d].at \in {"idle", "dead"}
    BY <1>1, <1>3, CallMoves DEF SnapshotInv, CommandOf
  <2>3. CallsAreCurrent'
    BY <1>3, <2>2 DEF CallsAreCurrent, CommandOf
  <2>4. QED
    BY <1>1, <2>1, <2>3 DEF SnapshotInv
<1>4. QED
  BY <1>2, <1>3

\* What a command of c may count on.
LEMMA BeforeCommand ==
    ASSUME SnapshotInv, engine = "redis", NEW c \in SnapshotClient
    PROVE  /\ SnapshotTypes
           /\ value \in ValueRecord /\ job[c] \in JobRecord
           /\ owners \in SUBSET SnapshotClient /\ keeps \in SUBSET SnapshotClient
           /\ ~overlap =>
                 /\ keeps \subseteq owners
                 /\ keeps # {} => value.rev # 0 /\ value.drop = "none"
                 /\ job[c].at = "store" /\ ~job[c].pinned => owners = {}
                 /\ job[c].at \in {"delete", "expire"} => owners = {}
                 /\ job[c].at \in {"persist", "pinned"} => c \in owners
                 /\ job[c].at = "pinned" => value.drop = "none"
BY DEF SnapshotInv, SnapshotTypes, KeptIsThere, CallsAreCurrent

\* The commands of write.
LEMMA WriteCommands ==
    ASSUME SnapshotInv, NEW c \in SnapshotClient, engine = "redis",
           \/ \E kind \in {"plain", "once", "cas"}, expected \in 0..MaxRevision, ttl \in BOOLEAN :
                 WriteLook(c, kind, expected, ttl)
           \/ WriteCount(c) \/ WriteStore(c)
    PROVE  CommandOf(c)
<1>1. SnapshotTypes /\ value \in ValueRecord /\ job[c] \in JobRecord
  BY BeforeCommand
<1>2. ASSUME NEW kind \in {"plain", "once", "cas"}, NEW expected \in 0..MaxRevision,
             NEW ttl \in BOOLEAN, WriteLook(c, kind, expected, ttl)
      PROVE  CommandOf(c)
  <2>1. PICK r : r = [at |-> "count", kind |-> kind, expected |-> expected,
                      ttl |-> ttl, seen |-> value, pinned |-> FALSE]
    OBVIOUS
  <2>2. r \in JobRecord /\ r.at = "count"
    BY <1>1, <2>1, SnapshotAssumption DEF JobRecord, JobSteps
  <2>3. job' = [job EXCEPT ![c] = r]
    BY <1>2, <2>1 DEF WriteLook
  <2>4. /\ job' \in [SnapshotClient -> JobRecord] /\ job'[c].at = "count"
        /\ \A d \in SnapshotClient : d # c => job'[d] = job[d]
    BY <1>1, <2>2, <2>3 DEF SnapshotTypes
  <2>5. QED
    BY <1>2, <2>4, BeforeCommand DEF WriteLook, Calls, CommandOf, InCall
<1>3. CASE WriteCount(c)
  <2>1. PICK r : r = [job[c] EXCEPT !.at = "store", !.pinned = owners # {}]
    OBVIOUS
  <2>2. r \in JobRecord /\ r.at = "store" /\ r.pinned = (owners # {})
    BY <1>1, <2>1 DEF JobRecord, JobSteps
  <2>3. job' = [job EXCEPT ![c] = r]
    BY <1>1, <1>3, <2>1 DEF WriteCount, SnapshotTypes
  <2>4. /\ job' \in [SnapshotClient -> JobRecord] /\ job'[c] = r
        /\ \A d \in SnapshotClient : d # c => job'[d] = job[d]
    BY <1>1, <2>2, <2>3 DEF SnapshotTypes
  <2>5. job'[c].at = "store" /\ (~job'[c].pinned => owners = {})
    BY <2>2, <2>4
  <2>6. QED
    BY <1>3, <2>4, <2>5, BeforeCommand DEF WriteCount, At, CommandOf, InCall
<1>4. CASE WriteStore(c)
  <2>1. job[c].seen.rev \in Nat
    BY <1>1 DEF JobRecord, ValueRecord
  <2>2. PICK n : n = NextRevision(job[c].seen.rev, job[c].ttl, job[c].pinned)
    OBVIOUS
  <2>3. n \in ValueRecord /\ n.rev # 0 /\ (job[c].pinned => n.drop = "none")
    BY <2>1, <2>2, RevisionStored
  <2>4. value' = value \/ value' = n
    BY <1>4, <2>2 DEF WriteStore
  <2>5. /\ job' \in [SnapshotClient -> JobRecord] /\ job'[c].at = "idle"
        /\ \A d \in SnapshotClient : d # c => job'[d] = job[d]
    BY <1>1, <1>4, JobReturns DEF WriteStore
  <2>6. QED
    BY <1>4, <2>3, <2>4, <2>5, BeforeCommand DEF WriteStore, At, CommandOf, InCall
<1>5. QED
  BY <1>2, <1>3, <1>4

\* The commands of delete and pin.
LEMMA DeleteAndPinCommands ==
    ASSUME SnapshotInv, NEW c \in SnapshotClient, engine = "redis",
           \/ DeleteLook(c) \/ DeleteKey(c)
           \/ PinLook(c) \/ PinAdd(c) \/ PinPersist(c) \/ PinReturns(c)
    PROVE  CommandOf(c)
<1>1. SnapshotTypes /\ value \in ValueRecord /\ job[c] \in JobRecord
  BY BeforeCommand
<1>2. \A where \in {"delete", "add", "persist", "pinned"} :
         Proceed(c, where) =>
            /\ job' \in [SnapshotClient -> JobRecord] /\ job'[c].at = where
            /\ \A d \in SnapshotClient : d # c => job'[d] = job[d]
  BY <1>1, JobGoes DEF JobSteps
<1>3. Return(c) => /\ job' \in [SnapshotClient -> JobRecord] /\ job'[c].at = "idle"
                   /\ \A d \in SnapshotClient : d # c => job'[d] = job[d]
  BY <1>1, JobReturns
<1>4. CASE DeleteLook(c)
  BY <1>2, <1>4, BeforeCommand DEF DeleteLook, Calls, CommandOf, InCall
<1>5. CASE DeleteKey(c)
  BY <1>3, <1>5, BeforeCommand, EmptyRecords DEF DeleteKey, At, CommandOf, InCall
<1>6. CASE PinLook(c)
  BY <1>2, <1>6, BeforeCommand DEF PinLook, Calls, CommandOf, InCall
<1>7. CASE PinAdd(c)
  BY <1>2, <1>7, BeforeCommand DEF PinAdd, At, CommandOf, InCall
<1>8. CASE PinPersist(c)
  <2>1. value' \in ValueRecord /\ value'.rev = value.rev /\ value'.drop = "none"
    BY <1>1, <1>8 DEF PinPersist, ValueRecord, Times
  <2>2. QED
    BY <1>2, <1>8, <2>1, BeforeCommand DEF PinPersist, At, CommandOf, InCall
<1>9. CASE PinReturns(c)
  BY <1>3, <1>9, BeforeCommand DEF PinReturns, At, CommandOf, InCall
<1>10. QED
  BY <1>4, <1>5, <1>6, <1>7, <1>8, <1>9

\* The commands of unpin, and the death of a client.
LEMMA UnpinCommands ==
    ASSUME SnapshotInv, NEW c \in SnapshotClient, engine = "redis",
           \/ UnpinRemove(c) \/ UnpinRead(c) \/ UnpinCount(c) \/ UnpinExpire(c)
           \/ ClientDies(c)
    PROVE  CommandOf(c)
<1>1. SnapshotTypes /\ value \in ValueRecord /\ job[c] \in JobRecord
  BY BeforeCommand
<1>2. \A where \in {"unpinned", "expire"} :
         Proceed(c, where) =>
            /\ job' \in [SnapshotClient -> JobRecord] /\ job'[c].at = where
            /\ \A d \in SnapshotClient : d # c => job'[d] = job[d]
  BY <1>1, JobGoes DEF JobSteps
<1>3. Return(c) => /\ job' \in [SnapshotClient -> JobRecord] /\ job'[c].at = "idle"
                   /\ \A d \in SnapshotClient : d # c => job'[d] = job[d]
  BY <1>1, JobReturns
<1>4. CASE UnpinRemove(c)
  BY <1>2, <1>4, BeforeCommand DEF UnpinRemove, Calls, CommandOf, InCall
<1>5. CASE UnpinRead(c)
  <2>1. PICK r : r = [job[c] EXCEPT !.at = "recount", !.seen = value]
    OBVIOUS
  <2>2. r \in JobRecord /\ r.at = "recount"
    BY <1>1, <2>1 DEF JobRecord, JobSteps
  <2>3. job' = [job EXCEPT ![c] = NoJob] \/ job' = [job EXCEPT ![c] = r]
    BY <1>1, <1>5, <2>1 DEF UnpinRead, SnapshotTypes
  <2>4. /\ job' \in [SnapshotClient -> JobRecord] /\ job'[c].at \in {"idle", "recount"}
        /\ \A d \in SnapshotClient : d # c => job'[d] = job[d]
    BY <1>1, <2>2, <2>3, EmptyRecords DEF SnapshotTypes
  <2>5. QED
    BY <1>5, <2>4, BeforeCommand DEF UnpinRead, At, CommandOf, InCall
<1>6. CASE UnpinCount(c)
  <2>1. /\ job' \in [SnapshotClient -> JobRecord]
        /\ job'[c].at = "idle" \/ (job'[c].at = "expire" /\ owners = {})
        /\ \A d \in SnapshotClient : d # c => job'[d] = job[d]
    BY <1>2, <1>3, <1>6 DEF UnpinCount
  <2>2. QED
    BY <1>6, <2>1, BeforeCommand DEF UnpinCount, At, CommandOf, InCall
<1>7. CASE UnpinExpire(c)
  <2>1. value' \in ValueRecord
    BY <1>1, <1>7, EmptyRecords DEF UnpinExpire, ValueRecord, Times
  <2>2. QED
    BY <1>3, <1>7, <2>1, BeforeCommand DEF UnpinExpire, At, CommandOf, InCall
<1>8. CASE ClientDies(c)
  <2>1. PICK r : r = [NoJob EXCEPT !.at = "dead"]
    OBVIOUS
  <2>2. r \in JobRecord /\ r.at = "dead"
    BY <2>1, EmptyRecords DEF JobRecord, JobSteps
  <2>3. /\ job' \in [SnapshotClient -> JobRecord] /\ job'[c].at = "dead"
        /\ \A d \in SnapshotClient : d # c => job'[d] = job[d]
    BY <1>1, <1>8, <2>1, <2>2 DEF ClientDies, SnapshotTypes
  <2>4. QED
    BY <1>8, <2>3, BeforeCommand DEF ClientDies, CommandOf, InCall
<1>9. QED
  BY <1>4, <1>5, <1>6, <1>7, <1>8

\* Every step keeps the invariant.
LEMMA SnapshotInvKept ==
    ASSUME SnapshotInv, [SnapshotNext]_snapshotVars
    PROVE  SnapshotInv'
<1>1. CASE TimePasses
  BY <1>1, SnapshotTimeStep
<1>2. CASE /\ engine = "memory"
           /\ \/ MemoryRead \/ MemoryDelete
              \/ \E kind \in {"plain", "once", "cas"}, expected \in 0..MaxRevision,
                    ttl \in BOOLEAN : MemoryWrite(kind, expected, ttl)
              \/ \E c \in SnapshotClient : MemoryPin(c) \/ MemoryUnpin(c)
  <2>1. /\ UNCHANGED <<engine, overlap, job>>
        /\ value' \in ValueRecord /\ restore' \in Times
        /\ owners' \in SUBSET SnapshotClient /\ keeps' \in SUBSET SnapshotClient
        /\ ~overlap => keeps' \subseteq owners' /\ (owners' # {} => value'.rev # 0)
    BY <1>2, MemoryMethods
  <2>2. CASE overlap
    BY <2>1, <2>2 DEF SnapshotInv, SnapshotTypes
  <2>3. CASE ~overlap
    BY <1>2, <2>1, <2>3, MemoryStep
  <2>4. QED
    BY <2>2, <2>3
<1>3. ASSUME NEW c \in SnapshotClient, engine = "redis", CommandOf(c)
      PROVE  SnapshotInv'
  BY <1>3, CommandKeepsInv
<1>4. ASSUME NEW c \in SnapshotClient, engine = "redis",
             \/ \E kind \in {"plain", "once", "cas"}, expected \in 0..MaxRevision,
                   ttl \in BOOLEAN : WriteLook(c, kind, expected, ttl)
             \/ WriteCount(c) \/ WriteStore(c)
      PROVE  SnapshotInv'
  BY <1>3, <1>4, WriteCommands
<1>5. ASSUME NEW c \in SnapshotClient, engine = "redis",
             \/ DeleteLook(c) \/ DeleteKey(c)
             \/ PinLook(c) \/ PinAdd(c) \/ PinPersist(c) \/ PinReturns(c)
      PROVE  SnapshotInv'
  BY <1>3, <1>5, DeleteAndPinCommands
<1>6. ASSUME NEW c \in SnapshotClient, engine = "redis",
             \/ UnpinRemove(c) \/ UnpinRead(c) \/ UnpinCount(c) \/ UnpinExpire(c)
             \/ ClientDies(c)
      PROVE  SnapshotInv'
  BY <1>3, <1>6, UnpinCommands
<1>7. CASE UNCHANGED snapshotVars
  <2>1. UNCHANGED engine /\ UNCHANGED overlap /\ UNCHANGED value /\ UNCHANGED restore
        /\ UNCHANGED owners /\ UNCHANGED job /\ UNCHANGED keeps
    BY <1>7 DEF snapshotVars
  <2>2. QED
    BY <2>1 DEF SnapshotInv, SnapshotTypes, KeptIsThere, CallsAreCurrent, InCall
<1>8. \/ MemoryRead \/ MemoryDelete
      \/ \E kind, expected, ttl : MemoryWrite(kind, expected, ttl)
      \/ \E c : MemoryPin(c) \/ MemoryUnpin(c)
      => engine = "memory"
  BY DEF MemoryRead, MemoryDelete, MemoryWrite, MemoryPin, MemoryUnpin
<1>9. \A c : (\/ \E kind, expected, ttl : WriteLook(c, kind, expected, ttl)
              \/ WriteCount(c) \/ WriteStore(c) \/ DeleteLook(c) \/ DeleteKey(c)
              \/ PinLook(c) \/ PinAdd(c) \/ PinPersist(c) \/ PinReturns(c)
              \/ UnpinRemove(c) \/ UnpinRead(c) \/ UnpinCount(c) \/ UnpinExpire(c)
              \/ ClientDies(c)) => engine = "redis"
  BY DEF WriteLook, WriteCount, WriteStore, DeleteLook, DeleteKey, PinLook, PinAdd, PinPersist,
         PinReturns, UnpinRemove, UnpinRead, UnpinCount, UnpinExpire, ClientDies, Calls, At
<1>10. CASE SnapshotNext
  BY <1>1, <1>2, <1>4, <1>5, <1>6, <1>8, <1>9, <1>10 DEF SnapshotNext
<1>11. QED
  BY <1>7, <1>10

\* The invariant at the start.
LEMMA SnapshotInvInit ==
    ASSUME SnapshotInit
    PROVE  SnapshotInv
<1>1. SnapshotTypes
  BY EmptyRecords DEF SnapshotInit, SnapshotTypes, Times
<1>2. \A c \in SnapshotClient : ~InCall(c) /\ job[c].at = "idle"
  BY EmptyRecords DEF SnapshotInit, InCall
<1>3. KeptIsThere /\ CallsAreCurrent
  BY <1>2 DEF SnapshotInit, KeptIsThere, CallsAreCurrent
<1>4. QED
  BY <1>1, <1>3 DEF SnapshotInv

\* The invariant holds in every state of the snapshot stores.
LEMMA SnapshotInvariance == SnapshotSpec => []SnapshotInv
<1>1. SnapshotInit => SnapshotInv
  BY SnapshotInvInit
<1>2. SnapshotInv /\ [SnapshotNext]_snapshotVars => SnapshotInv'
  BY SnapshotInvKept
<1>3. QED
  BY <1>1, <1>2, PTL DEF SnapshotSpec

\* pin prevents a snapshot from expiring or being deleted: in both stores, for
\* any number of clients, whoever pinned it and has not unpinned it finds the
\* snapshot there and is recorded as an owner, if Redis calls do not overlap.
THEOREM SnapshotPinnedThm == SnapshotSpec => []SnapshotPinned
<1>1. SnapshotInv => SnapshotPinned
  <2>1. SUFFICES ASSUME SnapshotInv, ~overlap PROVE PinHolds
    BY DEF SnapshotPinned
  <2>2. KeptIsThere /\ engine \in {"memory", "redis"}
    BY <2>1 DEF SnapshotInv, SnapshotTypes
  <2>3. QED
    BY <2>2 DEF KeptIsThere, PinHolds
<1>2. QED
  BY <1>1, SnapshotInvariance, PTL

\* A write with an expected revision that reaches the store replaces that very
\* revision, however the commands of other clients interleave with its own.
THEOREM CasIsExactThm == SnapshotSpec => CasIsExact
<1>1. ASSUME SnapshotInv, [SnapshotNext]_snapshotVars
      PROVE  [\A c \in SnapshotClient : At(c, "store") /\ job[c].kind = "cas" /\ value' # value =>
                 \/ job'[c].at = "store"
                 \/ value.rev = job[c].expected]_snapshotVars
  <2>1. SUFFICES ASSUME NEW c \in SnapshotClient, At(c, "store"), job[c].kind = "cas",
                        value' # value, job'[c].at # "store", SnapshotNext
                 PROVE  value.rev = job[c].expected
    BY <1>1 DEF snapshotVars
  <2>2. /\ engine = "redis" /\ job[c].at = "store" /\ job[c] \in JobRecord /\ SnapshotTypes
    BY <1>1, <2>1 DEF At, SnapshotInv, SnapshotTypes
  <2>3. ~TimePasses
    <3>1. SUFFICES ASSUME TimePasses PROVE FALSE
      OBVIOUS
    <3>2. job'[c].at = job[c].at
      BY <2>2, <3>1, SeenLater DEF TimePasses, SnapshotTypes
    <3>3. QED
      BY <2>1, <2>2, <3>2
  <2>4. ~MemoryRead /\ ~MemoryDelete /\ \A d, kind, expected, ttl :
           ~MemoryWrite(kind, expected, ttl) /\ ~MemoryPin(d) /\ ~MemoryUnpin(d)
    BY <2>2 DEF MemoryRead, MemoryDelete, MemoryWrite, MemoryPin, MemoryUnpin
  <2>5. \A d, kind, expected, ttl :
           /\ ~WriteLook(d, kind, expected, ttl) /\ ~WriteCount(d) /\ ~DeleteLook(d)
           /\ ~PinLook(d) /\ ~PinAdd(d) /\ ~PinReturns(d)
           /\ ~UnpinRemove(d) /\ ~UnpinRead(d) /\ ~UnpinCount(d) /\ ~ClientDies(d)
    BY <2>1 DEF WriteLook, WriteCount, DeleteLook, PinLook, PinAdd, PinReturns, UnpinRemove,
                UnpinRead, UnpinCount, ClientDies
  <2>6. PICK d \in SnapshotClient :
           WriteStore(d) \/ DeleteKey(d) \/ PinPersist(d) \/ UnpinExpire(d)
    BY <2>1, <2>3, <2>4, <2>5 DEF SnapshotNext
  <2>7. CASE d # c
    <3>1. job'[c] = job[c]
      BY <2>2, <2>6, <2>7 DEF WriteStore, DeleteKey, PinPersist, UnpinExpire, Return, Proceed,
                              SnapshotTypes
    <3>2. QED
      BY <2>1, <2>2, <3>1
  <2>8. CASE d = c
    <3>1. WriteStore(c)
      BY <2>2, <2>6, <2>8 DEF DeleteKey, PinPersist, UnpinExpire, At
    <3>2. ~Refused(job[c].kind, job[c].expected, value.rev)
      BY <2>1, <3>1 DEF WriteStore
    <3>3. QED
      BY <2>1, <3>2 DEF Refused
  <2>9. QED
    BY <2>7, <2>8
<1>2. QED
  BY <1>1, SnapshotInvariance, PTL DEF SnapshotSpec, CasIsExact

-----------------------------------------------------------------------------
(* Snapshots in files.                                                     *)

MetaRecord == [rev : Nat, tx : Nat, expires : Times, restore : Times]
CallSteps == {"idle", "dead", "readMeta", "readPayload", "readOwners", "writeOwners",
              "rereadMeta", "rewriteMeta", "deletePins", "deleteMeta", "unlink", "claim",
              "steal", "fill", "look", "payload", "pins", "commit", "cleanup", "unclaim"}
CallRecord == [at : CallSteps, op : {"none", "read", "pin", "unpin", "delete", "write"},
               expected : Int, ttl : BOOLEAN, seen : MetaRecord, owners : SUBSET Process,
               tx : Nat, tries : Nat, erase : SUBSET {"meta", "pins", "payload"}]

FileTypes ==
    /\ meta \in MetaRecord /\ payloads \in SUBSET Nat
    /\ pinFile \in SUBSET Process /\ pinning \in SUBSET Process
    /\ call \in [Process -> CallRecord] /\ nextTx \in Nat /\ torn \in BOOLEAN

Open(p) == call[p].at \notin {"idle", "dead"}

\* What the call of p has read of the files still holds: nobody else is in a
\* call. An unpin has given up its promise and a pin has not made it yet.
CallIsCurrent(p) ==
    LET c == call[p] IN
    /\ c.at \in {"deleteMeta", "unlink"} => pinning = {}
    /\ c.at = "unlink" /\ "meta" \notin c.erase => meta.rev = 0
    /\ c.at \in {"readPayload", "readOwners", "writeOwners", "rereadMeta", "rewriteMeta"}
          => meta.rev # 0
    /\ c.at \in {"rewriteMeta", "payload", "pins", "commit"} => c.seen = meta
    /\ c.at \in {"readMeta", "readPayload", "readOwners", "writeOwners"} /\ c.op = "unpin"
          => p \notin pinning
    /\ c.at \in {"readMeta", "readPayload"} => c.op \in {"read", "pin", "unpin"}
    /\ c.at \in {"readOwners", "writeOwners"} => c.op \in {"pin", "unpin"}
    /\ c.at = "writeOwners" => pinning \subseteq c.owners /\ (c.op = "pin" => p \in c.owners)
    /\ c.at \in {"rereadMeta", "rewriteMeta"} /\ c.op = "pin" => p \in pinFile
    /\ c.at \in {"pins", "commit"} => c.tx \in payloads /\ c.seen.tx < c.tx
    /\ c.at = "cleanup" => c.seen.tx < meta.tx

FilesAgree ==
    /\ pinning \subseteq pinFile
    /\ pinning # {} => meta.rev # 0
    /\ meta.tx < nextTx /\ \A tx \in payloads : tx < nextTx

FileInv ==
    /\ FileTypes /\ FilesAgree /\ CommittedIsReadable
    /\ \A p, q \in Process : Open(p) /\ Open(q) => p = q
    /\ \A p \in Process : CallIsCurrent(p)

\* The empty records.
LEMMA EmptyFileRecords ==
    /\ NoMeta \in MetaRecord /\ NoMeta.rev = 0 /\ NoMeta.tx = 0
    /\ NoCall \in CallRecord /\ NoCall.at = "idle"
BY DEF NoMeta, NoCall, MetaRecord, CallRecord, Times, CallSteps

\* The call of p becomes r; the other calls stay.
LEMMA CallBecomes ==
    ASSUME FileTypes, NEW p \in Process, NEW r \in CallRecord, call' = [call EXCEPT ![p] = r]
    PROVE  /\ call' \in [Process -> CallRecord] /\ call'[p] = r
           /\ \A q \in Process : q # p => call'[q] = call[q]
BY DEF FileTypes

\* A call goes on at another place.
LEMMA CallGoes ==
    ASSUME FileTypes, NEW p \in Process, NEW where \in CallSteps, Go(p, where)
    PROVE  /\ call' \in [Process -> CallRecord]
           /\ call'[p].at = where /\ call'[p].op = call[p].op /\ call'[p].seen = call[p].seen
           /\ call'[p].owners = call[p].owners /\ call'[p].tx = call[p].tx
           /\ \A q \in Process : q # p => call'[q] = call[q]
<1>1. PICK r : r = [call[p] EXCEPT !.at = where]
  OBVIOUS
<1>2. call[p] \in CallRecord
  BY DEF FileTypes
<1>3. /\ r \in CallRecord /\ r.at = where /\ r.op = call[p].op /\ r.seen = call[p].seen
      /\ r.owners = call[p].owners /\ r.tx = call[p].tx
  BY <1>1, <1>2 DEF CallRecord
<1>4. call' = [call EXCEPT ![p] = r]
  BY <1>1 DEF Go, FileTypes
<1>5. QED
  BY <1>3, <1>4, CallBecomes

\* A call ends.
LEMMA CallEnds ==
    ASSUME FileTypes, NEW p \in Process, Ends(p)
    PROVE  /\ call' \in [Process -> CallRecord] /\ call'[p].at = "idle"
           /\ \A q \in Process : q # p => call'[q] = call[q]
BY EmptyFileRecords, CallBecomes DEF Ends

\* A step of one process, alone in a call, keeps the invariant when its own
\* call is current afterwards and the files agree.
LEMMA FileStepKeepsInv ==
    ASSUME FileInv, NEW p \in Process, Open(p) \/ \A q \in Process : ~Open(q),
           \A q \in Process : q # p => call'[q] = call[q],
           FileTypes', FilesAgree', CommittedIsReadable', CallIsCurrent(p)'
    PROVE  FileInv'
<1>1. \A q \in Process : q # p => call'[q].at \in {"idle", "dead"}
  BY DEF FileInv, Open
<1>2. \A q, s \in Process : Open(q)' /\ Open(s)' => q = s
  BY <1>1 DEF Open
<1>3. ASSUME NEW q \in Process, q # p
      PROVE  CallIsCurrent(q)'
  BY <1>1, <1>3 DEF CallIsCurrent
<1>4. QED
  BY <1>2, <1>3 DEF FileInv

\* A step of p that leaves the files as they are.
LookOf(p) ==
    /\ call[p].at # "unlink"
    /\ Open(p) \/ \A q \in Process : ~Open(q)
    /\ call' \in [Process -> CallRecord]
    /\ \A q \in Process : q # p => call'[q] = call[q]
    /\ UNCHANGED <<meta, payloads, pinFile, nextTx, torn>>
    /\ pinning' \in SUBSET Process /\ pinning' \subseteq pinFile
    /\ pinning' # {} => meta.rev # 0
    /\ CallIsCurrent(p)'

\* Such a step keeps the invariant.
LEMMA LookKeepsInv ==
    ASSUME FileInv, NEW p \in Process, LookOf(p)
    PROVE  FileInv'
<1>1. FileTypes'
  BY DEF FileInv, FileTypes, LookOf
<1>2. FilesAgree'
  BY DEF FileInv, FilesAgree, LookOf
<1>3. CommittedIsReadable'
  BY DEF FileInv, CommittedIsReadable, LookOf
<1>4. QED
  BY <1>1, <1>2, <1>3, FileStepKeepsInv DEF LookOf

\* What a step of p may count on.
LEMMA BeforeFileStep ==
    ASSUME FileInv, NEW p \in Process
    PROVE  /\ FileTypes /\ meta \in MetaRecord /\ call[p] \in CallRecord
           /\ pinFile \in SUBSET Process /\ pinning \in SUBSET Process
           /\ pinning \subseteq pinFile /\ (pinning # {} => meta.rev # 0)
           /\ CallIsCurrent(p)
BY DEF FileInv, FileTypes, FilesAgree

\* The beginning of a call.
LEMMA BeginSteps ==
    ASSUME FileInv, ~Overlapping, NEW p \in Process,
           \/ \E op \in {"read", "pin", "unpin"} : BeginRead(p, op)
           \/ BeginDelete(p)
           \/ \E expected \in -1..MaxWrites, ttl \in BOOLEAN : BeginWrite(p, expected, ttl)
    PROVE  LookOf(p)
<1>1. /\ FileTypes /\ pinning \in SUBSET Process
      /\ pinning \subseteq pinFile /\ (pinning # {} => meta.rev # 0)
  BY BeforeFileStep
<1>2. ASSUME NEW op \in {"read", "pin", "unpin"}, BeginRead(p, op)
      PROVE  LookOf(p)
  <2>1. PICK r : r = [NoCall EXCEPT !.at = "readMeta", !.op = op]
    OBVIOUS
  <2>2. r \in CallRecord /\ r.at = "readMeta" /\ r.op = op
    BY <2>1, EmptyFileRecords DEF CallRecord, CallSteps
  <2>3. /\ call' \in [Process -> CallRecord] /\ call'[p] = r
        /\ \A q \in Process : q # p => call'[q] = call[q]
    BY <1>1, <1>2, <2>1, <2>2, CallBecomes DEF BeginRead
  <2>4. CallIsCurrent(p)'
    BY <1>2, <2>2, <2>3 DEF CallIsCurrent, BeginRead
  <2>5. QED
    BY <1>1, <1>2, <2>3, <2>4 DEF LookOf, BeginRead, Opens, Open
<1>3. CASE BeginDelete(p)
  <2>1. PICK r : r = [NoCall EXCEPT !.at = "deletePins", !.op = "delete"]
    OBVIOUS
  <2>2. r \in CallRecord /\ r.at = "deletePins"
    BY <2>1, EmptyFileRecords DEF CallRecord, CallSteps
  <2>3. /\ call' \in [Process -> CallRecord] /\ call'[p] = r
        /\ \A q \in Process : q # p => call'[q] = call[q]
    BY <1>1, <1>3, <2>1, <2>2, CallBecomes DEF BeginDelete
  <2>4. CallIsCurrent(p)'
    BY <2>2, <2>3 DEF CallIsCurrent
  <2>5. QED
    BY <1>1, <1>3, <2>3, <2>4 DEF LookOf, BeginDelete, Opens, Open
<1>4. ASSUME NEW expected \in -1..MaxWrites, NEW ttl \in BOOLEAN, BeginWrite(p, expected, ttl)
      PROVE  LookOf(p)
  <2>1. PICK r : r = [NoCall EXCEPT !.at = "claim", !.op = "write",
                                    !.expected = expected, !.ttl = ttl]
    OBVIOUS
  <2>2. r \in CallRecord /\ r.at = "claim"
    <3>1. expected \in Int
      BY FileSnapshotAssumption
    <3>2. NoMeta \in MetaRecord
      BY EmptyFileRecords
    <3>3. r = [at |-> "claim", op |-> "write", expected |-> expected, ttl |-> ttl,
               seen |-> NoMeta, owners |-> {}, tx |-> 0, tries |-> 0, erase |-> {}]
      BY <2>1 DEF NoCall
    <3>4. QED
      BY <3>1, <3>2, <3>3 DEF CallRecord, CallSteps
  <2>3. /\ call' \in [Process -> CallRecord] /\ call'[p] = r
        /\ \A q \in Process : q # p => call'[q] = call[q]
    BY <1>1, <1>4, <2>1, <2>2, CallBecomes DEF BeginWrite
  <2>4. CallIsCurrent(p)'
    BY <2>2, <2>3 DEF CallIsCurrent
  <2>5. QED
    BY <1>1, <1>4, <2>3, <2>4 DEF LookOf, BeginWrite, Opens, Open
<1>5. QED
  BY <1>2, <1>3, <1>4

\* The steps of read, delete, pin and unpin that only look.
LEMMA ReadSteps ==
    ASSUME FileInv, NEW p \in Process,
           \/ ReadMeta(p) \/ ReadPayload(p) \/ DeletePins(p) \/ DeleteMeta(p)
           \/ ReadOwners(p) \/ RereadMeta(p)
    PROVE  LookOf(p)
<1>1. /\ FileTypes /\ meta \in MetaRecord /\ call[p] \in CallRecord
      /\ pinFile \in SUBSET Process /\ pinning \in SUBSET Process
      /\ pinning \subseteq pinFile /\ (pinning # {} => meta.rev # 0)
      /\ CallIsCurrent(p)
  BY BeforeFileStep
<1>2. Ends(p) => /\ call' \in [Process -> CallRecord] /\ call'[p].at = "idle"
                 /\ \A q \in Process : q # p => call'[q] = call[q]
                 /\ CallIsCurrent(p)'
  BY <1>1, CallEnds DEF CallIsCurrent
<1>3. \A where \in {"deletePins", "deleteMeta", "readOwners"} : Go(p, where) =>
         /\ call' \in [Process -> CallRecord]
         /\ call'[p].at = where /\ call'[p].op = call[p].op
         /\ \A q \in Process : q # p => call'[q] = call[q]
  BY <1>1, CallGoes DEF CallSteps
<1>4. PICK r : r = [call[p] EXCEPT !.at = "readPayload", !.seen = meta]
  OBVIOUS
<1>5. r \in CallRecord /\ r.at = "readPayload" /\ r.op = call[p].op
  BY <1>1, <1>4 DEF CallRecord, CallSteps
<1>6. CASE ReadMeta(p)
  <2>0. UNCHANGED <<meta, payloads, pinFile, pinning, nextTx, torn>> /\ call[p].at = "readMeta"
    BY <1>6 DEF ReadMeta
  <2>1. CASE meta.rev = 0
    BY <1>1, <1>2, <1>6, <2>0, <2>1 DEF ReadMeta, LookOf, Open
  <2>2. CASE meta.rev # 0 /\ meta.expires = "past"
    <3>1. Go(p, "deletePins")
      BY <1>6, <2>2 DEF ReadMeta
    <3>2. CallIsCurrent(p)'
      BY <1>3, <3>1 DEF CallIsCurrent
    <3>3. QED
      BY <1>1, <1>3, <2>0, <3>1, <3>2 DEF LookOf, Open
  <2>3. CASE meta.rev # 0 /\ meta.expires # "past"
    <3>1. call' = [call EXCEPT ![p] = r]
      BY <1>1, <1>4, <1>6, <2>3 DEF ReadMeta, FileTypes
    <3>2. /\ call' \in [Process -> CallRecord] /\ call'[p] = r
          /\ \A q \in Process : q # p => call'[q] = call[q]
      BY <1>1, <1>5, <3>1, CallBecomes
    <3>3. r.op \in {"read", "pin", "unpin"}
      BY <1>1, <1>5, <2>0 DEF CallIsCurrent
    <3>4. CallIsCurrent(p)'
      BY <1>1, <1>5, <2>0, <2>3, <3>2, <3>3 DEF CallIsCurrent
    <3>5. QED
      BY <1>1, <2>0, <3>2, <3>4 DEF LookOf, Open
  <2>4. QED
    BY <2>1, <2>2, <2>3
<1>7. CASE ReadPayload(p)
  <2>1. CASE call[p].op = "read" \/ call[p].seen.tx \notin payloads
    BY <1>1, <1>2, <1>7, <2>1 DEF ReadPayload, LookOf, Open
  <2>0. CASE ~(call[p].op = "read" \/ call[p].seen.tx \notin payloads)
    <3>0. Go(p, "readOwners")
      BY <1>7, <2>0 DEF ReadPayload
    <3>a. call[p].op \in {"pin", "unpin"} /\ meta.rev # 0 /\ UNCHANGED <<meta, pinning>>
          /\ (call[p].op = "unpin" => p \notin pinning)
      BY <1>1, <1>7, <2>0 DEF CallIsCurrent, ReadPayload
    <3>1. CallIsCurrent(p)'
      BY <1>3, <3>0, <3>a DEF CallIsCurrent
    <3>2. QED
      BY <1>1, <1>3, <1>7, <3>0, <3>1 DEF ReadPayload, LookOf, Open
  <2>3. QED
    BY <2>1, <2>0
<1>8. CASE DeletePins(p)
  <2>1. CASE Ends(p)
    BY <1>1, <1>2, <1>8, <2>1 DEF DeletePins, LookOf, Open
  <2>2. CASE pinFile = {} /\ Go(p, "deleteMeta")
    <3>1. CallIsCurrent(p)'
      BY <1>1, <1>3, <1>8, <2>2 DEF CallIsCurrent, DeletePins
    <3>2. QED
      BY <1>1, <1>3, <1>8, <2>2, <3>1 DEF DeletePins, LookOf, Open
  <2>3. QED
    BY <1>8, <2>1, <2>2 DEF DeletePins
<1>9. CASE DeleteMeta(p)
  <2>1. PICK u : u = [call[p] EXCEPT !.at = "unlink", !.seen = meta,
                                     !.erase = {"meta", "pins", "payload"}]
    OBVIOUS
  <2>2. u \in CallRecord /\ u.at = "unlink" /\ u.erase = {"meta", "pins", "payload"}
    BY <1>1, <2>1 DEF CallRecord, CallSteps
  <2>3. call' = [call EXCEPT ![p] = u]
    BY <1>1, <1>9, <2>1 DEF DeleteMeta, FileTypes
  <2>4. /\ call' \in [Process -> CallRecord] /\ call'[p] = u
        /\ \A q \in Process : q # p => call'[q] = call[q]
    BY <1>1, <2>2, <2>3, CallBecomes
  <2>5. CallIsCurrent(p)'
    BY <1>1, <1>9, <2>2, <2>4 DEF CallIsCurrent, DeleteMeta
  <2>6. QED
    BY <1>1, <1>9, <2>4, <2>5 DEF DeleteMeta, LookOf, Open
<1>10. CASE ReadOwners(p)
  <2>0. PICK o : o = IF call[p].op = "pin" THEN pinFile \cup {p} ELSE pinFile \ {p}
    OBVIOUS
  <2>1. PICK u : u = [call[p] EXCEPT !.at = "writeOwners", !.owners = o]
    OBVIOUS
  <2>2. u \in CallRecord /\ u.at = "writeOwners" /\ u.owners = o /\ u.op = call[p].op
    BY <1>1, <2>0, <2>1 DEF CallRecord, CallSteps
  <2>3. call' = [call EXCEPT ![p] = u]
    BY <1>1, <1>10, <2>0, <2>1 DEF ReadOwners, FileTypes
  <2>4. /\ call' \in [Process -> CallRecord] /\ call'[p] = u
        /\ \A q \in Process : q # p => call'[q] = call[q]
    BY <1>1, <2>2, <2>3, CallBecomes
  <2>5. CallIsCurrent(p)'
    BY <1>1, <1>10, <2>0, <2>2, <2>4 DEF CallIsCurrent, ReadOwners
  <2>6. QED
    BY <1>1, <1>10, <2>4, <2>5 DEF ReadOwners, LookOf, Open
<1>11. CASE RereadMeta(p)
  <2>0. /\ call[p].at = "rereadMeta" /\ meta.rev # 0 /\ (call[p].op = "pin" => p \in pinFile)
        /\ UNCHANGED <<meta, payloads, pinFile, claim, nextTx, torn>>
    BY <1>1, <1>11 DEF RereadMeta, CallIsCurrent
  <2>1. CASE Ends(p)
    BY <1>1, <1>2, <1>11, <2>0, <2>1 DEF RereadMeta, LookOf, Open
  <2>2. CASE /\ call' = [call EXCEPT ![p].at = "rewriteMeta", ![p].seen = meta]
             /\ pinning' = pinning
    <3>1. PICK u : u = [call[p] EXCEPT !.at = "rewriteMeta", !.seen = meta]
      OBVIOUS
    <3>2. u \in CallRecord /\ u.at = "rewriteMeta" /\ u.seen = meta /\ u.op = call[p].op
      BY <1>1, <3>1 DEF CallRecord, CallSteps
    <3>3. call' = [call EXCEPT ![p] = u]
      BY <1>1, <2>2, <3>1 DEF FileTypes
    <3>4. /\ call' \in [Process -> CallRecord] /\ call'[p] = u
          /\ \A q \in Process : q # p => call'[q] = call[q]
      BY <1>1, <3>2, <3>3, CallBecomes
    <3>5. CallIsCurrent(p)'
      BY <2>0, <3>2, <3>4 DEF CallIsCurrent
    <3>6. QED
      BY <1>1, <2>0, <2>2, <3>4, <3>5 DEF LookOf, Open
  <2>3. QED
    BY <1>11, <2>1, <2>2 DEF RereadMeta
<1>12. QED
  BY <1>6, <1>7, <1>8, <1>9, <1>10, <1>11

\* The steps of write that only look or touch the claim file.
LEMMA WriteLookSteps ==
    ASSUME FileInv, NEW p \in Process,
           \/ ClaimTry(p) \/ ClaimSteal(p) \/ ClaimFill(p)
           \/ WriteLooks(p) \/ WritePins(p) \/ WriteUnclaim(p)
    PROVE  LookOf(p)
<1>1. /\ FileTypes /\ meta \in MetaRecord /\ call[p] \in CallRecord
      /\ pinFile \in SUBSET Process /\ pinning \in SUBSET Process
      /\ pinning \subseteq pinFile /\ (pinning # {} => meta.rev # 0)
      /\ CallIsCurrent(p)
  BY BeforeFileStep
<1>2. Ends(p) => /\ call' \in [Process -> CallRecord] /\ call'[p].at = "idle"
                 /\ \A q \in Process : q # p => call'[q] = call[q]
                 /\ CallIsCurrent(p)'
  BY <1>1, CallEnds DEF CallIsCurrent
<1>3. \A where \in {"fill", "steal", "look", "unclaim"} : Go(p, where) =>
         /\ call' \in [Process -> CallRecord]
         /\ call'[p].at = where
         /\ \A q \in Process : q # p => call'[q] = call[q]
         /\ CallIsCurrent(p)'
  BY <1>1, CallGoes DEF CallSteps, CallIsCurrent
<1>4. CASE ClaimTry(p)
  BY <1>1, <1>2, <1>3, <1>4 DEF ClaimTry, LookOf, Open
<1>5. CASE ClaimSteal(p)
  <2>1. CASE Ends(p)
    BY <1>1, <1>2, <1>5, <2>1 DEF ClaimSteal, LookOf, Open
  <2>2. CASE call' = [call EXCEPT ![p].at = "claim", ![p].tries = @ + 1]
    <3>0. PICK n \in Nat : n = call[p].tries + 1
      BY <1>1 DEF CallRecord
    <3>1. PICK u : u = [call[p] EXCEPT !.at = "claim", !.tries = n]
      OBVIOUS
    <3>2. u \in CallRecord /\ u.at = "claim"
      BY <1>1, <3>1 DEF CallRecord, CallSteps
    <3>3. call' = [call EXCEPT ![p] = u]
      BY <1>1, <2>2, <3>0, <3>1 DEF FileTypes, CallRecord
    <3>4. /\ call' \in [Process -> CallRecord] /\ call'[p] = u
          /\ \A q \in Process : q # p => call'[q] = call[q]
      BY <1>1, <3>2, <3>3, CallBecomes
    <3>5. CallIsCurrent(p)'
      BY <3>2, <3>4 DEF CallIsCurrent
    <3>6. QED
      BY <1>1, <1>5, <3>4, <3>5 DEF ClaimSteal, LookOf, Open
  <2>3. QED
    BY <1>5, <2>1, <2>2 DEF ClaimSteal
<1>6. CASE ClaimFill(p)
  BY <1>1, <1>3, <1>6 DEF ClaimFill, LookOf, Open
<1>7. CASE WriteLooks(p)
  <2>1. CASE Go(p, "unclaim")
    BY <1>1, <1>3, <1>7, <2>1 DEF WriteLooks, LookOf, Open
  <2>2. CASE call' = [call EXCEPT ![p].at = "payload", ![p].seen = meta]
    <3>1. PICK u : u = [call[p] EXCEPT !.at = "payload", !.seen = meta]
      OBVIOUS
    <3>2. u \in CallRecord /\ u.at = "payload" /\ u.seen = meta
      BY <1>1, <3>1 DEF CallRecord, CallSteps
    <3>3. call' = [call EXCEPT ![p] = u]
      BY <1>1, <2>2, <3>1 DEF FileTypes
    <3>4. /\ call' \in [Process -> CallRecord] /\ call'[p] = u
          /\ \A q \in Process : q # p => call'[q] = call[q]
      BY <1>1, <3>2, <3>3, CallBecomes
    <3>5. CallIsCurrent(p)'
      BY <1>7, <3>2, <3>4 DEF CallIsCurrent, WriteLooks
    <3>6. QED
      BY <1>1, <1>7, <3>4, <3>5 DEF WriteLooks, LookOf, Open
  <2>3. QED
    BY <1>7, <2>1, <2>2 DEF WriteLooks
<1>8. CASE WritePins(p)
  <2>1. PICK u : u = [call[p] EXCEPT !.at = "commit", !.owners = pinFile]
    OBVIOUS
  <2>2. u \in CallRecord /\ u.at = "commit" /\ u.seen = call[p].seen /\ u.tx = call[p].tx
    BY <1>1, <2>1 DEF CallRecord, CallSteps
  <2>3. call' = [call EXCEPT ![p] = u]
    BY <1>1, <1>8, <2>1 DEF WritePins, FileTypes
  <2>4. /\ call' \in [Process -> CallRecord] /\ call'[p] = u
        /\ \A q \in Process : q # p => call'[q] = call[q]
    BY <1>1, <2>2, <2>3, CallBecomes
  <2>5. CallIsCurrent(p)'
    BY <1>1, <1>8, <2>2, <2>4 DEF CallIsCurrent, WritePins
  <2>6. QED
    BY <1>1, <1>8, <2>4, <2>5 DEF WritePins, LookOf, Open
<1>9. CASE WriteUnclaim(p)
  BY <1>1, <1>2, <1>9 DEF WriteUnclaim, LookOf, Open
<1>10. QED
  BY <1>4, <1>5, <1>6, <1>7, <1>8, <1>9

\* The files of a snapshot are unlinked one by one.
LEMMA UnlinkStep ==
    ASSUME FileInv, NEW p \in Process, NEW file \in {"meta", "pins", "payload"},
           DeleteUnlink(p, file)
    PROVE  FileInv'
<1>1. /\ FileTypes /\ meta \in MetaRecord /\ call[p] \in CallRecord
      /\ pinning \subseteq pinFile /\ CallIsCurrent(p) /\ FilesAgree
  BY BeforeFileStep DEF FileInv
<1>2. /\ call[p].at = "unlink" /\ file \in call[p].erase /\ pinning = {} /\ pinning' = {}
      /\ UNCHANGED <<nextTx, torn>>
      /\ "meta" \notin call[p].erase => meta.rev = 0
  BY <1>1 DEF CallIsCurrent, DeleteUnlink
<1>3. /\ meta' \in MetaRecord /\ meta'.tx < nextTx
      /\ file = "meta" => meta'.rev = 0
      /\ file # "meta" => meta' = meta
  <2>1. nextTx \in Nat /\ meta.tx \in Nat /\ meta.tx < nextTx
    BY <1>1 DEF FilesAgree, FileTypes, MetaRecord
  <2>2. QED
    BY <1>1, <2>1, EmptyFileRecords DEF DeleteUnlink
<1>4. payloads' \subseteq payloads /\ pinFile' \in SUBSET Process
  BY <1>1 DEF DeleteUnlink, FileTypes
<1>5. FilesAgree'
  BY <1>1, <1>2, <1>3, <1>4 DEF FilesAgree
<1>6. CASE call[p].erase = {file}
  <2>1. Ends(p)
    BY <1>6 DEF DeleteUnlink
  <2>2. /\ call' \in [Process -> CallRecord] /\ call'[p].at = "idle"
        /\ \A q \in Process : q # p => call'[q] = call[q]
    BY <1>1, <2>1, CallEnds
  <2>3. meta'.rev = 0
    BY <1>2, <1>3, <1>6
  <2>4. FileTypes' /\ CommittedIsReadable' /\ CallIsCurrent(p)'
    BY <1>1, <1>2, <1>3, <1>4, <2>2, <2>3 DEF FileTypes, CommittedIsReadable, CallIsCurrent
  <2>5. QED
    BY <1>2, <1>5, <2>2, <2>4, FileStepKeepsInv DEF Open
<1>7. CASE call[p].erase # {file}
  <2>1. PICK u : u = [call[p] EXCEPT !.erase = call[p].erase \ {file}]
    OBVIOUS
  <2>2. u \in CallRecord /\ u.at = "unlink" /\ u.erase = call[p].erase \ {file}
    BY <1>1, <1>2, <2>1 DEF CallRecord
  <2>3. call' = [call EXCEPT ![p] = u]
    BY <1>1, <1>7, <2>1 DEF DeleteUnlink, FileTypes, CallRecord
  <2>4. /\ call' \in [Process -> CallRecord] /\ call'[p] = u
        /\ \A q \in Process : q # p => call'[q] = call[q]
    BY <1>1, <2>2, <2>3, CallBecomes
  <2>5. FileTypes' /\ CommittedIsReadable'
    BY <1>1, <1>2, <1>3, <1>4, <2>2, <2>4 DEF FileTypes, CommittedIsReadable
  <2>6. "meta" \notin u.erase => meta'.rev = 0
    BY <1>2, <1>3, <2>2
  <2>7. CallIsCurrent(p)'
    BY <1>2, <2>2, <2>4, <2>6 DEF CallIsCurrent
  <2>8. QED
    BY <1>2, <1>5, <2>4, <2>5, <2>7, FileStepKeepsInv DEF Open
<1>8. QED
  BY <1>6, <1>7

\* pin and unpin write the owners and move the expiry.
LEMMA PinFileSteps ==
    ASSUME FileInv, NEW p \in Process, WriteOwners(p) \/ RewriteMeta(p)
    PROVE  FileInv'
<1>1. /\ FileTypes /\ meta \in MetaRecord /\ call[p] \in CallRecord
      /\ pinFile \in SUBSET Process /\ pinning \in SUBSET Process
      /\ pinning \subseteq pinFile /\ (pinning # {} => meta.rev # 0)
      /\ CallIsCurrent(p) /\ FilesAgree /\ CommittedIsReadable
  BY BeforeFileStep DEF FileInv
<1>2. Ends(p) => /\ call' \in [Process -> CallRecord] /\ call'[p].at = "idle"
                 /\ \A q \in Process : q # p => call'[q] = call[q]
                 /\ CallIsCurrent(p)'
  BY <1>1, CallEnds DEF CallIsCurrent
<1>3. CASE WriteOwners(p)
  <2>1. /\ call[p].at = "writeOwners" /\ meta.rev # 0 /\ pinning \subseteq call[p].owners
        /\ call[p].op = "pin" => p \in call[p].owners
        /\ pinFile' = call[p].owners /\ pinFile' \in SUBSET Process
        /\ UNCHANGED <<meta, payloads, claim, pinning, nextTx, torn>>
    BY <1>1, <1>3 DEF WriteOwners, CallIsCurrent, CallRecord
  <2>2. /\ call' \in [Process -> CallRecord]
        /\ \A q \in Process : q # p => call'[q] = call[q]
        /\ CallIsCurrent(p)'
    <3>1. CASE Ends(p)
      BY <1>2, <3>1
    <3>2. CASE Go(p, "rereadMeta")
      <4>1. /\ call' \in [Process -> CallRecord]
            /\ call'[p].at = "rereadMeta" /\ call'[p].op = call[p].op
            /\ \A q \in Process : q # p => call'[q] = call[q]
        BY <1>1, <3>2, CallGoes DEF CallSteps
      <4>2. CallIsCurrent(p)'
        BY <2>1, <4>1 DEF CallIsCurrent
      <4>3. QED
        BY <4>1, <4>2
    <3>3. QED
      BY <1>3, <3>1, <3>2 DEF WriteOwners
  <2>3. FileTypes' /\ FilesAgree' /\ CommittedIsReadable'
    BY <1>1, <2>1, <2>2 DEF FileTypes, FilesAgree, CommittedIsReadable
  <2>4. QED
    BY <2>1, <2>2, <2>3, FileStepKeepsInv DEF Open
<1>4. CASE RewriteMeta(p)
  <2>1. /\ call[p].at = "rewriteMeta" /\ meta.rev # 0 /\ call[p].seen = meta
        /\ call[p].op = "pin" => p \in pinFile
        /\ UNCHANGED <<payloads, pinFile, claim, nextTx, torn>>
    BY <1>1, <1>4 DEF RewriteMeta, CallIsCurrent
  <2>2. meta' \in MetaRecord /\ meta'.rev = meta.rev /\ meta'.tx = meta.tx
    BY <1>1, <1>4, <2>1 DEF RewriteMeta, MetaRecord, Times
  <2>3. /\ call' \in [Process -> CallRecord]
        /\ \A q \in Process : q # p => call'[q] = call[q]
        /\ CallIsCurrent(p)'
        /\ pinning' \in SUBSET Process /\ pinning' \subseteq pinFile
    <3>1. CASE call[p].op = "pin"
      BY <1>1, <1>2, <1>4, <2>1, <3>1 DEF RewriteMeta
    <3>2. CASE call[p].op # "pin"
      <4>1. PICK u : u = [call[p] EXCEPT !.at = "readMeta", !.op = "read"]
        OBVIOUS
      <4>2. u \in CallRecord /\ u.at = "readMeta" /\ u.op = "read"
        BY <1>1, <4>1 DEF CallRecord, CallSteps
      <4>3. call' = [call EXCEPT ![p] = u] /\ pinning' = pinning
        BY <1>1, <1>4, <3>2, <4>1 DEF RewriteMeta, FileTypes
      <4>4. /\ call' \in [Process -> CallRecord] /\ call'[p] = u
            /\ \A q \in Process : q # p => call'[q] = call[q]
        BY <1>1, <4>2, <4>3, CallBecomes
      <4>5. CallIsCurrent(p)'
        BY <4>2, <4>4 DEF CallIsCurrent
      <4>6. QED
        BY <1>1, <4>3, <4>4, <4>5
    <3>3. QED
      BY <3>1, <3>2
  <2>4. FileTypes' /\ FilesAgree' /\ CommittedIsReadable'
    BY <1>1, <2>1, <2>2, <2>3 DEF FileTypes, FilesAgree, CommittedIsReadable
  <2>5. QED
    BY <2>1, <2>3, <2>4, FileStepKeepsInv DEF Open
<1>5. QED
  BY <1>3, <1>4

\* The three steps of write that change the snapshot: the new payload, the
\* meta file that names it, and the end of the payload it replaces.
LEMMA WriteFileSteps ==
    ASSUME FileInv, NEW p \in Process, WritePayload(p) \/ WriteCommit(p) \/ WriteCleanup(p)
    PROVE  FileInv'
<1>1. /\ FileTypes /\ meta \in MetaRecord /\ call[p] \in CallRecord
      /\ meta.rev \in Nat /\ meta.tx \in Nat /\ nextTx \in Nat
      /\ call[p].tx \in Nat /\ call[p].seen \in MetaRecord /\ call[p].seen.rev \in Nat
      /\ call[p].seen.tx \in Nat
      /\ pinning \in SUBSET Process
      /\ pinning \subseteq pinFile /\ (pinning # {} => meta.rev # 0)
      /\ CallIsCurrent(p) /\ FilesAgree /\ CommittedIsReadable
  BY BeforeFileStep DEF FileInv, FileTypes, MetaRecord, CallRecord
<1>2. CASE WritePayload(p)
  <2>1. PICK u : u = [call[p] EXCEPT !.at = "pins", !.tx = nextTx]
    OBVIOUS
  <2>2. u \in CallRecord /\ u.at = "pins" /\ u.tx = nextTx /\ u.seen = call[p].seen
    BY <1>1, <2>1 DEF CallRecord, CallSteps
  <2>3. call' = [call EXCEPT ![p] = u]
    BY <1>1, <1>2, <2>1 DEF WritePayload, FileTypes
  <2>4. /\ call' \in [Process -> CallRecord] /\ call'[p] = u
        /\ \A q \in Process : q # p => call'[q] = call[q]
    BY <1>1, <2>2, <2>3, CallBecomes
  <2>5. /\ call[p].at = "payload" /\ call[p].seen = meta /\ meta.tx < nextTx
        /\ payloads' = payloads \cup {nextTx} /\ nextTx' = nextTx + 1
        /\ UNCHANGED <<meta, pinFile, claim, pinning, torn>>
    BY <1>1, <1>2 DEF WritePayload, CallIsCurrent, FilesAgree
  <2>6. CallIsCurrent(p)'
    BY <2>2, <2>4, <2>5 DEF CallIsCurrent
  <2>7. FileTypes'
    BY <1>1, <2>4, <2>5 DEF FileTypes
  <2>8. FilesAgree'
    BY <1>1, <2>5 DEF FilesAgree, FileTypes
  <2>9. CommittedIsReadable'
    BY <1>1, <2>4, <2>5 DEF CommittedIsReadable
  <2>10. QED
    BY <2>4, <2>5, <2>6, <2>7, <2>8, <2>9, FileStepKeepsInv DEF Open
<1>3. CASE WriteCommit(p)
  <2>1. /\ call[p].at = "commit" /\ call[p].tx \in payloads /\ call[p].seen.tx < call[p].tx
        /\ torn' = FALSE /\ UNCHANGED <<payloads, pinFile, claim, pinning, nextTx>>
        /\ Go(p, "cleanup")
    BY <1>1, <1>3 DEF WriteCommit, CallIsCurrent
  <2>2. /\ call' \in [Process -> CallRecord]
        /\ call'[p].at = "cleanup" /\ call'[p].seen = call[p].seen
        /\ \A q \in Process : q # p => call'[q] = call[q]
    BY <1>1, <2>1, CallGoes DEF CallSteps
  <2>3. meta' \in MetaRecord /\ meta'.rev # 0 /\ meta'.tx = call[p].tx
    BY <1>1, <1>3 DEF WriteCommit, MetaRecord, Times
  <2>4. CallIsCurrent(p)'
    BY <2>1, <2>2, <2>3 DEF CallIsCurrent
  <2>5. FileTypes' /\ CommittedIsReadable'
    BY <1>1, <2>1, <2>2, <2>3 DEF FileTypes, CommittedIsReadable
  <2>6. FilesAgree'
    BY <1>1, <2>1, <2>3 DEF FilesAgree
  <2>7. QED
    BY <2>1, <2>2, <2>4, <2>5, <2>6, FileStepKeepsInv DEF Open
<1>4. CASE WriteCleanup(p)
  <2>1. /\ call[p].at = "cleanup" /\ call[p].seen.tx < meta.tx
        /\ payloads' = payloads \ {call[p].seen.tx}
        /\ UNCHANGED <<meta, pinFile, claim, pinning, nextTx, torn>>
        /\ Go(p, "unclaim")
    BY <1>1, <1>4 DEF WriteCleanup, CallIsCurrent
  <2>2. /\ call' \in [Process -> CallRecord]
        /\ call'[p].at = "unclaim"
        /\ \A q \in Process : q # p => call'[q] = call[q]
    BY <1>1, <2>1, CallGoes DEF CallSteps
  <2>3. CallIsCurrent(p)'
    BY <2>2 DEF CallIsCurrent
  <2>4. meta.tx # call[p].seen.tx
    BY <1>1, <2>1
  <2>5. FileTypes' /\ CommittedIsReadable' /\ FilesAgree'
    BY <1>1, <2>1, <2>2, <2>4 DEF FileTypes, CommittedIsReadable, FilesAgree
  <2>6. QED
    BY <2>1, <2>2, <2>3, <2>5, FileStepKeepsInv DEF Open
<1>5. QED
  BY <1>2, <1>3, <1>4

\* A process dies between two files.
LEMMA ProcessDiesStep ==
    ASSUME FileInv, NEW p \in Process, ProcessDies(p)
    PROVE  FileInv'
<1>1. FileTypes /\ FilesAgree /\ CommittedIsReadable
  BY DEF FileInv
<1>2. PICK u : u = [NoCall EXCEPT !.at = "dead"]
  OBVIOUS
<1>3. u \in CallRecord /\ u.at = "dead"
  BY <1>2, EmptyFileRecords DEF CallRecord, CallSteps
<1>4. /\ call' \in [Process -> CallRecord] /\ call'[p] = u
      /\ \A q \in Process : q # p => call'[q] = call[q]
  BY <1>1, <1>2, <1>3, CallBecomes DEF ProcessDies
<1>5. torn' \in BOOLEAN
  BY DEF ProcessDies
<1>6. FileTypes' /\ FilesAgree'
  BY <1>1, <1>4, <1>5 DEF FileTypes, FilesAgree, ProcessDies
<1>7. CommittedIsReadable'
  BY <1>1, <1>4 DEF CommittedIsReadable, ProcessDies
<1>8. CallIsCurrent(p)'
  BY <1>3, <1>4 DEF CallIsCurrent
<1>9. QED
  BY <1>4, <1>6, <1>7, <1>8, FileStepKeepsInv DEF ProcessDies, Open

\* The meta file, and what a call has read of it, when its times fall due.
MetaLater(m) == [m EXCEPT !.expires = Overdue(@), !.restore = Overdue(@)]

\* It is another meta file of the same revision and payload.
LEMMA MetaLaterKeeps ==
    ASSUME NEW m \in MetaRecord
    PROVE  MetaLater(m) \in MetaRecord /\ MetaLater(m).rev = m.rev /\ MetaLater(m).tx = m.tx
BY DEF MetaLater, MetaRecord, Times, Overdue

\* A call when time passes.
LEMMA CallLater ==
    ASSUME NEW r \in CallRecord
    PROVE  LET n == [r EXCEPT !.seen.expires = Overdue(@), !.seen.restore = Overdue(@)]
           IN  /\ n \in CallRecord /\ n.at = r.at /\ n.op = r.op /\ n.owners = r.owners
               /\ n.tx = r.tx /\ n.erase = r.erase /\ n.seen = MetaLater(r.seen)
<1>1. r.seen \in MetaRecord
  BY DEF CallRecord
<1>2. PICK w : w = MetaLater(r.seen)
  OBVIOUS
<1>3. w \in MetaRecord
  BY <1>1, <1>2, MetaLaterKeeps
<1>4. [r EXCEPT !.seen.expires = Overdue(@), !.seen.restore = Overdue(@)] = [r EXCEPT !.seen = w]
  BY <1>1, <1>2 DEF MetaLater, CallRecord, MetaRecord
<1>5. QED
  BY <1>2, <1>3, <1>4 DEF CallRecord

\* The clock advances.
LEMMA ClockStep ==
    ASSUME FileInv, ClockAdvances
    PROVE  FileInv'
<1>1. /\ FileTypes /\ FilesAgree /\ CommittedIsReadable /\ meta \in MetaRecord
      /\ \A p, q \in Process : Open(p) /\ Open(q) => p = q
  BY DEF FileInv, FileTypes
<1>2. /\ meta' = MetaLater(meta) /\ meta' \in MetaRecord /\ meta'.rev = meta.rev
      /\ meta'.tx = meta.tx
      /\ UNCHANGED <<payloads, pinFile, claim, pinning, nextTx, torn>>
  BY <1>1, MetaLaterKeeps DEF ClockAdvances, MetaLater
<1>3. ASSUME NEW p \in Process
      PROVE  /\ call'[p] \in CallRecord /\ call'[p].at = call[p].at /\ call'[p].op = call[p].op
             /\ call'[p].owners = call[p].owners /\ call'[p].tx = call[p].tx
             /\ call'[p].erase = call[p].erase /\ call'[p].seen = MetaLater(call[p].seen)
             /\ call'[p].seen.tx = call[p].seen.tx
  <2>1. call[p] \in CallRecord /\ call[p].seen \in MetaRecord
    BY <1>1 DEF FileTypes, CallRecord
  <2>2. call'[p] = [call[p] EXCEPT !.seen.expires = Overdue(@), !.seen.restore = Overdue(@)]
    BY DEF ClockAdvances
  <2>3. MetaLater(call[p].seen).tx = call[p].seen.tx
    BY <2>1, MetaLaterKeeps
  <2>4. LET n == [call[p] EXCEPT !.seen.expires = Overdue(@), !.seen.restore = Overdue(@)]
        IN  /\ n \in CallRecord /\ n.at = call[p].at /\ n.op = call[p].op
            /\ n.owners = call[p].owners /\ n.tx = call[p].tx
            /\ n.erase = call[p].erase /\ n.seen = MetaLater(call[p].seen)
    BY <2>1, CallLater
  <2>5. QED
    BY <2>2, <2>3, <2>4
<1>4. call' \in [Process -> CallRecord]
  BY <1>3 DEF ClockAdvances
<1>5. FileTypes' /\ FilesAgree' /\ CommittedIsReadable'
  BY <1>1, <1>2, <1>3, <1>4 DEF FileTypes, FilesAgree, CommittedIsReadable
<1>6. \A p, q \in Process : Open(p)' /\ Open(q)' => p = q
  BY <1>1, <1>3 DEF Open
<1>7. ASSUME NEW p \in Process
      PROVE  CallIsCurrent(p)'
  <2>1. CallIsCurrent(p)
    BY DEF FileInv
  <2>2. QED
    BY <1>2, <1>3, <2>1 DEF CallIsCurrent
<1>8. QED
  BY <1>5, <1>6, <1>7 DEF FileInv

\* Every step keeps the invariant.
LEMMA FileInvKept ==
    ASSUME ~Overlapping, FileInv, [FileNext]_fileVars
    PROVE  FileInv'
<1>1. ASSUME NEW p \in Process, LookOf(p)
      PROVE  FileInv'
  BY <1>1, LookKeepsInv
<1>2. CASE ClockAdvances
  BY <1>2, ClockStep
<1>3. ASSUME NEW p \in Process,
             \/ \E op \in {"read", "pin", "unpin"} : BeginRead(p, op)
             \/ BeginDelete(p)
             \/ \E expected \in -1..MaxWrites, ttl \in BOOLEAN : BeginWrite(p, expected, ttl)
      PROVE  FileInv'
  BY <1>1, <1>3, BeginSteps
<1>4. ASSUME NEW p \in Process,
             \/ ReadMeta(p) \/ ReadPayload(p) \/ DeletePins(p) \/ DeleteMeta(p)
             \/ ReadOwners(p) \/ RereadMeta(p)
      PROVE  FileInv'
  BY <1>1, <1>4, ReadSteps
<1>5. ASSUME NEW p \in Process,
             \/ ClaimTry(p) \/ ClaimSteal(p) \/ ClaimFill(p)
             \/ WriteLooks(p) \/ WritePins(p) \/ WriteUnclaim(p)
      PROVE  FileInv'
  BY <1>1, <1>5, WriteLookSteps
<1>6. ASSUME NEW p \in Process, NEW file \in {"meta", "pins", "payload"}, DeleteUnlink(p, file)
      PROVE  FileInv'
  BY <1>6, UnlinkStep
<1>7. ASSUME NEW p \in Process, WriteOwners(p) \/ RewriteMeta(p)
      PROVE  FileInv'
  BY <1>7, PinFileSteps
<1>8. ASSUME NEW p \in Process, WritePayload(p) \/ WriteCommit(p) \/ WriteCleanup(p)
      PROVE  FileInv'
  BY <1>8, WriteFileSteps
<1>9. ASSUME NEW p \in Process, ProcessDies(p)
      PROVE  FileInv'
  BY <1>9, ProcessDiesStep
<1>10. CASE UNCHANGED fileVars
  <2>1. /\ UNCHANGED meta /\ UNCHANGED payloads /\ UNCHANGED pinFile /\ UNCHANGED call
        /\ UNCHANGED pinning /\ UNCHANGED nextTx /\ UNCHANGED torn
    BY <1>10 DEF fileVars
  <2>2. QED
    BY <2>1 DEF FileInv, FileTypes, FilesAgree, CommittedIsReadable, CallIsCurrent, Open
<1>11. CASE FileNext
  BY <1>2, <1>3, <1>4, <1>5, <1>6, <1>7, <1>8, <1>9, <1>11 DEF FileNext
<1>12. QED
  BY <1>10, <1>11

\* The invariant of the files holds in every state.
LEMMA FileInvariance ==
    ASSUME ~Overlapping
    PROVE  FileSpec => []FileInv
<1>1. FileInit => FileInv
  <2>1. SUFFICES ASSUME FileInit PROVE FileInv
    OBVIOUS
  <2>2. FileTypes /\ \A p \in Process : call[p].at = "idle"
    BY <2>1, EmptyFileRecords DEF FileInit, FileTypes
  <2>3. FilesAgree
    BY <2>1, EmptyFileRecords DEF FileInit, FilesAgree
  <2>4. CommittedIsReadable
    BY <2>1, EmptyFileRecords DEF FileInit, CommittedIsReadable
  <2>5. \A p \in Process : CallIsCurrent(p) /\ ~Open(p)
    BY <2>2 DEF CallIsCurrent, Open
  <2>6. QED
    BY <2>2, <2>3, <2>4, <2>5 DEF FileInv
<1>2. FileInv /\ [FileNext]_fileVars => FileInv'
  BY FileInvKept
<1>3. QED
  BY <1>1, <1>2, PTL DEF FileSpec

\* The file store keeps what pin promises: whoever pinned the snapshot and has
\* not unpinned it finds it on disk and is in the pins file, although any
\* process may die between any two files, if calls do not overlap.
THEOREM FilePinHoldsThm ==
    ASSUME ~Overlapping
    PROVE  FileSpec => []FilePinHolds
<1>1. FileInv => FilePinHolds
  BY DEF FileInv, FilesAgree, FilePinHolds
<1>2. QED
  BY <1>1, FileInvariance, PTL

\* The meta file of the file store never names a payload that is missing,
\* wherever a writer dies; only a delete that died half way leaves such a one.
THEOREM CommittedIsReadableThm ==
    ASSUME ~Overlapping
    PROVE  FileSpec => []CommittedIsReadable
<1>1. FileInv => CommittedIsReadable
  BY DEF FileInv
<1>2. QED
  BY <1>1, FileInvariance, PTL
-----------------------------------------------------------------------------
(* The registry. A slot has one caller, and the provider of a transition   *)
(* is the registered owner until the transition has returned; certified    *)
(* are only providers that keep the slots they replace.                    *)

Answered == {"applied", "verify", "record", "returned"}

\* The slots a caller may still use.
SlotsOf(c) ==
    ({held[c]} \cup (IF gateway[c].step \in Answered
                     THEN {gateway[c].old, gateway[c].new} ELSE {})) \ {0}

RegistryTypes ==
    /\ providers \in Seq(Provider) /\ certified \subseteq Provider
    /\ alive \in [Provider -> SUBSET Nat] /\ held \in [Caller -> Nat]
    /\ gateway = [c \in Caller |-> gateway[c]]

IdsDiffer ==
    \A i, j \in 1..Len(providers) : providers[i].id = providers[j].id => i = j

IsRegistered(p) == \E i \in 1..Len(providers) : providers[i] = p

CertifiedKeep == \A p \in certified : p.keeps /\ IsRegistered(p)

SlotsApart == \A c, d \in Caller : c # d => SlotsOf(c) \cap SlotsOf(d) = {}

CallSound(c) ==
    LET its == gateway[c]
    IN  /\ its.step \in {"idle", "evaluating", "bound"} \cup Answered
        /\ its.step \in {"bound"} \cup Answered => its.by \in Provider
        /\ its.step \in {"bound", "applied", "verify", "record"} =>
              its.by.id = StateOwner /\ IsRegistered(its.by)
        /\ its.step \in Answered =>
              /\ its = [step |-> its.step, by |-> its.by, grant |-> its.grant,
                        old |-> its.old, new |-> its.new]
              /\ its.old = held[c] /\ its.new \in Nat
        /\ its.step \in {"applied", "verify"} =>
              its.old # 0 /\ (its.by.keeps <=> its.old \in alive[its.by])
        /\ its.step = "record" =>
              its.old # 0 /\ its.by.keeps /\ its.old \in alive[its.by]
        /\ its.step = "returned" /\ its.old # 0 => its.old \in alive[its.by]

RegistryInv ==
    RegistryTypes /\ IdsDiffer /\ CertifiedKeep /\ SlotsApart /\ \A c \in Caller : CallSound(c)

\* The registered provider with the owner's id, if there is one: the ids of
\* the registered providers differ.
LEMMA OwnerIsRegistered ==
    ASSUME RegistryTypes, IdsDiffer
    PROVE  /\ Owner # NoProvider =>
                 Owner \in Provider /\ Owner.id = StateOwner /\ IsRegistered(Owner)
           /\ \A p : IsRegistered(p) /\ p.id = StateOwner => Owner = p
<1> DEFINE I == {i \in 1..Len(providers) : providers[i].id = StateOwner}
<1>1. Owner = IF I = {} THEN NoProvider ELSE providers[Min(I)]
  <2>1. 0 \notin I
    OBVIOUS
  <2>2. I # {} => Min(I) \in I
    <3> SUFFICES ASSUME I # {}
                 PROVE  Min(I) \in I
      OBVIOUS
    <3> PICK i \in I : TRUE
      OBVIOUS
    <3>1. \A j \in I : j = i /\ i \in Int
      BY DEF IdsDiffer
    <3>2. i \in I /\ \A j \in I : i <= j
      BY <3>1
    <3> QED  BY <3>2 DEF Min
  <2> QED  BY <2>1, <2>2 DEF Owner, SelectInSeq
<1>2. ASSUME NEW i \in I
      PROVE  Owner = providers[i]
  <2>1. \A j \in I : j = i /\ i \in Int
    BY DEF IdsDiffer
  <2>2. Min(I) = i
    BY <2>1 DEF Min
  <2> QED  BY <1>1, <2>2
<1>3. Owner # NoProvider => \E i \in I : TRUE
  BY <1>1
<1>4. \A i \in I : providers[i] \in Provider /\ providers[i].id = StateOwner
  BY DEF RegistryTypes
<1> HIDE DEF I
<1>5. ASSUME Owner # NoProvider
      PROVE  Owner \in Provider /\ Owner.id = StateOwner /\ IsRegistered(Owner)
  <2> PICK i \in I : TRUE
    BY <1>3, <1>5
  <2> QED  BY <1>2, <1>4 DEF IsRegistered, I
<1>6. ASSUME NEW p, IsRegistered(p), p.id = StateOwner
      PROVE  Owner = p
  BY <1>2, <1>6 DEF IsRegistered, I
<1> QED  BY <1>5, <1>6

\* Two registered providers with one id are one.
LEMMA RegisteredOnce ==
    ASSUME IdsDiffer, NEW p, NEW q, IsRegistered(p), IsRegistered(q), p.id = q.id
    PROVE  p = q
BY DEF IdsDiffer, IsRegistered

\* A call that is left alone stays sound, as long as nobody adds or removes
\* its old slot.
LEMMA CallStays ==
    ASSUME NEW d \in Caller, CallSound(d), gateway'[d] = gateway[d], held'[d] = held[d],
           providers' = providers,
           \A p \in Provider : gateway[d].step \in Answered /\ held[d] # 0 =>
               (held[d] \in alive'[p] <=> held[d] \in alive[p])
    PROVE  CallSound(d)'
<1> DEFINE g == gateway[d]
<1>1. \A p : IsRegistered(p)' <=> IsRegistered(p)
  BY DEF IsRegistered
<1>2. g.step \in {"idle", "evaluating", "bound"} \cup Answered
  BY DEF CallSound
<1>3. CASE g.step \in {"idle", "evaluating", "bound"}
  BY <1>1, <1>3 DEF CallSound, Answered
<1>4. CASE g.step \in Answered
  <2>1. g.by \in Provider /\ g.old = held[d]
    BY <1>4 DEF CallSound
  <2>2. g.old # 0 => (g.old \in alive'[g.by] <=> g.old \in alive[g.by])
    BY <1>4, <2>1
  <2> QED  BY <1>1, <1>4, <2>1, <2>2 DEF CallSound, Answered
<1> QED  BY <1>2, <1>3, <1>4

\* Steps of one caller that leave the registered providers alone: what has
\* to be shown of them.
LEMMA CallerMoves ==
    ASSUME RegistryInv, NEW c \in Caller, NEW g,
           gateway' = [gateway EXCEPT ![c] = g], providers' = providers,
           \A d \in Caller \ {c} : held'[d] = held[d],
           alive' \in [Provider -> SUBSET Nat], held' \in [Caller -> Nat],
           CertifiedKeep', certified' \subseteq Provider,
           CallSound(c)',
           \A d \in Caller \ {c} : SlotsOf(c)' \cap SlotsOf(d) = {},
           \A d \in Caller \ {c}, p \in Provider : held[d] # 0 =>
               (held[d] \in alive'[p] <=> held[d] \in alive[p])
    PROVE  RegistryInv'
<1>1. RegistryTypes'
  BY DEF RegistryInv, RegistryTypes
<1>2. IdsDiffer'
  BY DEF RegistryInv, IdsDiffer
<1>3. \A d \in Caller \ {c} : gateway'[d] = gateway[d]
  BY DEF RegistryInv, RegistryTypes
<1>4. \A d \in Caller : CallSound(d)'
  BY <1>3, CallStays DEF RegistryInv
<1>5. SlotsApart'
  <2>1. \A d \in Caller \ {c} : SlotsOf(d)' = SlotsOf(d)
    BY <1>3 DEF SlotsOf
  <2>2. ASSUME NEW d \in Caller, NEW e \in Caller, d # e
        PROVE  SlotsOf(d)' \cap SlotsOf(e)' = {}
    <3>1. CASE d = c
      BY <2>1, <2>2, <3>1
    <3>2. CASE e = c
      BY <2>1, <2>2, <3>2
    <3>3. CASE d # c /\ e # c
      BY <2>1, <2>2, <3>3 DEF RegistryInv, SlotsApart
    <3> QED  BY <3>1, <3>2, <3>3
  <2> QED  BY <2>2 DEF SlotsApart
<1> QED  BY <1>1, <1>2, <1>4, <1>5 DEF RegistryInv

\* Steps of one caller that change neither slots nor certifications.
LEMMA CallerTurns ==
    ASSUME RegistryInv, NEW c \in Caller, NEW g,
           gateway' = [gateway EXCEPT ![c] = g],
           UNCHANGED <<providers, certified, alive, held>>,
           CallSound(c)',
           \/ g.step \notin Answered
           \/ /\ gateway[c].step \in Answered
              /\ {g.old, g.new} = {gateway[c].old, gateway[c].new}
    PROVE  RegistryInv'
<1>1. gateway'[c] = g
  BY DEF RegistryInv, RegistryTypes
<1>2. SlotsOf(c)' \subseteq SlotsOf(c)
  BY <1>1 DEF SlotsOf
<1>3. \A d \in Caller \ {c} : SlotsOf(c)' \cap SlotsOf(d) = {}
  BY <1>2 DEF RegistryInv, SlotsApart
<1>4. CertifiedKeep'
  BY DEF RegistryInv, CertifiedKeep, IsRegistered
<1> QED  BY <1>3, <1>4, CallerMoves DEF RegistryInv, RegistryTypes

\* A call that ends, or an evaluation.
LEMMA CallerRests ==
    ASSUME RegistryInv, NEW c \in Caller, NEW g, g.step \in {"idle", "evaluating"},
           GatewayCalls(c, g),
           UNCHANGED <<providers, certified, alive, held>>
    PROVE  RegistryInv'
<1>1. gateway' = [gateway EXCEPT ![c] = g] /\ gateway'[c] = g
  BY DEF RegistryInv, RegistryTypes, GatewayCalls
<1>2. CallSound(c)'
  BY <1>1 DEF CallSound, Answered
<1> QED  BY <1>1, <1>2, CallerTurns DEF Answered

\* The owner of the states is bound to a transition.
LEMMA BindKeeps ==
    ASSUME RegistryInv, NEW c \in Caller, NEW g, BindTransition(c, g)
    PROVE  RegistryInv'
<1> PICK o : o = Owner
  OBVIOUS
<1> PICK new : new = [step |-> "bound", by |-> o, grant |-> g]
  OBVIOUS
<1>1. new.step = "bound" /\ new.by = o
  OBVIOUS
<1>2. gateway' = [gateway EXCEPT ![c] = new] /\ UNCHANGED <<providers, certified, alive, held>>
  BY DEF BindTransition, GatewayCalls
<1>3. o \in Provider /\ o.id = StateOwner /\ IsRegistered(o)
  BY OwnerIsRegistered DEF BindTransition, TransitionBindable, RegistryInv
<1>4. gateway'[c] = new /\ IsRegistered(o)'
  BY <1>2, <1>3 DEF RegistryInv, RegistryTypes, IsRegistered
<1>5. CallSound(c)'
  BY <1>1, <1>3, <1>4 DEF CallSound, Answered
<1> QED  BY <1>1, <1>2, <1>5, CallerTurns DEF Answered

\* The call goes on to its next step.
LEMMA NextStep ==
    ASSUME RegistryInv, NEW c \in Caller, gateway[c].step \in Answered, NEW s, NEW new,
           new = [gateway[c] EXCEPT !.step = s]
    PROVE  new = [step |-> s, by |-> gateway[c].by, grant |-> gateway[c].grant,
                  old |-> gateway[c].old, new |-> gateway[c].new]
<1>1. gateway[c] = [step |-> gateway[c].step, by |-> gateway[c].by,
                    grant |-> gateway[c].grant, old |-> gateway[c].old,
                    new |-> gateway[c].new]
  BY DEF RegistryInv, CallSound
<1>2. PICK x, b, g, o, n :
         /\ gateway[c] = [step |-> x, by |-> b, grant |-> g, old |-> o, new |-> n]
         /\ b = gateway[c].by /\ g = gateway[c].grant /\ o = gateway[c].old
         /\ n = gateway[c].new
  BY <1>1
<1> QED  BY <1>2

\* A provider with a certification is certified itself, and keeps.
LEMMA LookUpKeeps ==
    ASSUME RegistryInv, NEW c \in Caller, LookUpCertification(c)
    PROVE  RegistryInv'
<1>1. PICK s \in {"verify", "returned"} :
         /\ RequiresCertification(c) => s = "verify"
         /\ ~RequiresCertification(c) => s = "returned"
         /\ gateway' = [gateway EXCEPT ![c] = [gateway[c] EXCEPT !.step = s]]
  BY DEF LookUpCertification, GatewayCalls
<1>2. PICK new : new = [gateway[c] EXCEPT !.step = s]
  OBVIOUS
<1>3. gateway' = [gateway EXCEPT ![c] = new] /\ UNCHANGED <<providers, certified, alive, held>>
  BY <1>1, <1>2 DEF LookUpCertification
<1>4. gateway[c].step = "applied" /\ CallSound(c)
  BY DEF LookUpCertification, RegistryInv
<1>5. new = [step |-> s, by |-> gateway[c].by, grant |-> gateway[c].grant,
             old |-> gateway[c].old, new |-> gateway[c].new]
  BY <1>2, <1>4, NextStep DEF Answered
<1>6. gateway'[c] = new
  BY <1>3 DEF RegistryInv, RegistryTypes
<1> PICK b : b = gateway[c].by
  OBVIOUS
<1>7. IsRegistered(b)'
  BY <1>3, <1>4 DEF CallSound, IsRegistered
<1>8. s = "returned" => gateway[c].old \in alive[gateway[c].by]
  <2> SUFFICES ASSUME s = "returned"
               PROVE  gateway[c].old \in alive[gateway[c].by]
    OBVIOUS
  <2>1. PICK p \in certified : p.id = gateway[c].by.id
    BY <1>1 DEF RequiresCertification
  <2>2. p = gateway[c].by /\ p.keeps
    BY <1>4, <2>1, RegisteredOnce DEF RegistryInv, CertifiedKeep, CallSound
  <2> QED  BY <1>4, <2>2 DEF CallSound
<1>9. CallSound(c)'
  BY <1>3, <1>4, <1>5, <1>6, <1>7, <1>8 DEF CallSound, Answered
<1> QED  BY <1>1, <1>3, <1>4, <1>5, <1>9, CallerTurns DEF Answered

\* The old slot is materialized by the provider that replaced it, which is
\* still the registered owner.
LEMMA VerifyKeeps ==
    ASSUME RegistryInv, NEW c \in Caller, VerifyPredecessor(c)
    PROVE  RegistryInv'
<1>1. gateway[c].step = "verify" /\ CallSound(c) /\ UNCHANGED <<providers, certified, alive, held>>
  BY DEF VerifyPredecessor, RegistryInv
<1>2. CASE ~Materializes(gateway[c].old, gateway[c].grant)
  <2>1. GatewayCalls(c, NoGatewayCall)
    BY <1>2 DEF VerifyPredecessor
  <2>2. NoGatewayCall.step \in {"idle", "evaluating"}
    BY DEF NoGatewayCall
  <2> QED  BY <1>1, <2>1, <2>2, CallerRests
<1>3. CASE Materializes(gateway[c].old, gateway[c].grant)
  <2>1. PICK new : new = [gateway[c] EXCEPT !.step = "record"]
    OBVIOUS
  <2>2. gateway' = [gateway EXCEPT ![c] = new]
    BY <1>3, <2>1 DEF VerifyPredecessor, GatewayCalls
  <2>3. new = [step |-> "record", by |-> gateway[c].by, grant |-> gateway[c].grant,
               old |-> gateway[c].old, new |-> gateway[c].new]
    BY <1>1, <2>1, NextStep DEF Answered
  <2>4. gateway'[c] = new
    BY <2>2 DEF RegistryInv, RegistryTypes
  <2>5. Owner = gateway[c].by
    BY <1>1, OwnerIsRegistered DEF RegistryInv, CallSound
  <2>6. gateway[c].old \in alive[gateway[c].by]
    BY <1>3, <2>5 DEF Materializes
  <2> PICK b : b = gateway[c].by
    OBVIOUS
  <2>7. IsRegistered(b)'
    BY <1>1 DEF CallSound, IsRegistered
  <2>8. CallSound(c)'
    BY <1>1, <2>3, <2>4, <2>6, <2>7 DEF CallSound, Answered
  <2> QED  BY <1>1, <2>2, <2>3, <2>8, CallerTurns DEF Answered
<1> QED  BY <1>2, <1>3

\* A certification is issued to a provider that kept the slot it replaced.
LEMMA RecordKeeps ==
    ASSUME RegistryInv, NEW c \in Caller, RecordCertification(c)
    PROVE  RegistryInv'
<1>1. gateway[c].step = "record" /\ CallSound(c) /\ UNCHANGED <<providers, alive, held>>
  BY DEF RecordCertification, RegistryInv
<1>2. PICK new : new = [gateway[c] EXCEPT !.step = "returned"]
  OBVIOUS
<1>3. gateway' = [gateway EXCEPT ![c] = new]
  BY <1>2 DEF RecordCertification, GatewayCalls
<1>4. new = [step |-> "returned", by |-> gateway[c].by, grant |-> gateway[c].grant,
             old |-> gateway[c].old, new |-> gateway[c].new]
  BY <1>1, <1>2, NextStep DEF Answered
<1>5. gateway'[c] = new
  BY <1>3 DEF RegistryInv, RegistryTypes
<1>6. CallSound(c)'
  BY <1>1, <1>4, <1>5 DEF CallSound, Answered
<1>7. certified' = certified \/ certified' = certified \cup {gateway[c].by}
  BY DEF RecordCertification
<1>8. CertifiedKeep' /\ certified' \subseteq Provider
  BY <1>1, <1>7
     DEF RegistryInv, RegistryTypes, CertifiedKeep, CallSound, IsRegistered, Answered
<1>9. SlotsOf(c)' = SlotsOf(c)
  BY <1>1, <1>4, <1>5 DEF SlotsOf, Answered
<1>10. \A d \in Caller \ {c} : SlotsOf(c)' \cap SlotsOf(d) = {}
  BY <1>9 DEF RegistryInv, SlotsApart
<1> QED  BY <1>1, <1>3, <1>6, <1>8, <1>10, CallerMoves DEF RegistryInv, RegistryTypes

\* What a new slot is not: a slot of another caller.
LEMMA FreshIsNobodys ==
    ASSUME RegistryInv, NEW s \in Fresh, NEW d \in Caller
    PROVE  s \in Nat \ {0} /\ s \notin SlotsOf(d)
<1> DEFINE others == {e \in Caller : gateway[e].step \in
                                         {"applied", "verify", "record", "returned"}}
           named == UNION {{gateway[e].old, gateway[e].new} : e \in others}
           owned == {held[e] : e \in Caller}
           kept == UNION {alive[p] : p \in Provider}
<1>0. s \in 1..MaxSlots /\ s \notin owned /\ s \notin named
  <2>1. Fresh = {x \in 1..MaxSlots \ (kept \cup owned \cup named) :
                    \A t \in 1..MaxSlots \ (kept \cup owned \cup named) : x <= t}
    BY DEF Fresh
  <2> HIDE DEF kept, owned, named
  <2> QED  BY <2>1
<1>1. s \in 1..MaxSlots /\ s # held[d]
  BY <1>0
<1>2. gateway[d].step \in Answered => s # gateway[d].old /\ s # gateway[d].new
  <2> SUFFICES ASSUME gateway[d].step \in Answered
               PROVE  s # gateway[d].old /\ s # gateway[d].new
    OBVIOUS
  <2>1. d \in others
    BY DEF Answered
  <2>2. gateway[d].old \in named /\ gateway[d].new \in named
    <3>1. {gateway[d].old, gateway[d].new} \in
             {{gateway[e].old, gateway[e].new} : e \in others}
      BY <2>1
    <3> QED  BY <3>1
  <2> QED  BY <1>0, <2>2
<1> QED  BY <1>1, <1>2, RegistryAssumption DEF SlotsOf

\* A transition uses up a slot of its caller at most and makes a new one.
LEMMA TransitionKeeps ==
    ASSUME RegistryInv, NEW c \in Caller, NEW status \in {"applied", "skipped"},
           NEW new \in 1..MaxSlots, Transition(c, status, new)
    PROVE  RegistryInv'
<1> PICK p : p = gateway[c].by
  OBVIOUS
<1> PICK old : old = held[c]
  OBVIOUS
<1> PICK g : g = gateway[c].grant
  OBVIOUS
<1>1. /\ gateway[c].step = "bound" /\ CallSound(c) /\ RegistryTypes
      /\ p \in Provider /\ p.id = StateOwner /\ IsRegistered(p)
      /\ old \in Nat /\ new \in Nat \ {0}
  BY RegistryAssumption DEF Transition, RegistryInv, CallSound, RegistryTypes
<1>2. /\ old # 0 => old \in alive[p]
      /\ status = "skipped" => old # 0
      /\ new \in Fresh \cup {old}
      /\ p.keeps => ValidSuccessor(old, status, new)
      /\ UNCHANGED <<providers, certified, held>>
  BY DEF Transition
<1>3. PICK S : /\ S = IF status = "applied" /\ (new = old \/ ~p.keeps)
                      THEN (alive[p] \ {old}) \cup ({new} \ {old}) ELSE alive[p] \cup {new}
               /\ alive' = [alive EXCEPT ![p] = S]
  BY DEF Transition
<1>4. S \in SUBSET Nat /\ \A x \in Nat : x # new /\ x # old => (x \in S <=> x \in alive[p])
  BY <1>1, <1>3 DEF RegistryTypes
<1>5. alive' \in [Provider -> SUBSET Nat]
  BY <1>1, <1>3, <1>4 DEF RegistryTypes
<1>6. \A d \in Caller \ {c} : held[d] # 0 => held[d] # new /\ held[d] # old
  <2> SUFFICES ASSUME NEW d \in Caller \ {c}, held[d] # 0
               PROVE  held[d] # new /\ held[d] # old
    OBVIOUS
  <2>1. held[d] \in SlotsOf(d) /\ (old # 0 => old \in SlotsOf(c))
    BY DEF SlotsOf
  <2>2. held[d] # old
    BY <2>1 DEF RegistryInv, SlotsApart
  <2>3. new \in Fresh => held[d] # new
    BY <2>1, FreshIsNobodys
  <2> QED  BY <1>2, <2>2, <2>3
<1>7. \A d \in Caller \ {c}, q \in Provider : held[d] # 0 =>
         (held[d] \in alive'[q] <=> held[d] \in alive[q])
  BY <1>1, <1>3, <1>4, <1>6 DEF RegistryTypes
<1>8. CertifiedKeep' /\ certified' \subseteq Provider /\ held' \in [Caller -> Nat]
  BY <1>2 DEF RegistryInv, RegistryTypes, CertifiedKeep, IsRegistered
<1>9. CASE ~ValidSuccessor(old, status, new)
  <2> PICK call1 : call1 = NoGatewayCall
    OBVIOUS
  <2>1. gateway' = [gateway EXCEPT ![c] = call1] /\ call1.step = "idle"
    BY <1>9 DEF Transition, GatewayCalls, NoGatewayCall
  <2>2. gateway'[c] = call1
    BY <1>1, <2>1 DEF RegistryTypes
  <2>3. CallSound(c)'
    BY <2>1, <2>2 DEF CallSound, Answered
  <2>4. SlotsOf(c)' \subseteq SlotsOf(c)
    BY <1>2, <2>1, <2>2 DEF SlotsOf, Answered
  <2>5. \A d \in Caller \ {c} : SlotsOf(c)' \cap SlotsOf(d) = {}
    BY <2>4 DEF RegistryInv, SlotsApart
  <2> QED  BY <1>2, <1>5, <1>7, <1>8, <2>1, <2>3, <2>5, CallerMoves
<1>10. CASE ValidSuccessor(old, status, new)
  <2>1. PICK s \in {"applied", "returned"} :
           /\ status = "applied" /\ old # 0 <=> s = "applied"
           /\ gateway' = [gateway EXCEPT ![c] = [step |-> s, by |-> p, grant |-> g,
                                                 old |-> old, new |-> new]]
    BY <1>10 DEF Transition, GatewayCalls
  <2> PICK call1 : call1 = [step |-> s, by |-> p, grant |-> g, old |-> old, new |-> new]
    OBVIOUS
  <2>2. gateway' = [gateway EXCEPT ![c] = call1] /\ gateway'[c] = call1
    BY <1>1, <2>1 DEF RegistryTypes
  <2>3. s = "applied" => old # 0 /\ (p.keeps <=> old \in S)
    BY <1>2, <1>3, <1>10, <2>1 DEF ValidSuccessor
  <2>4. s = "returned" /\ old # 0 => old \in S
    BY <1>2, <1>3, <1>10, <2>1 DEF ValidSuccessor
  <2>5. alive'[p] = S /\ IsRegistered(p)'
    BY <1>1, <1>2, <1>3 DEF RegistryTypes, IsRegistered
  <2>6. CallSound(c)'
    BY <1>1, <1>2, <2>1, <2>2, <2>3, <2>4, <2>5 DEF CallSound, Answered
  <2>7. SlotsOf(c)' \subseteq SlotsOf(c) \cup (IF new = old THEN {} ELSE {new})
    BY <1>2, <2>1, <2>2 DEF SlotsOf, Answered
  <2>8. \A d \in Caller \ {c} : new = old \/ new \notin SlotsOf(d)
    BY <1>2, FreshIsNobodys
  <2>9. \A d \in Caller \ {c} : SlotsOf(c)' \cap SlotsOf(d) = {}
    BY <2>7, <2>8 DEF RegistryInv, SlotsApart
  <2> QED  BY <1>2, <1>5, <1>7, <1>8, <2>2, <2>6, <2>9, CallerMoves
<1> QED  BY <1>9, <1>10

\* The caller lets go of slots of its own, whoever is asked to drop them.
LEMMA ReleaseKeeps ==
    ASSUME RegistryInv, NEW c \in Caller, NEW S, NEW g, Released(S, g),
           S \ {0} \subseteq SlotsOf(c), NEW keep \in Nat, keep \in SlotsOf(c) \cup {0},
           held' = [held EXCEPT ![c] = keep],
           NEW rest, rest.step = "idle", gateway' = [gateway EXCEPT ![c] = rest],
           UNCHANGED <<providers, certified>>
    PROVE  RegistryInv'
<1>1. RegistryTypes
  BY DEF RegistryInv
<1>2. alive' = [alive EXCEPT ![Owner] = alive[Owner] \ S] \/ alive' = alive
  BY DEF Released
<1>3. alive' \in [Provider -> SUBSET Nat]
  BY <1>1, <1>2 DEF RegistryTypes
<1>4. \A p \in Provider : \A x : x \notin S => (x \in alive'[p] <=> x \in alive[p])
  BY <1>1, <1>2 DEF RegistryTypes
<1>5. \A d \in Caller \ {c} : held[d] # 0 => held[d] \notin S
  BY DEF SlotsOf, RegistryInv, SlotsApart
<1>6. gateway'[c] = rest /\ held'[c] = keep /\ \A d \in Caller \ {c} : held'[d] = held[d]
  BY <1>1 DEF RegistryTypes
<1>7. CallSound(c)'
  BY <1>6 DEF CallSound, Answered
<1>8. SlotsOf(c)' \subseteq SlotsOf(c)
  BY <1>6 DEF SlotsOf, Answered
<1>9. \A d \in Caller \ {c} : SlotsOf(c)' \cap SlotsOf(d) = {}
  BY <1>8 DEF RegistryInv, SlotsApart
<1>10. CertifiedKeep' /\ certified' \subseteq Provider /\ held' \in [Caller -> Nat]
  BY <1>1 DEF RegistryInv, RegistryTypes, CertifiedKeep, IsRegistered
<1>11. \A d \in Caller \ {c}, p \in Provider : held[d] # 0 =>
          (held[d] \in alive'[p] <=> held[d] \in alive[p])
  BY <1>4, <1>5
<1> QED  BY <1>3, <1>6, <1>7, <1>9, <1>10, <1>11, CallerMoves

\* Between transitions providers come, go and are replaced; a call that has
\* returned needs none of them.
LEMMA RegistrationMoves ==
    ASSUME RegistryInv, ~Overtaking, Changeable, providers' \in Seq(Provider), IdsDiffer',
           CertifiedKeep', certified' \subseteq certified, UNCHANGED <<alive, held, gateway>>
    PROVE  RegistryInv'
<1>1. \A c \in Caller : gateway[c].step \in {"idle", "evaluating", "returned"}
  BY DEF Changeable
<1>2. RegistryTypes' /\ SlotsApart'
  BY DEF RegistryInv, RegistryTypes, SlotsApart, SlotsOf
<1>3. \A c \in Caller : CallSound(c)'
  BY <1>1 DEF RegistryInv, CallSound, Answered
<1> QED  BY <1>2, <1>3 DEF RegistryInv

\* A provider that goes leaves the others in their order.
LEMMA UnregisterLeaves ==
    ASSUME providers \in Seq(Provider), NEW id, UnregisterProvider(id)
    PROVE  \E k \in 1..Len(providers) :
              /\ providers[k].id = id
              /\ providers' \in Seq(Provider) /\ Len(providers') = Len(providers) - 1
              /\ \A i \in 1..(Len(providers) - 1) :
                    providers'[i] = IF i < k THEN providers[i] ELSE providers[i + 1]
<1>0. DOMAIN providers = 1..Len(providers)
  OBVIOUS
<1>1. PICK k \in 1..Len(providers) :
         /\ providers[k].id = id
         /\ providers' = SubSeq(providers, 1, k - 1) \o SubSeq(providers, k + 1, Len(providers))
  BY <1>0, Zenon DEF UnregisterProvider, RemoveAt
<1> PICK n \in Nat : n = Len(providers)
  BY <1>1
<1>2. /\ SubSeq(providers, 1, k - 1) \in Seq(Provider)
      /\ Len(SubSeq(providers, 1, k - 1)) = k - 1
      /\ \A i \in 1..(k - 1) : SubSeq(providers, 1, k - 1)[i] = providers[i]
  BY <1>1
<1>3. /\ SubSeq(providers, k + 1, n) \in Seq(Provider)
      /\ Len(SubSeq(providers, k + 1, n)) = n - k
      /\ \A i \in 1..(n - k) : SubSeq(providers, k + 1, n)[i] = providers[k + i]
  BY <1>1
<1>4. /\ providers' \in Seq(Provider) /\ Len(providers') = n - 1
      /\ \A i \in 1..(n - 1) :
            providers'[i] = IF i < k THEN providers[i] ELSE providers[i + 1]
  <2> PICK s : s = SubSeq(providers, 1, k - 1)
    OBVIOUS
  <2> PICK t : t = SubSeq(providers, k + 1, n)
    OBVIOUS
  <2>1. /\ s \in Seq(Provider) /\ t \in Seq(Provider) /\ providers' = s \o t
        /\ Len(s) = k - 1 /\ Len(t) = n - k
    BY <1>1, <1>2, <1>3
  <2>2. /\ providers' \in Seq(Provider) /\ Len(providers') = n - 1
        /\ \A i \in 1..(n - 1) :
              providers'[i] = IF i <= k - 1 THEN s[i] ELSE t[i - (k - 1)]
    <3>1. (k - 1) + (n - k) = n - 1
      BY <1>1
    <3>2. /\ s \o t \in Seq(Provider) /\ Len(s \o t) = Len(s) + Len(t)
          /\ \A i \in 1..(Len(s) + Len(t)) :
                (s \o t)[i] = IF i <= Len(s) THEN s[i] ELSE t[i - Len(s)]
      BY <2>1, ConcatProperties
    <3> QED  BY <2>1, <3>1, <3>2
  <2>3. ASSUME NEW i \in 1..(n - 1)
        PROVE  providers'[i] = IF i < k THEN providers[i] ELSE providers[i + 1]
    <3>1. CASE i < k
      BY <1>2, <2>2, <3>1
    <3>2. CASE ~(i < k)
      <4>0. ~(i <= k - 1)
        BY <3>2
      <4>1. providers'[i] = t[i - (k - 1)]
        BY <2>2, <4>0
      <4>2. i - (k - 1) \in 1..(n - k) /\ k + (i - (k - 1)) = i + 1
        BY <3>2
      <4>3. t[i - (k - 1)] = providers[k + (i - (k - 1))]
        BY <1>3, <4>2
      <4> QED  BY <3>2, <4>1, <4>2, <4>3
    <3> QED  BY <3>1, <3>2
  <2> QED  BY <2>2, <2>3
<1> QED  BY <1>1, <1>4

\* Registered providers keep different ids.
LEMMA RegistrationKeepsIds ==
    ASSUME providers \in Seq(Provider), IdsDiffer, RegistrationNext
    PROVE  providers' \in Seq(Provider) /\ IdsDiffer'
<1>1. ASSUME NEW p \in Provider, RegisterProvider(p)
      PROVE  providers' \in Seq(Provider) /\ IdsDiffer'
  <2>1. providers' = Append(providers, p)
    BY <1>1 DEF RegisterProvider
  <2>2. \A i \in 1..Len(providers) : providers[i].id # p.id
    BY <1>1 DEF RegisterProvider, Registration, ToSet
  <2>3. /\ providers' \in Seq(Provider) /\ Len(providers') = Len(providers) + 1
        /\ \A i \in 1..Len(providers) : providers'[i] = providers[i]
        /\ providers'[Len(providers) + 1] = p
    BY <2>1
  <2> QED  BY <2>2, <2>3 DEF IdsDiffer
<1>2. ASSUME NEW p \in Provider, ReplaceProvider(p)
      PROVE  providers' \in Seq(Provider) /\ IdsDiffer'
  <2>1. providers' = [k \in 1..Len(providers) |->
                         IF providers[k].id = p.id THEN p ELSE providers[k]]
    BY <1>2 DEF ReplaceProvider
  <2>2. providers' \in Seq(Provider) /\ Len(providers') = Len(providers)
    BY <2>1
  <2>3. \A i \in 1..Len(providers) : providers'[i].id = providers[i].id
    BY <2>1
  <2> QED  BY <2>2, <2>3 DEF IdsDiffer
<1>3. ASSUME NEW id, UnregisterProvider(id)
      PROVE  providers' \in Seq(Provider) /\ IdsDiffer'
  <2> PICK n \in Nat : n = Len(providers)
    OBVIOUS
  <2>1. PICK k \in 1..n :
           /\ providers' \in Seq(Provider) /\ Len(providers') = n - 1
           /\ \A i \in 1..(n - 1) :
                 providers'[i] = IF i < k THEN providers[i] ELSE providers[i + 1]
    BY <1>3, UnregisterLeaves
  <2>2. IdsDiffer'
    <3> SUFFICES ASSUME NEW i \in 1..(n - 1), NEW j \in 1..(n - 1),
                        providers'[i].id = providers'[j].id
                 PROVE  i = j
      BY <2>1 DEF IdsDiffer
    <3> PICK x \in 1..n : x = IF i < k THEN i ELSE i + 1
      OBVIOUS
    <3> PICK y \in 1..n : y = IF j < k THEN j ELSE j + 1
      OBVIOUS
    <3>1. providers'[i] = providers[x] /\ providers'[j] = providers[y]
      BY <2>1
    <3>2. x = y
      BY <3>1 DEF IdsDiffer
    <3> QED  BY <3>2
  <2> QED  BY <2>1, <2>2
<1> QED  BY <1>1, <1>2, <1>3 DEF RegistrationNext

\* A new provider has a new id.
LEMMA RegisterKeeps ==
    ASSUME RegistryInv, ~Overtaking, NEW p \in Provider, RegisterProvider(p)
    PROVE  RegistryInv'
<1>1. /\ Changeable /\ providers' = Append(providers, p) /\ providers \in Seq(Provider)
      /\ UNCHANGED <<certified, alive, held, gateway>>
  BY DEF RegisterProvider, RegistryInv, RegistryTypes
<1>3. /\ providers' \in Seq(Provider) /\ Len(providers') = Len(providers) + 1
      /\ \A i \in 1..Len(providers) : providers'[i] = providers[i]
      /\ providers'[Len(providers) + 1] = p
  BY <1>1
<1>4. IdsDiffer'
  BY <1>1, RegistrationKeepsIds DEF RegistrationNext, RegistryInv
<1>5. CertifiedKeep'
  <2>1. \A q : IsRegistered(q) => IsRegistered(q)'
    BY <1>1, <1>3 DEF IsRegistered
  <2> QED  BY <1>1, <2>1 DEF RegistryInv, CertifiedKeep
<1> QED  BY <1>1, <1>3, <1>4, <1>5, RegistrationMoves

\* A replacement takes the place and the id of the old provider, and its
\* certification is dropped.
LEMMA ReplaceKeeps ==
    ASSUME RegistryInv, ~Overtaking, NEW p \in Provider, ReplaceProvider(p)
    PROVE  RegistryInv'
<1>1. /\ Changeable /\ providers \in Seq(Provider)
      /\ providers' = [k \in 1..Len(providers) |->
                          IF providers[k].id = p.id THEN p ELSE providers[k]]
      /\ certified' = {q \in certified : q.id # p.id}
      /\ UNCHANGED <<alive, held, gateway>>
  BY DEF ReplaceProvider, RegistryInv, RegistryTypes
<1>2. providers' \in Seq(Provider) /\ Len(providers') = Len(providers)
  BY <1>1
<1>3. \A i \in 1..Len(providers) :
         /\ providers'[i].id = providers[i].id
         /\ providers[i].id # p.id => providers'[i] = providers[i]
  BY <1>1
<1>4. IdsDiffer'
  BY <1>1, RegistrationKeepsIds DEF RegistrationNext, RegistryInv
<1>5. CertifiedKeep'
  <2>1. \A q : IsRegistered(q) /\ q.id # p.id => IsRegistered(q)'
    BY <1>2, <1>3 DEF IsRegistered
  <2> QED  BY <1>1, <2>1 DEF RegistryInv, CertifiedKeep
<1> QED  BY <1>1, <1>2, <1>4, <1>5, RegistrationMoves

\* A provider that goes takes its certification with it; the others move up.
LEMMA UnregisterKeeps ==
    ASSUME RegistryInv, ~Overtaking, NEW id, UnregisterProvider(id)
    PROVE  RegistryInv'
<1>0. providers \in Seq(Provider) /\ id \in Registration
  BY DEF RegistryInv, RegistryTypes, UnregisterProvider
<1>1. /\ Changeable /\ certified' = {q \in certified : q.id # id}
      /\ UNCHANGED <<alive, held, gateway>>
  BY DEF UnregisterProvider
<1> PICK n \in Nat : n = Len(providers)
  BY <1>0
<1>4. PICK k \in 1..n :
         /\ providers[k].id = id
         /\ providers' \in Seq(Provider) /\ Len(providers') = n - 1
         /\ \A i \in 1..(n - 1) :
               providers'[i] = IF i < k THEN providers[i] ELSE providers[i + 1]
  BY <1>0, UnregisterLeaves
<1>5. IdsDiffer'
  BY <1>0, RegistrationKeepsIds DEF RegistrationNext, RegistryInv
<1>6. CertifiedKeep'
  <2> SUFFICES ASSUME NEW q \in certified, q.id # id
               PROVE  q.keeps /\ IsRegistered(q)'
    BY <1>1 DEF CertifiedKeep
  <2>1. PICK i \in 1..n : providers[i] = q /\ i # k
    BY <1>1, <1>4 DEF RegistryInv, CertifiedKeep, IsRegistered
  <2> PICK j \in 1..(n - 1) : j = IF i < k THEN i ELSE i - 1
    BY <2>1
  <2>2. providers'[j] = q
    BY <1>4, <2>1
  <2> QED  BY <1>4, <2>2 DEF IsRegistered, RegistryInv, CertifiedKeep
<1> QED  BY <1>1, <1>4, <1>5, <1>6, RegistrationMoves

\* What a caller does with the answer: it keeps one slot and releases the
\* other, or its whole trajectory.
LEMMA SettleKeeps ==
    ASSUME RegistryInv, NEW c \in Caller, NEW keep \in 0..MaxSlots, Settle(c, keep)
    PROVE  RegistryInv'
<1> PICK o, n : o = gateway[c].old /\ n = gateway[c].new
  OBVIOUS
<1> PICK rest : rest = NoGatewayCall
  OBVIOUS
<1>1. /\ gateway[c].step = "returned" /\ keep \in {o, n}
      /\ held' = [held EXCEPT ![c] = keep] /\ UNCHANGED <<providers, certified>>
      /\ gateway' = [gateway EXCEPT ![c] = rest]
      /\ Released({o, n} \ {keep}, gateway[c].grant)
  BY DEF Settle, GatewayCalls
<1>2. rest.step = "idle"
  BY DEF NoGatewayCall
<1>3. {o, n} \ {0} \subseteq SlotsOf(c)
  BY <1>1 DEF SlotsOf, Answered
<1>4. keep \in Nat
  BY RegistryAssumption
<1> QED  BY <1>1, <1>2, <1>3, <1>4, ReleaseKeeps

\* The whole trajectory: the caller refers to no slot any more.
LEMMA ReleaseStateKeeps ==
    ASSUME RegistryInv, NEW c \in Caller, NEW g, ReleaseState(c, g)
    PROVE  RegistryInv'
<1>1. /\ gateway[c].step = "idle" /\ held[c] # 0
      /\ held' = [held EXCEPT ![c] = 0] /\ UNCHANGED <<providers, certified>>
      /\ gateway' = gateway /\ Released({held[c]}, g)
  BY DEF ReleaseState
<1> PICK rest : rest = gateway[c]
  OBVIOUS
<1>2. gateway' = [gateway EXCEPT ![c] = rest]
  BY <1>1 DEF RegistryInv, RegistryTypes
<1>3. {held[c]} \ {0} \subseteq SlotsOf(c)
  BY DEF SlotsOf
<1>4. 0 \in Nat /\ 0 \in SlotsOf(c) \cup {0}
  OBVIOUS
<1>5. rest.step = "idle"
  BY <1>1
<1> QED  BY <1>1, <1>2, <1>3, <1>4, <1>5, ReleaseKeeps

\* Evaluations and transitions that raise leave slots and registry alone.
LEMMA EvaluationKeeps ==
    ASSUME RegistryInv, NEW c \in Caller,
           \/ Evaluate(c) \/ TransitionRaises(c)
           \/ \E r \in Requests, g \in Grants : BindEvaluation(c, r, g)
    PROVE  RegistryInv'
<1>1. PICK g : /\ g.step \in {"idle", "evaluating"} /\ GatewayCalls(c, g)
               /\ UNCHANGED <<providers, certified, alive, held>>
  <2>1. CASE Evaluate(c) \/ TransitionRaises(c)
    <3>1. NoGatewayCall.step \in {"idle", "evaluating"}
      BY DEF NoGatewayCall
    <3> QED  BY <2>1, <3>1 DEF Evaluate, TransitionRaises
  <2>2. CASE \E r \in Requests, g \in Grants : BindEvaluation(c, r, g)
    <3> PICK r \in Requests, g \in Grants : BindEvaluation(c, r, g)
      BY <2>2
    <3>1. PICK b, d, m : GatewayCalls(c, [step |-> "evaluating", by |-> b, request |-> r,
                                          grant |-> g, device |-> d, among |-> m])
      BY Zenon DEF BindEvaluation
    <3>2. [step |-> "evaluating", by |-> b, request |-> r, grant |-> g, device |-> d,
           among |-> m].step \in {"idle", "evaluating"}
      OBVIOUS
    <3>3. UNCHANGED <<providers, certified, alive, held>>
      BY DEF BindEvaluation
    <3> QED  BY <3>1, <3>2, <3>3
  <2> QED  BY <2>1, <2>2
<1> QED  BY <1>1, CallerRests

\* Every step keeps the registry sound.
LEMMA RegistryStep ==
    ASSUME RegistryInv, ~Overtaking, [RegistryNext]_registryVars
    PROVE  RegistryInv'
<1>1. CASE RegistrationNext
  BY <1>1, RegisterKeeps, ReplaceKeeps, UnregisterKeeps DEF RegistrationNext
<1>2. CASE EvaluationNext
  BY <1>2, EvaluationKeeps DEF EvaluationNext
<1>3. CASE TransitionNext
  <2> PICK c \in Caller :
        \/ \E g \in Grants : BindTransition(c, g) \/ ReleaseState(c, g)
        \/ \E status \in {"applied", "skipped"}, new \in 1..MaxSlots :
               Transition(c, status, new)
        \/ \E keep \in 0..MaxSlots : Settle(c, keep)
        \/ TransitionRaises(c) \/ LookUpCertification(c)
        \/ VerifyPredecessor(c) \/ RecordCertification(c)
    BY <1>3 DEF TransitionNext
  <2>1. CASE \E g \in Grants : BindTransition(c, g) \/ ReleaseState(c, g)
    BY <2>1, BindKeeps, ReleaseStateKeeps
  <2>2. CASE \E status \in {"applied", "skipped"}, new \in 1..MaxSlots :
               Transition(c, status, new)
    BY <2>2, TransitionKeeps
  <2>3. CASE \E keep \in 0..MaxSlots : Settle(c, keep)
    BY <2>3, SettleKeeps
  <2>4. CASE TransitionRaises(c)
    BY <2>4, EvaluationKeeps
  <2>5. CASE LookUpCertification(c) \/ VerifyPredecessor(c) \/ RecordCertification(c)
    BY <2>5, LookUpKeeps, VerifyKeeps, RecordKeeps
  <2> QED  BY <2>1, <2>2, <2>3, <2>4, <2>5
<1>4. CASE UNCHANGED registryVars
  <2>1. UNCHANGED <<providers, certified, alive, held, gateway>>
    BY <1>4 DEF registryVars
  <2>2. RegistryTypes' /\ IdsDiffer' /\ CertifiedKeep' /\ SlotsApart'
    BY <2>1
       DEF RegistryInv, RegistryTypes, IdsDiffer, CertifiedKeep, SlotsApart, SlotsOf, IsRegistered
  <2>3. \A c \in Caller : CallSound(c)'
    BY <2>1, CallStays DEF RegistryInv
  <2> QED  BY <2>2, <2>3 DEF RegistryInv
<1> QED  BY <1>1, <1>2, <1>3, <1>4 DEF RegistryNext

\* For any providers, callers, requests, grants and slots: a caller that was
\* given an applied transition can go back, as long as providers are not
\* replaced while a transition is under way. With Overtaking the certification
\* may be recorded for another provider than the one that was verified.
THEOREM CallerCanGoBackThm ==
    ASSUME ~Overtaking
    PROVE  RegistrySpec => []CallerCanGoBack
<1>1. RegistryInit => RegistryInv
  <2> SUFFICES ASSUME RegistryInit
               PROVE  RegistryInv
    OBVIOUS
  <2>1. /\ providers = <<>> /\ certified = {} /\ alive = [p \in Provider |-> {}]
        /\ held = [c \in Caller |-> 0] /\ gateway = [c \in Caller |-> NoGatewayCall]
    BY DEF RegistryInit
  <2>2. \A c \in Caller : gateway[c].step = "idle" /\ held[c] = 0
    BY <2>1 DEF NoGatewayCall
  <2>3. RegistryTypes
    BY <2>1 DEF RegistryTypes
  <2>4. IdsDiffer /\ CertifiedKeep
    BY <2>1 DEF IdsDiffer, CertifiedKeep
  <2>5. SlotsApart
    BY <2>2 DEF SlotsApart, SlotsOf, Answered
  <2>6. \A c \in Caller : CallSound(c)
    BY <2>2 DEF CallSound, Answered
  <2> QED  BY <2>3, <2>4, <2>5, <2>6 DEF RegistryInv
<1>2. RegistryInv /\ [RegistryNext]_registryVars => RegistryInv'
  BY RegistryStep
<1>3. RegistryInv => CallerCanGoBack
  BY DEF RegistryInv, CallSound, CallerCanGoBack
<1> QED  BY <1>1, <1>2, <1>3, PTL DEF RegistrySpec

-----------------------------------------------------------------------------
(* The choice of a provider. Among the providers a call saw there is one   *)
(* candidate that no other outranks: scores end with the provider's id.    *)

Candidates(among, r, g) == {p \in among : Bindable(p, r, g)}

\* What a call of the gateway is bound to: a candidate that no other one
\* outranks, on the device selected for it.
ChoiceSound(its) ==
    /\ its.by \in Candidates(its.among, its.request, its.grant)
    /\ \A p \in Candidates(its.among, its.request, its.grant) :
          ~Outranks(Score(p, its.request, its.grant), Score(its.by, its.request, its.grant))
    /\ its.device = SelectDevice(its.by, its.grant)[1]
    /\ its.among \subseteq Provider
    /\ \A p, q \in its.among : p.id = q.id => p = q

ChoiceInv ==
    /\ providers \in Seq(Provider) /\ IdsDiffer
    /\ gateway = [c \in Caller |-> gateway[c]]
    /\ \A c \in Caller :
          /\ "step" \in DOMAIN gateway[c]
          /\ gateway[c].step = "evaluating" => ChoiceSound(gateway[c])

\* The place of a device among a provider's preferences is a number.
LEMMA PreferenceIsInt ==
    ASSUME NEW p \in Provider, NEW d
    PROVE  PreferenceScore(p, d) \in Int
<1> DEFINE I == {i \in 1..Len(p.prefers) : DeviceFamily(p.prefers[i]) = DeviceFamily(d)}
<1>1. Len(p.prefers) \in Nat
  BY ProviderAssumption
<1>2. ASSUME I # {}
      PROVE  Min(I) \in Int
  <2>1. IsFiniteSet(1..Len(p.prefers))
    BY <1>1, FS_Interval
  <2>2. I \subseteq 1..Len(p.prefers)
    OBVIOUS
  <2>3. \A i \in 1..Len(p.prefers) : i \in Int
    BY <1>1
  <2> HIDE DEF I
  <2>4. IsFiniteSet(I) /\ I \subseteq Int
    BY <2>1, <2>2, <2>3, FS_Subset
  <2>5. PICK m \in I : \A x \in I : m <= x
    BY <1>2, <2>4, SmallestExists
  <2>6. Min(I) \in I
    BY <2>5 DEF Min
  <2> QED  BY <2>4, <2>6
<1>3. PreferenceScore(p, d) = IF (IF I # {} THEN Min(I) ELSE 0) = 0 THEN 0
                             ELSE Len(p.prefers) - (IF I # {} THEN Min(I) ELSE 0) + 1
  BY Zenon DEF PreferenceScore, SelectInSeq
<1> HIDE DEF I
<1> QED  BY <1>1, <1>2, <1>3

\* Two scores neither of which outranks the other are of providers with one
\* id: every place of a score is a number, and the last one is the id.
LEMMA TiesShareId ==
    ASSUME NEW p \in Provider, NEW q \in Provider, NEW r, NEW g,
           ~Outranks(Score(p, r, g), Score(q, r, g)),
           ~Outranks(Score(q, r, g), Score(p, r, g))
    PROVE  p.id = q.id
<1> PICK s : s = Score(p, r, g)
  OBVIOUS
<1> PICK t : t = Score(q, r, g)
  OBVIOUS
<1>1. ASSUME NEW x \in Provider
      PROVE  /\ Len(Score(x, r, g)) = 5 /\ \A k \in 1..5 : Score(x, r, g)[k] \in Int
             /\ Score(x, r, g)[5] = -x.id
  <2> PICK a \in Int : a = x.priority
    BY ProviderAssumption
  <2> PICK b \in Int : b = Cardinality(r.preferred \cap x.capabilities)
    <3>1. r.preferred \cap x.capabilities \in SUBSET x.capabilities /\ IsFiniteSet(x.capabilities)
      BY ProviderAssumption
    <3>2. Cardinality(r.preferred \cap x.capabilities) \in Nat
      BY <3>1, FS_Subset, FS_CardinalityType
    <3> QED  BY <3>2
  <2> PICK e \in Int : e = PreferenceScore(x, SelectDevice(x, g)[1])
    BY PreferenceIsInt
  <2> PICK f \in Int : f = IF PhysicalDevice(SelectDevice(x, g)[1]) THEN 1 ELSE 0
    OBVIOUS
  <2> PICK i \in Int : i = -x.id
    BY ProviderAssumption
  <2>1. Score(x, r, g) = <<a, b, e, f, i>>
    BY Zenon DEF Score
  <2>2. /\ Len(<<a, b, e, f, i>>) = 5 /\ <<a, b, e, f, i>>[5] = i
        /\ \A k \in 1..5 : <<a, b, e, f, i>>[k] \in Int
    OBVIOUS
  <2> QED  BY <2>1, <2>2
<1>2. /\ Len(s) = 5 /\ Len(t) = 5 /\ s[5] = -p.id /\ t[5] = -q.id
      /\ \A k \in 1..5 : s[k] \in Int /\ t[k] \in Int
  BY <1>1
<1>3. ASSUME NEW k \in 1..5, \A j \in 1..(k - 1) : s[j] = t[j]
      PROVE  s[k] = t[k]
  <2>1. \A j \in 1..(k - 1) : t[j] = s[j]
    BY <1>3
  <2>2. ~(s[k] > t[k])
    BY <1>2, <1>3 DEF Outranks
  <2>3. ~(t[k] > s[k])
    BY <1>2, <2>1 DEF Outranks
  <2> QED  BY <1>2, <2>2, <2>3
<1>4. s[1] = t[1]
  BY <1>3
<1>5. s[2] = t[2]
  BY <1>3, <1>4
<1>6. s[3] = t[3]
  BY <1>3, <1>4, <1>5
<1>7. s[4] = t[4]
  BY <1>3, <1>4, <1>5, <1>6
<1>8. s[5] = t[5]
  BY <1>3, <1>4, <1>5, <1>6, <1>7
<1>9. p.id \in Int /\ q.id \in Int
  BY ProviderAssumption
<1> QED  BY <1>2, <1>8, <1>9

\* Two calls about one request, grant and set of providers are bound to one.
LEMMA ChoiceIsOne ==
    ASSUME NEW u, NEW v, ChoiceSound(u), ChoiceSound(v), u.request = v.request,
           u.grant = v.grant, u.among = v.among
    PROVE  u.by = v.by /\ u.device = v.device
<1> PICK r, g, m : r = u.request /\ g = u.grant /\ m = u.among
  OBVIOUS
<1> PICK p, q : p = u.by /\ q = v.by
  OBVIOUS
<1>1. p \in m /\ q \in m /\ m \subseteq Provider
  BY DEF ChoiceSound, Candidates
<1>2. /\ ~Outranks(Score(p, r, g), Score(q, r, g))
      /\ ~Outranks(Score(q, r, g), Score(p, r, g))
  BY Zenon DEF ChoiceSound
<1>3. p.id = q.id
  BY <1>1, <1>2, TiesShareId
<1>4. p = q
  BY <1>1, <1>3 DEF ChoiceSound
<1> QED  BY <1>4 DEF ChoiceSound

\* An evaluation is bound to the first unoutranked candidate.
LEMMA BindChoice ==
    ASSUME ChoiceInv, NEW c \in Caller, NEW r, NEW g, BindEvaluation(c, r, g)
    PROVE  ChoiceInv'
<1> PICK m : m = ToSet(providers)
  OBVIOUS
<1>0. DOMAIN providers = 1..Len(providers) /\ providers \in Seq(Provider)
  BY DEF ChoiceInv
<1>1. PICK k \in 1..Len(providers) :
         /\ providers[k] \in Candidates(m, r, g)
         /\ \A p \in Candidates(m, r, g) : ~Outranks(Score(p, r, g), Score(providers[k], r, g))
         /\ GatewayCalls(c, [step |-> "evaluating", by |-> providers[k], request |-> r,
                             grant |-> g, device |-> SelectDevice(providers[k], g)[1],
                             among |-> m])
  BY <1>0, Zenon DEF BindEvaluation, Candidates
<1> PICK its : its = [step |-> "evaluating", by |-> providers[k], request |-> r,
                      grant |-> g, device |-> SelectDevice(providers[k], g)[1], among |-> m]
  OBVIOUS
<1>2. /\ its.by = providers[k] /\ its.request = r /\ its.grant = g /\ its.among = m
      /\ its.device = SelectDevice(its.by, g)[1]
  OBVIOUS
<1>3. m \subseteq Provider /\ \A p, q \in m : p.id = q.id => p = q
  <2>1. \A p \in m : \E i \in 1..Len(providers) : providers[i] = p
    BY <1>0 DEF ToSet
  <2> QED  BY <1>0, <2>1 DEF ChoiceInv, IdsDiffer
<1>4. ChoiceSound(its)
  BY <1>1, <1>2, <1>3, Zenon DEF ChoiceSound
<1>5. gateway' = [gateway EXCEPT ![c] = its] /\ UNCHANGED providers
  BY <1>1 DEF GatewayCalls, BindEvaluation
<1> HIDE DEF ChoiceSound
<1> QED  BY <1>4, <1>5 DEF ChoiceInv, IdsDiffer

\* Every step keeps the choices sound; what was chosen is not looked at again.
LEMMA ChoiceStep ==
    ASSUME ChoiceInv, [RegistryNext]_registryVars
    PROVE  ChoiceInv'
<1>1. ASSUME RegistrationNext
      PROVE  ChoiceInv'
  <2>1. gateway' = gateway
    BY <1>1 DEF RegistrationNext, RegisterProvider, ReplaceProvider, UnregisterProvider
  <2>2. providers' \in Seq(Provider) /\ IdsDiffer'
    BY <1>1, RegistrationKeepsIds DEF ChoiceInv
  <2> HIDE DEF ChoiceSound
  <2> QED  BY <2>1, <2>2 DEF ChoiceInv
<1>2. ASSUME NEW c \in Caller, NEW its, "step" \in DOMAIN its, its.step # "evaluating",
             GatewayCalls(c, its), UNCHANGED providers
      PROVE  ChoiceInv'
  <2>1. gateway' = [gateway EXCEPT ![c] = its]
    BY <1>2 DEF GatewayCalls
  <2> QED  BY <1>2, <2>1 DEF ChoiceInv, IdsDiffer
<1>3. CASE EvaluationNext
  <2> PICK c \in Caller :
         Evaluate(c) \/ \E r \in Requests, g \in Grants : BindEvaluation(c, r, g)
    BY <1>3 DEF EvaluationNext
  <2>1. NoGatewayCall.step # "evaluating" /\ "step" \in DOMAIN NoGatewayCall
    BY DEF NoGatewayCall
  <2>2. Evaluate(c) => ChoiceInv'
    BY <1>2, <2>1 DEF Evaluate
  <2> QED  BY <2>2, BindChoice
<1>4. CASE TransitionNext
  <2> PICK c \in Caller :
        \/ \E g \in Grants : BindTransition(c, g) \/ ReleaseState(c, g)
        \/ \E status \in {"applied", "skipped"}, new \in 1..MaxSlots :
               Transition(c, status, new)
        \/ \E keep \in 0..MaxSlots : Settle(c, keep)
        \/ TransitionRaises(c) \/ LookUpCertification(c)
        \/ VerifyPredecessor(c) \/ RecordCertification(c)
    BY <1>4 DEF TransitionNext
  <2>0. NoGatewayCall.step # "evaluating" /\ "step" \in DOMAIN NoGatewayCall
    BY DEF NoGatewayCall
  <2>1. ASSUME NEW g, BindTransition(c, g)
        PROVE  ChoiceInv'
    <3> PICK its : its = [step |-> "bound", by |-> Owner, grant |-> g]
      OBVIOUS
    <3>1. /\ its.step # "evaluating" /\ "step" \in DOMAIN its
          /\ GatewayCalls(c, its) /\ UNCHANGED providers
      BY <2>1 DEF BindTransition
    <3> QED  BY <1>2, <3>1
  <2>2. ASSUME NEW g, ReleaseState(c, g)
        PROVE  ChoiceInv'
    BY <2>2 DEF ReleaseState, ChoiceInv, IdsDiffer
  <2>3. ASSUME NEW status, NEW new, Transition(c, status, new)
        PROVE  ChoiceInv'
    <3>1. CASE ~ValidSuccessor(held[c], status, new)
      BY <1>2, <2>0, <2>3, <3>1 DEF Transition
    <3>2. CASE ValidSuccessor(held[c], status, new)
      <4> PICK its : its = [step |-> IF status = "applied" /\ held[c] # 0 THEN "applied"
                                     ELSE "returned",
                            by |-> gateway[c].by, grant |-> gateway[c].grant,
                            old |-> held[c], new |-> new]
        OBVIOUS
      <4>1. /\ its.step # "evaluating" /\ "step" \in DOMAIN its
            /\ GatewayCalls(c, its) /\ UNCHANGED providers
        BY <2>3, <3>2 DEF Transition
      <4> QED  BY <1>2, <4>1
    <3> QED  BY <3>1, <3>2
  <2>4. ASSUME NEW keep, Settle(c, keep)
        PROVE  ChoiceInv'
    <3>1. GatewayCalls(c, NoGatewayCall) /\ UNCHANGED providers
      BY <2>4, Zenon DEF Settle
    <3> QED  BY <1>2, <2>0, <3>1
  <2>5. CASE TransitionRaises(c)
    BY <1>2, <2>0, <2>5 DEF TransitionRaises
  <2>6. ASSUME NEW step \in {"verify", "returned", "record"},
               UNCHANGED providers, GatewayCalls(c, [gateway[c] EXCEPT !.step = step])
        PROVE  ChoiceInv'
    <3> PICK its : its = [gateway[c] EXCEPT !.step = step]
      OBVIOUS
    <3> PICK old : old = gateway[c]
      OBVIOUS
    <3>0. "step" \in DOMAIN old /\ its = [old EXCEPT !.step = step]
      BY DEF ChoiceInv
    <3>1. its.step = step /\ "step" \in DOMAIN its
      BY <3>0
    <3>2. its.step # "evaluating"
      BY <3>1
    <3>3. GatewayCalls(c, its) /\ UNCHANGED providers
      BY <2>6
    <3> QED  BY <1>2, <3>1, <3>2, <3>3
  <2>7. CASE LookUpCertification(c)
    BY <2>6, <2>7 DEF LookUpCertification
  <2>8. CASE VerifyPredecessor(c)
    <3>1. CASE ~Materializes(gateway[c].old, gateway[c].grant)
      BY <1>2, <2>0, <2>8, <3>1 DEF VerifyPredecessor
    <3>2. CASE Materializes(gateway[c].old, gateway[c].grant)
      BY <2>6, <2>8, <3>2 DEF VerifyPredecessor
    <3> QED  BY <3>1, <3>2
  <2>9. CASE RecordCertification(c)
    BY <2>6, <2>9 DEF RecordCertification
  <2> QED  BY <2>1, <2>2, <2>3, <2>4, <2>5, <2>7, <2>8, <2>9
<1>5. CASE UNCHANGED registryVars
  BY <1>5 DEF registryVars, ChoiceInv, IdsDiffer
<1> QED  BY <1>1, <1>3, <1>4, <1>5 DEF RegistryNext

\* For any providers, requests and grants, also while providers are replaced:
\* what a call is bound to depends on what it asked for and on the registered
\* providers, never on the order of their registration.
THEOREM ChoiceIgnoresHistoryThm == RegistrySpec => []ChoiceIgnoresHistory
<1>1. RegistryInit => ChoiceInv
  <2> SUFFICES ASSUME RegistryInit PROVE ChoiceInv
    OBVIOUS
  <2>1. providers = <<>> /\ gateway = [c \in Caller |-> NoGatewayCall]
    BY DEF RegistryInit
  <2>2. NoGatewayCall.step # "evaluating" /\ "step" \in DOMAIN NoGatewayCall
    BY DEF NoGatewayCall
  <2> QED  BY <2>1, <2>2 DEF ChoiceInv, IdsDiffer
<1>2. ChoiceInv /\ [RegistryNext]_registryVars => ChoiceInv'
  BY ChoiceStep
<1>3. ChoiceInv => ChoiceIgnoresHistory
  <2> SUFFICES ASSUME ChoiceInv, NEW c \in Caller, NEW d \in Caller,
                      gateway[c].step = "evaluating", gateway[d].step = "evaluating",
                      gateway[c].request = gateway[d].request,
                      gateway[c].grant = gateway[d].grant,
                      gateway[c].among = gateway[d].among
               PROVE  gateway[c].by = gateway[d].by /\ gateway[c].device = gateway[d].device
    BY DEF ChoiceIgnoresHistory
  <2>1. ChoiceSound(gateway[c]) /\ ChoiceSound(gateway[d])
    BY DEF ChoiceInv
  <2> QED  BY <2>1, ChoiceIsOne
<1> QED  BY <1>1, <1>2, <1>3, PTL DEF RegistrySpec
=============================================================================
