---------------------------- MODULE SnapshotStore ----------------------------
(***************************************************************************)
(* InMemorySnapshotStore and RedisSnapshotStore: revisions, expiry and     *)
(* pins of one snapshot key, shared by clients that write, delete, pin and *)
(* unpin it. The in-memory store holds a lock over every method; a method  *)
(* of the Redis store is a sequence of commands and other clients' come in *)
(* between. The payload travels with its revision in one value and stays   *)
(* out; so does a Redis read, which changes nothing.                       *)
(***************************************************************************)
EXTENDS Integers

CONSTANTS
    SnapshotClient,        \* users of the key, each pinning under its own name
    MaxRevision    \* bound: revisions of one life of the key

ASSUME SnapshotAssumption == MaxRevision \in Nat

VARIABLES
    engine,     \* the store in use, "memory" or "redis"
    overlap,    \* do calls of different clients overlap? (the lock forbids it in memory)
    value,      \* the stored snapshot: revision, expires_at, and when the store drops it
    restore,    \* _pin_restore_expires_at
    owners,     \* _pins, or the set under the :pins key
    job,        \* [SnapshotClient -> the call it is in and what the call has read]
    keeps       \* clients whose pin() returned and who have not called unpin()

snapshotVars == <<engine, overlap, value, restore, owners, job, keeps>>

\* A time is "none", "later" or "past".
NoValue == [rev |-> 0, expires |-> "none", drop |-> "none"]
NoJob == [at |-> "idle", kind |-> "plain", expected |-> 0, ttl |-> FALSE,
          seen |-> NoValue, pinned |-> FALSE]

SnapshotInit ==
    /\ engine \in {"memory", "redis"}
    /\ overlap \in BOOLEAN
    /\ engine = "memory" => ~overlap
    /\ value = NoValue /\ restore = "none" /\ owners = {}
    /\ job = [c \in SnapshotClient |-> NoJob]
    /\ keeps = {}

Later(t) == IF t = "later" THEN "past" ELSE t

\* Everything due later is due now; Redis drops the key by itself.
TimePasses ==
    /\ "later" \in {value.expires, value.drop, restore}
    /\ value' = IF engine = "redis" /\ value.drop = "later" THEN NoValue
                ELSE [value EXCEPT !.expires = Later(@), !.drop = Later(@)]
    /\ restore' = Later(restore)
    /\ job' = [c \in SnapshotClient |-> [job[c] EXCEPT !.seen.expires = Later(@)]]
    /\ UNCHANGED <<engine, overlap, owners, keeps>>

\* write(): what write_once and expected_revision refuse.
Refused(kind, expected, rev) ==
    \/ kind = "once" /\ rev # 0
    \/ kind = "cas" /\ rev # expected

\* Mutant: a pinned snapshot gets a TTL like any other.
NextRevisionExpiring(rev, ttl, pinned) ==
    LET until == IF ttl THEN "later" ELSE "none"
    IN  [rev |-> rev + 1, expires |-> until, drop |-> until]

\* The record of the next revision: a TTL only counts while nobody pins the key.
NextRevision(rev, ttl, pinned) ==
    LET until == IF ttl /\ ~pinned THEN "later" ELSE "none"
    IN  [rev |-> rev + 1, expires |-> until, drop |-> until]

-----------------------------------------------------------------------------
(* InMemorySnapshotStore.                                                  *)

\* _sweep_expired
Swept ==
    IF value.drop # "past" THEN value
    ELSE IF owners # {} THEN [value EXCEPT !.drop = "none"] ELSE NoValue

MemoryWrite(kind, expected, ttl) ==
    /\ engine = "memory" /\ Swept.rev < MaxRevision
    /\ value' = IF Refused(kind, expected, Swept.rev) THEN Swept
                ELSE NextRevision(Swept.rev, ttl, owners # {})
    /\ UNCHANGED <<engine, overlap, restore, owners, job, keeps>>

MemoryRead ==
    /\ engine = "memory"
    /\ value' = Swept
    /\ UNCHANGED <<engine, overlap, restore, owners, job, keeps>>

MemoryDelete ==
    /\ engine = "memory" /\ owners = {}
    /\ value' = NoValue /\ restore' = "none"
    /\ UNCHANGED <<engine, overlap, owners, job, keeps>>

MemoryPin(c) ==
    /\ engine = "memory" /\ value.rev # 0
    /\ restore' = IF owners = {} THEN value.expires ELSE restore
    /\ owners' = owners \cup {c}
    /\ value' = [value EXCEPT !.expires = "none", !.drop = "none"]
    /\ keeps' = keeps \cup {c}
    /\ UNCHANGED <<engine, overlap, job>>

\* The last owner brings back the expiry the key had when it was first pinned.
MemoryUnpin(c) ==
    /\ engine = "memory" /\ c \in keeps /\ value.rev # 0
    /\ owners' = owners \ {c}
    /\ keeps' = keeps \ {c}
    /\ IF owners' # {} THEN UNCHANGED <<value, restore>>
       ELSE /\ value' = [value EXCEPT !.expires = restore,
                                      !.drop = IF restore = "none" THEN @ ELSE restore]
            /\ restore' = "none"
    /\ UNCHANGED <<engine, overlap, job>>

-----------------------------------------------------------------------------
(* RedisSnapshotStore: one action per command.                             *)

\* A call begins: its first command.
Calls(c) ==
    /\ engine = "redis" /\ job[c].at = "idle"
    /\ overlap \/ \A d \in SnapshotClient : job[d].at \in {"idle", "dead"}

At(c, where) == engine = "redis" /\ job[c].at = where

Proceed(c, where) == job' = [job EXCEPT ![c].at = where]
Return(c) == job' = [job EXCEPT ![c] = NoJob]

\* write: get the current value and check against it.
WriteLook(c, kind, expected, ttl) ==
    /\ Calls(c) /\ value.rev < MaxRevision
    /\ ~Refused(kind, expected, value.rev)
    /\ job' = [job EXCEPT ![c] = [at |-> "count", kind |-> kind, expected |-> expected,
                                  ttl |-> ttl, seen |-> value, pinned |-> FALSE]]
    /\ UNCHANGED <<engine, overlap, value, restore, owners, keeps>>

\* write: is anybody pinning?
WriteCount(c) ==
    /\ At(c, "count")
    /\ job' = [job EXCEPT ![c].at = "store", ![c].pinned = owners # {}]
    /\ UNCHANGED <<engine, overlap, value, restore, owners, keeps>>

\* Mutant: the value is set without watching the key.
WriteStoreBlind(c) ==
    /\ At(c, "store")
    /\ value' = NextRevision(job[c].seen.rev, job[c].ttl, job[c].pinned)
    /\ Return(c)
    /\ UNCHANGED <<engine, overlap, restore, owners, keeps>>

\* write: SET NX, a watched transaction that looks at the revision again, or
\* a plain SET. The first two answer a competitor's write with an error.
WriteStore(c) ==
    /\ At(c, "store")
    /\ value' = IF Refused(job[c].kind, job[c].expected, value.rev) THEN value
                ELSE NextRevision(job[c].seen.rev, job[c].ttl, job[c].pinned)
    /\ Return(c)
    /\ UNCHANGED <<engine, overlap, restore, owners, keeps>>

DeleteLook(c) ==
    /\ Calls(c) /\ owners = {}
    /\ Proceed(c, "delete")
    /\ UNCHANGED <<engine, overlap, value, restore, owners, keeps>>

DeleteKey(c) ==
    /\ At(c, "delete")
    /\ value' = NoValue
    /\ Return(c)
    /\ UNCHANGED <<engine, overlap, restore, owners, keeps>>

PinLook(c) ==
    /\ Calls(c) /\ value.rev # 0
    /\ Proceed(c, "add")
    /\ UNCHANGED <<engine, overlap, value, restore, owners, keeps>>

PinAdd(c) ==
    /\ At(c, "add")
    /\ owners' = owners \cup {c}
    /\ Proceed(c, "persist")
    /\ UNCHANGED <<engine, overlap, value, restore, keeps>>

PinPersist(c) ==
    /\ At(c, "persist")
    /\ value' = [value EXCEPT !.drop = "none"]
    /\ Proceed(c, "pinned")
    /\ UNCHANGED <<engine, overlap, restore, owners, keeps>>

\* pin reads the record it returns; a key that is gone makes it raise, and
\* leaves the owner behind.
PinReturns(c) ==
    /\ At(c, "pinned")
    /\ keeps' = IF value.rev # 0 THEN keeps \cup {c} ELSE keeps
    /\ Return(c)
    /\ UNCHANGED <<engine, overlap, value, restore, owners>>

UnpinRemove(c) ==
    /\ Calls(c) /\ c \in keeps
    /\ owners' = owners \ {c}
    /\ keeps' = keeps \ {c}
    /\ Proceed(c, "unpinned")
    /\ UNCHANGED <<engine, overlap, value, restore>>

UnpinRead(c) ==
    /\ At(c, "unpinned")
    /\ job' = IF value.rev = 0 THEN [job EXCEPT ![c] = NoJob]
              ELSE [job EXCEPT ![c].at = "recount", ![c].seen = value]
    /\ UNCHANGED <<engine, overlap, value, restore, owners, keeps>>

UnpinCount(c) ==
    /\ At(c, "recount")
    /\ IF owners # {} \/ job[c].seen.expires = "none" THEN Return(c) ELSE Proceed(c, "expire")
    /\ UNCHANGED <<engine, overlap, value, restore, owners, keeps>>

\* The expiry the record carries is set again, or the overdue key deleted.
UnpinExpire(c) ==
    /\ At(c, "expire")
    /\ value' = IF job[c].seen.expires = "past" THEN NoValue
                ELSE IF value.rev = 0 THEN value ELSE [value EXCEPT !.drop = "later"]
    /\ Return(c)
    /\ UNCHANGED <<engine, overlap, restore, owners, keeps>>

\* The client's process dies in the middle of a call.
ClientDies(c) ==
    /\ engine = "redis" /\ job[c].at \notin {"idle", "dead"}
    /\ job' = [job EXCEPT ![c] = [NoJob EXCEPT !.at = "dead"]]
    /\ UNCHANGED <<engine, overlap, value, restore, owners, keeps>>

SnapshotNext ==
    \/ TimePasses
    \/ \E kind \in {"plain", "once", "cas"}, expected \in 0..MaxRevision, ttl \in BOOLEAN :
          \/ MemoryWrite(kind, expected, ttl)
          \/ \E c \in SnapshotClient : WriteLook(c, kind, expected, ttl)
    \/ MemoryRead \/ MemoryDelete
    \/ \E c \in SnapshotClient :
          \/ MemoryPin(c) \/ MemoryUnpin(c)
          \/ WriteCount(c) \/ WriteStore(c) \/ DeleteLook(c) \/ DeleteKey(c)
          \/ PinLook(c) \/ PinAdd(c) \/ PinPersist(c) \/ PinReturns(c)
          \/ UnpinRemove(c) \/ UnpinRead(c) \/ UnpinCount(c) \/ UnpinExpire(c)
          \/ ClientDies(c)

SnapshotSpec == SnapshotInit /\ [][SnapshotNext]_snapshotVars

-----------------------------------------------------------------------------
(* Properties *)

PinHolds == \A c \in keeps : value.rev # 0 /\ c \in owners

\* pin "prevents authority evidence from expiring or being deleted": from the
\* return of pin() to the call of unpin() the snapshot is there, through
\* writes with a TTL, the unpins of others, the passing of time and clients
\* that die half way, as long as Redis calls on one key do not overlap.
SnapshotPinned == overlap \/ PinHolds

\* A write with an expected revision replaces that revision and no other,
\* whatever other clients did since it looked: no update is lost unseen.
CasIsExact ==
    [][\A c \in SnapshotClient : At(c, "store") /\ job[c].kind = "cas" /\ value' # value =>
          \/ job'[c].at = "store"
          \/ value.rev = job[c].expected]_snapshotVars
=============================================================================
