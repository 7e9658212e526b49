--------------------------- MODULE ArtifactLedger ---------------------------
(***************************************************************************)
(* FilesystemArtifactPublicationLedger and ArtifactPublisher: how the      *)
(* attempts at one Case run reserve artifact names, write provisional      *)
(* bytes, seal a transaction with a create-only commit record, abort it,   *)
(* and clear away what a fenced-out attempt left behind.                   *)
(*                                                                         *)
(* The ledger is a directory: nothing makes two operations on it atomic,   *)
(* so one action is one file operation (with the lease check that directly *)
(* precedes it, unless the two may drift apart). An attempt has one        *)
(* transaction and is known by it. It may die at any moment.               *)
(***************************************************************************)
EXTENDS Integers, FiniteSets

CONSTANTS
    Attempt,    \* attempts at the Case run
    LeaseOf,    \* [Attempt -> lease number]; the lease authority counts up
    ArtifactName,
    Publishes,  \* [Attempt -> names it may publish]
    Overtake    \* may the lease end while its holder seals, scavenges or opens?

ASSUME LedgerAssumption ==
    /\ LeaseOf \in [Attempt -> Nat]
    /\ Publishes \in [Attempt -> SUBSET ArtifactName]
    /\ Overtake \in BOOLEAN

VARIABLES
    attempt,    \* [Attempt -> what it is doing]
    lease,      \* the lease that is current
    target,     \* [Attempt -> the name being published, as a set of at most one]
    staged,     \* [Attempt -> names whose ref the transaction holds]
    taken,      \* [Attempt -> names the transaction reserved]
    stale,      \* [Attempt -> transactions its scavenger still has to abort]
    erasing,    \* [Attempt -> the abort under way: transaction, names, refs]
    names,      \* [ArtifactName -> its reservation record]
    commits,    \* [Attempt -> names of its commit record; {} without one]
    sealed,     \* transactions with a commit record
    tombstones, \* aborted transactions
    bytes       \* provisional or published files, as <<transaction, name>>

ledgerVars == <<attempt, lease, target, staged, taken, stale, erasing, names, commits,
                sealed, tombstones, bytes>>

Free == [status |-> "free", tx |-> {}, attached |-> FALSE]
NoAbort == [tx |-> {}, names |-> {}, refs |-> {}]

LedgerInit ==
    /\ attempt = [a \in Attempt |-> "new"]
    /\ lease \in {LeaseOf[a] : a \in Attempt}
    /\ \A a \in Attempt : lease <= LeaseOf[a]
    /\ target = [a \in Attempt |-> {}]
    /\ staged = [a \in Attempt |-> {}]
    /\ taken = [a \in Attempt |-> {}]
    /\ stale = [a \in Attempt |-> {}]
    /\ erasing = [a \in Attempt |-> NoAbort]
    /\ names = [n \in ArtifactName |-> Free]
    /\ commits = [a \in Attempt |-> {}]
    /\ sealed = {} /\ tombstones = {} /\ bytes = {}

Goto(a, where) == attempt' = [attempt EXCEPT ![a] = where]

\* _build_fence_validator
Fence(a) == LeaseOf[a] = lease

\* The reservation record says: name n is held by transaction t.
HeldBy(n, t) == names[n].status = "reserved" /\ names[n].tx = {t}

-----------------------------------------------------------------------------
(* Opening a publisher scavenges first.                                    *)

\* Reserved names of transactions under another lease, grouped by transaction.
\* The publisher's own lease is not compared with the authority.
Open(a) ==
    /\ attempt[a] = "new" /\ LeaseOf[a] <= lease
    /\ Overtake \/ Fence(a)
    /\ stale' = [stale EXCEPT ![a] = {t \in Attempt : LeaseOf[t] # LeaseOf[a]
                                          /\ \E n \in ArtifactName : HeldBy(n, t)}]
    /\ Goto(a, "scavenge")
    /\ UNCHANGED <<lease, target, staged, taken, erasing, names, commits, sealed,
                   tombstones, bytes>>

\* A transaction with a commit record is skipped; the others are aborted with
\* the names and refs their records show.
Scavenge(a, t) ==
    LET held == {n \in ArtifactName : HeldBy(n, t)}
    IN  /\ attempt[a] = "scavenge" /\ t \in stale[a]
        /\ stale' = [stale EXCEPT ![a] = @ \ {t}]
        /\ \/ t \in sealed /\ UNCHANGED <<attempt, erasing>>
           \/ /\ t \notin sealed
              /\ erasing' = [erasing EXCEPT ![a] =
                    [tx |-> {t}, names |-> held,
                     refs |-> {n \in held : names[n].attached}]]
              /\ Goto(a, "scavenge_abort")
        /\ UNCHANGED <<lease, target, staged, taken, names, commits, sealed, tombstones,
                       bytes>>

ScavengeDone(a) ==
    /\ attempt[a] = "scavenge" /\ stale[a] = {}
    /\ Goto(a, "open")
    /\ UNCHANGED <<lease, target, staged, taken, stale, erasing, names, commits, sealed,
                   tombstones, bytes>>

-----------------------------------------------------------------------------
(* publish: reserve the name, write the bytes, attach them.                *)

\* Mutant: an existing reservation does not keep another transaction out.
ReserveAnyway(a, n) ==
    /\ attempt[a] = "open" /\ n \in Publishes[a] \ taken[a] /\ Fence(a)
    /\ names' = [names EXCEPT ![n] = [status |-> "reserved", tx |-> {a}, attached |-> FALSE]]
    /\ taken' = [taken EXCEPT ![a] = @ \cup {n}]
    /\ target' = [target EXCEPT ![a] = {n}]
    /\ Goto(a, "write")
    /\ UNCHANGED <<lease, staged, stale, erasing, commits, sealed, tombstones, bytes>>

\* reserve: the record is created only if there is none.
ReserveName(a, n) ==
    /\ attempt[a] = "open" /\ n \in Publishes[a] \ taken[a] /\ Fence(a)
    /\ names[n] = Free
    /\ names' = [names EXCEPT ![n] = [status |-> "reserved", tx |-> {a}, attached |-> FALSE]]
    /\ taken' = [taken EXCEPT ![a] = @ \cup {n}]
    /\ target' = [target EXCEPT ![a] = {n}]
    /\ Goto(a, "write")
    /\ UNCHANGED <<lease, staged, stale, erasing, commits, sealed, tombstones, bytes>>

\* FilesystemArtifactStore.publish_file: a fresh file next to the others,
\* put in place by one rename.
Stored(a) == bytes \cup ({a} \X target[a])

\* publish: the value is serialized to a scratch file and then stored, under a
\* checked fence.
PublishFile(a) ==
    /\ attempt[a] = "write" /\ Fence(a)
    /\ bytes' = Stored(a)
    /\ Goto(a, "attach")
    /\ UNCHANGED <<lease, target, staged, taken, stale, erasing, names, commits, sealed,
                   tombstones>>

\* attach_provisional, and the ref enters the transaction.
AttachProvisional(a) ==
    /\ attempt[a] = "attach" /\ Fence(a)
    /\ \A n \in target[a] : HeldBy(n, a)
    /\ names' = [n \in ArtifactName |->
                    IF n \in target[a] THEN [names[n] EXCEPT !.attached = TRUE] ELSE names[n]]
    /\ staged' = [staged EXCEPT ![a] = @ \cup target[a]]
    /\ target' = [target EXCEPT ![a] = {}]
    /\ Goto(a, "open")
    /\ UNCHANGED <<lease, taken, stale, erasing, commits, sealed, tombstones, bytes>>

-----------------------------------------------------------------------------
(* commit_publications: fence, checks, commit record, name records.        *)

SealFence(a) ==
    /\ attempt[a] = "open" /\ Fence(a)
    /\ Goto(a, "seal")
    /\ UNCHANGED <<lease, target, staged, taken, stale, erasing, names, commits, sealed,
                   tombstones, bytes>>

\* No tombstone, every name still reserved here, every file still there.
Sealable(a) ==
    /\ a \notin tombstones
    /\ \A n \in staged[a] : HeldBy(n, a) /\ <<a, n>> \in bytes

SealCheck(a) ==
    /\ attempt[a] = "seal" /\ Sealable(a)
    /\ Goto(a, "checked")
    /\ UNCHANGED <<lease, target, staged, taken, stale, erasing, names, commits, sealed,
                   tombstones, bytes>>

\* The create-only commit record is the seal.
SealWrite(a) ==
    /\ attempt[a] = "checked"
    /\ commits' = [commits EXCEPT ![a] = staged[a]]
    /\ sealed' = sealed \cup {a}
    /\ Goto(a, "sealed")
    /\ UNCHANGED <<lease, target, staged, taken, stale, erasing, names, tombstones, bytes>>

\* The name records are rewritten one after another; an I/O error is skipped.
SealCompact(a, n) ==
    /\ attempt[a] = "sealed" /\ n \in commits[a] /\ names[n].status # "committed"
    /\ names' = [names EXCEPT ![n] = [status |-> "committed", tx |-> {a}, attached |-> TRUE]]
    /\ UNCHANGED <<attempt, lease, target, staged, taken, stale, erasing, commits, sealed,
                   tombstones, bytes>>

-----------------------------------------------------------------------------
(* abort, of the attempt's own transaction or of a scavenged one.          *)

\* A step of publish or commit raised (its fence is gone, a name is taken, a
\* check failed, the codec or the disk failed, the last one perhaps after the
\* commit record was there): the transaction is aborted.
GiveUp(a) ==
    /\ attempt[a] \in {"open", "write", "attach", "seal", "checked", "sealed"}
    /\ erasing' = [erasing EXCEPT ![a] = [tx |-> {a}, names |-> taken[a], refs |-> staged[a]]]
    /\ Goto(a, "abort")
    /\ UNCHANGED <<lease, target, staged, taken, stale, names, commits, sealed, tombstones,
                   bytes>>

\* Mutant: the commit record is not looked for.
AbortMarkAlways(a) ==
    /\ attempt[a] \in {"abort", "scavenge_abort"}
    /\ Goto(a, IF attempt[a] = "abort" THEN "tombstone" ELSE "scavenge_tombstone")
    /\ UNCHANGED <<lease, target, staged, taken, stale, erasing, names, commits, sealed,
                   tombstones, bytes>>

\* abort raises when the commit record exists.
AbortMark(a) ==
    /\ attempt[a] \in {"abort", "scavenge_abort"}
    /\ \/ /\ erasing[a].tx \cap sealed = {}
          /\ Goto(a, IF attempt[a] = "abort" THEN "tombstone" ELSE "scavenge_tombstone")
       \/ /\ erasing[a].tx \cap sealed # {}
          /\ Goto(a, "dead")
    /\ UNCHANGED <<lease, target, staged, taken, stale, erasing, names, commits, sealed,
                   tombstones, bytes>>

AbortTombstone(a) ==
    /\ attempt[a] \in {"tombstone", "scavenge_tombstone"}
    /\ tombstones' = tombstones \cup erasing[a].tx
    /\ Goto(a, IF attempt[a] = "tombstone" THEN "erase" ELSE "scavenge_erase")
    /\ UNCHANGED <<lease, target, staged, taken, stale, erasing, names, commits, sealed,
                   bytes>>

\* Each name: its record if it is still this transaction's, and its file.
AbortErase(a, n) ==
    /\ attempt[a] \in {"erase", "scavenge_erase"} /\ n \in erasing[a].names
    /\ names' = [names EXCEPT ![n] = IF @.tx = erasing[a].tx THEN Free ELSE @]
    /\ bytes' = IF n \in erasing[a].refs THEN bytes \ (erasing[a].tx \X {n}) ELSE bytes
    /\ erasing' = [erasing EXCEPT ![a].names = @ \ {n}]
    /\ UNCHANGED <<attempt, lease, target, staged, taken, stale, commits, sealed, tombstones>>

AbortDone(a) ==
    /\ attempt[a] \in {"erase", "scavenge_erase"} /\ erasing[a].names = {}
    /\ erasing' = [erasing EXCEPT ![a] = NoAbort]
    /\ Goto(a, IF attempt[a] = "erase" THEN "aborted" ELSE "scavenge")
    /\ UNCHANGED <<lease, target, staged, taken, stale, names, commits, sealed, tombstones,
                   bytes>>

-----------------------------------------------------------------------------

AttemptDies(a) ==
    /\ attempt[a] \notin {"new", "dead"}
    /\ Goto(a, "dead")
    /\ UNCHANGED <<lease, target, staged, taken, stale, erasing, names, commits, sealed,
                   tombstones, bytes>>

\* The lease ends and the next one is issued.
LeaseMoves ==
    /\ \E a \in Attempt : LeaseOf[a] > lease
    /\ Overtake \/ \A a \in Attempt : Fence(a) =>
          attempt[a] \notin {"scavenge", "scavenge_abort", "scavenge_tombstone",
                             "scavenge_erase", "seal", "checked", "sealed"}
    /\ lease' = lease + 1
    /\ UNCHANGED <<attempt, target, staged, taken, stale, erasing, names, commits, sealed,
                   tombstones, bytes>>

LedgerNext ==
    \/ \E a \in Attempt :
          \/ Open(a) \/ ScavengeDone(a)
          \/ \E t \in Attempt : Scavenge(a, t)
          \/ \E n \in ArtifactName : ReserveName(a, n)
          \/ PublishFile(a) \/ AttachProvisional(a)
          \/ SealFence(a) \/ SealCheck(a) \/ SealWrite(a)
          \/ \E n \in ArtifactName : SealCompact(a, n)
          \/ GiveUp(a) \/ AbortMark(a) \/ AbortTombstone(a) \/ AbortDone(a)
          \/ \E n \in ArtifactName : AbortErase(a, n)
          \/ AttemptDies(a)
    \/ LeaseMoves

LedgerSpec == LedgerInit /\ [][LedgerNext]_ledgerVars

\* verify: what any holder of a receipt can check at any time.
Verified(t, n) == t \in sealed /\ n \in commits[t] /\ <<t, n>> \in bytes

-----------------------------------------------------------------------------
(* Properties *)

\* A commit record never names bytes that are gone: whoever holds a receipt
\* can read and verify the artifact, and no transaction is sealed as well as
\* aborted, whatever other attempts did meanwhile.
SealedIsBacked ==
    /\ \A t \in sealed : \A n \in commits[t] : Verified(t, n)
    /\ sealed \cap tombstones = {}

\* "name reservations prevent two concurrent transactions from both publishing
\* the same logical Artifact": one Case run never seals a name twice, though
\* records are released by aborts, crashes and scavengers in between.
OneSealPerName ==
    \A t, u \in sealed : t # u => commits[t] \cap commits[u] = {}
=============================================================================
