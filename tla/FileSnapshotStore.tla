-------------------------- MODULE FileSnapshotStore --------------------------
(***************************************************************************)
(* FileSnapshotStore: one snapshot key as a set of files (a meta file that *)
(* names the payload of its revision, the payloads, the pin owners, the    *)
(* claim of a writer), shared by processes that may die at any point. One  *)
(* action is one file that is created, read, replaced or unlinked. The     *)
(* .npz and .extras files of one transaction stand as one payload.         *)
(***************************************************************************)
EXTENDS Integers

CONSTANTS
    Process,       \* users of the key, each pinning under its own name
    MaxWrites,     \* bound: payloads ever written
    Overlapping    \* may calls of different processes overlap?

ASSUME FileSnapshotAssumption == MaxWrites \in Nat /\ Overlapping \in BOOLEAN

VARIABLES
    meta,       \* the meta file: revision, payload, expires_at, pin_restore_expires_at
    payloads,   \* payload files on disk, named by transaction
    pinFile,    \* owners in the pins file
    claim,      \* the claim file: who made it, is its content written?
    call,       \* [Process -> the call it is in and what the call has read]
    pinning,    \* processes whose pin() returned and who have not called unpin()
    nextTx,     \* next transaction id
    torn        \* has a delete died half way since the last write?

fileVars == <<meta, payloads, pinFile, claim, call, pinning, nextTx, torn>>

\* A time is "none", "later" or "past".
NoMeta == [rev |-> 0, tx |-> 0, expires |-> "none", restore |-> "none"]
NoFileClaim == [by |-> "nobody", filled |-> FALSE]
NoCall == [at |-> "idle", op |-> "none", expected |-> -1, ttl |-> FALSE, seen |-> NoMeta,
           owners |-> {}, tx |-> 0, tries |-> 0, erase |-> {}]

FileInit ==
    /\ meta = NoMeta /\ payloads = {} /\ pinFile = {} /\ claim = NoFileClaim
    /\ call = [p \in Process |-> NoCall]
    /\ pinning = {} /\ nextTx = 1 /\ torn = FALSE

\* A call begins.
Opens(p, op) ==
    /\ call[p].at = "idle"
    /\ Overlapping \/ \A q \in Process : call[q].at \in {"idle", "dead"}
    /\ UNCHANGED <<meta, payloads, pinFile, claim, nextTx, torn>>

Go(p, where) == call' = [call EXCEPT ![p].at = where]
Ends(p) == call' = [call EXCEPT ![p] = NoCall]

-----------------------------------------------------------------------------
(* read, delete, pin and unpin; the last two begin with a read.            *)

BeginRead(p, op) ==
    /\ Opens(p, op)
    /\ op = "unpin" => p \in pinning
    /\ call' = [call EXCEPT ![p] = [NoCall EXCEPT !.at = "readMeta", !.op = op]]
    /\ pinning' = IF op = "unpin" THEN pinning \ {p} ELSE pinning

\* A missing snapshot ends the call; an expired one is deleted.
ReadMeta(p) ==
    /\ call[p].at = "readMeta"
    /\ IF meta.rev = 0 THEN Ends(p)
       ELSE IF meta.expires = "past" THEN Go(p, "deletePins")
       ELSE call' = [call EXCEPT ![p].at = "readPayload", ![p].seen = meta]
    /\ UNCHANGED <<meta, payloads, pinFile, claim, pinning, nextTx, torn>>

\* A payload that is gone does not match the digest in the meta file: raise.
ReadPayload(p) ==
    /\ call[p].at = "readPayload"
    /\ IF call[p].op = "read" \/ call[p].seen.tx \notin payloads THEN Ends(p)
       ELSE Go(p, "readOwners")
    /\ UNCHANGED <<meta, payloads, pinFile, claim, pinning, nextTx, torn>>

BeginDelete(p) ==
    /\ Opens(p, "delete")
    /\ call' = [call EXCEPT ![p] = [NoCall EXCEPT !.at = "deletePins", !.op = "delete"]]
    /\ UNCHANGED pinning

\* Mutant: pins are not looked at.
DeletePinsAnyway(p) ==
    /\ call[p].at = "deletePins"
    /\ Go(p, "deleteMeta")
    /\ UNCHANGED <<meta, payloads, pinFile, claim, pinning, nextTx, torn>>

\* A pinned snapshot is not deleted: raise.
DeletePins(p) ==
    /\ call[p].at = "deletePins"
    /\ IF pinFile # {} THEN Ends(p) ELSE Go(p, "deleteMeta")
    /\ UNCHANGED <<meta, payloads, pinFile, claim, pinning, nextTx, torn>>

DeleteMeta(p) ==
    /\ call[p].at = "deleteMeta"
    /\ call' = [call EXCEPT ![p].at = "unlink", ![p].seen = meta,
                            ![p].erase = {"meta", "pins", "payload"}]
    /\ UNCHANGED <<meta, payloads, pinFile, claim, pinning, nextTx, torn>>

\* The files go one by one, in the order of a set of paths.
DeleteUnlink(p, file) ==
    /\ call[p].at = "unlink" /\ file \in call[p].erase
    /\ meta' = IF file = "meta" THEN NoMeta ELSE meta
    /\ pinFile' = IF file = "pins" THEN {} ELSE pinFile
    /\ payloads' = IF file = "payload" THEN payloads \ {call[p].seen.tx} ELSE payloads
    /\ IF call[p].erase = {file} THEN Ends(p) ELSE call' = [call EXCEPT ![p].erase = @ \ {file}]
    /\ UNCHANGED <<claim, pinning, nextTx, torn>>

\* pin and unpin: the owners as they will be.
ReadOwners(p) ==
    /\ call[p].at = "readOwners"
    /\ call' = [call EXCEPT ![p].at = "writeOwners",
                            ![p].owners = IF call[p].op = "pin" THEN pinFile \cup {p}
                                          ELSE pinFile \ {p}]
    /\ UNCHANGED <<meta, payloads, pinFile, claim, pinning, nextTx, torn>>

WriteOwners(p) ==
    /\ call[p].at = "writeOwners"
    /\ pinFile' = call[p].owners
    /\ IF call[p].op = "pin" \/ call[p].owners = {} THEN Go(p, "rereadMeta") ELSE Ends(p)
    /\ UNCHANGED <<meta, payloads, claim, pinning, nextTx, torn>>

\* pin moves expires_at aside if there is one, unpin brings it back.
RereadMeta(p) ==
    LET set == IF call[p].op = "pin" THEN meta.expires # "none" ELSE meta.restore # "none"
    IN  /\ call[p].at = "rereadMeta"
        /\ IF set THEN call' = [call EXCEPT ![p].at = "rewriteMeta", ![p].seen = meta]
           ELSE Ends(p)
        /\ pinning' = IF call[p].op = "pin" /\ ~set THEN pinning \cup {p} ELSE pinning
        /\ UNCHANGED <<meta, payloads, pinFile, claim, nextTx, torn>>

\* The meta file as it was read, with its expiry moved. unpin reads again.
RewriteMeta(p) ==
    /\ call[p].at = "rewriteMeta"
    /\ IF call[p].op = "pin"
       THEN /\ meta' = [call[p].seen EXCEPT !.restore = call[p].seen.expires,
                                            !.expires = "none"]
            /\ pinning' = pinning \cup {p}
            /\ Ends(p)
       ELSE /\ meta' = [call[p].seen EXCEPT !.expires = call[p].seen.restore,
                                            !.restore = "none"]
            /\ call' = [call EXCEPT ![p].at = "readMeta", ![p].op = "read"]
            /\ UNCHANGED pinning
    /\ UNCHANGED <<payloads, pinFile, claim, nextTx, torn>>

-----------------------------------------------------------------------------
(* write.                                                                  *)

BeginWrite(p, expected, ttl) ==
    /\ Opens(p, "write") /\ nextTx <= MaxWrites
    /\ call' = [call EXCEPT ![p] = [NoCall EXCEPT !.at = "claim", !.op = "write",
                                                  !.expected = expected, !.ttl = ttl]]
    /\ UNCHANGED pinning

\* _claim_file_write, first half: the claim file is created, or looked at.
\* A claim of a live process raises; an empty or a dead one is taken away.
ClaimTry(p) ==
    LET live == claim.filled /\ call[claim.by].at # "dead"
    IN  /\ call[p].at = "claim" /\ call[p].tries < 2
        /\ IF claim = NoFileClaim
           THEN claim' = [by |-> p, filled |-> FALSE] /\ Go(p, "fill")
           ELSE UNCHANGED claim /\ IF live THEN Ends(p) ELSE Go(p, "steal")
        /\ UNCHANGED <<meta, payloads, pinFile, pinning, nextTx, torn>>

ClaimSteal(p) ==
    /\ call[p].at = "steal"
    /\ claim' = NoFileClaim
    /\ IF call[p].tries = 1 THEN Ends(p)
       ELSE call' = [call EXCEPT ![p].at = "claim", ![p].tries = @ + 1]
    /\ UNCHANGED <<meta, payloads, pinFile, pinning, nextTx, torn>>

ClaimFill(p) ==
    /\ call[p].at = "fill"
    /\ claim' = IF claim.by = p THEN [claim EXCEPT !.filled = TRUE] ELSE claim
    /\ Go(p, "look")
    /\ UNCHANGED <<meta, payloads, pinFile, pinning, nextTx, torn>>

\* expected_revision (-1 is None; write_once is an expected 0).
WriteLooks(p) ==
    /\ call[p].at = "look"
    /\ IF call[p].expected \in {-1, meta.rev}
       THEN call' = [call EXCEPT ![p].at = "payload", ![p].seen = meta]
       ELSE Go(p, "unclaim")
    /\ UNCHANGED <<meta, payloads, pinFile, claim, pinning, nextTx, torn>>

WritePayload(p) ==
    /\ call[p].at = "payload"
    /\ payloads' = payloads \cup {nextTx}
    /\ nextTx' = nextTx + 1
    /\ call' = [call EXCEPT ![p].at = "pins", ![p].tx = nextTx]
    /\ UNCHANGED <<meta, pinFile, claim, pinning, torn>>

WritePins(p) ==
    /\ call[p].at = "pins"
    /\ call' = [call EXCEPT ![p].at = "commit", ![p].owners = pinFile]
    /\ UNCHANGED <<meta, payloads, pinFile, claim, pinning, nextTx, torn>>

\* Mutant: the payload of the old revision goes before the new meta is there.
WriteCommitLate(p) ==
    /\ call[p].at = "commit"
    /\ payloads' = payloads \ {call[p].seen.tx}
    /\ IF payloads' # payloads THEN UNCHANGED <<meta, call, torn>>
       ELSE /\ meta' = [rev |-> call[p].seen.rev + 1, tx |-> call[p].tx,
                        restore |-> "none", expires |-> "none"]
            /\ torn' = FALSE
            /\ Go(p, "cleanup")
    /\ UNCHANGED <<pinFile, claim, pinning, nextTx>>

\* tmp_meta.replace: the new revision is there.
WriteCommit(p) ==
    /\ call[p].at = "commit"
    /\ meta' = [rev |-> call[p].seen.rev + 1, tx |-> call[p].tx, restore |-> "none",
                expires |-> IF call[p].ttl /\ call[p].owners = {} THEN "later" ELSE "none"]
    /\ torn' = FALSE
    /\ Go(p, "cleanup")
    /\ UNCHANGED <<payloads, pinFile, claim, pinning, nextTx>>

WriteCleanup(p) ==
    /\ call[p].at = "cleanup"
    /\ payloads' = payloads \ {call[p].seen.tx}
    /\ Go(p, "unclaim")
    /\ UNCHANGED <<meta, pinFile, claim, pinning, nextTx, torn>>

\* finally: the claim file is unlinked, whosever it is.
WriteUnclaim(p) ==
    /\ call[p].at = "unclaim"
    /\ claim' = NoFileClaim
    /\ Ends(p)
    /\ UNCHANGED <<meta, payloads, pinFile, pinning, nextTx, torn>>

-----------------------------------------------------------------------------

ProcessDies(p) ==
    /\ call[p].at \notin {"idle", "dead"}
    /\ torn' = (torn \/ call[p].at = "unlink")
    /\ call' = [call EXCEPT ![p] = [NoCall EXCEPT !.at = "dead"]]
    /\ UNCHANGED <<meta, payloads, pinFile, claim, pinning, nextTx>>

Overdue(t) == IF t = "later" THEN "past" ELSE t

ClockAdvances ==
    /\ "later" \in {meta.expires, meta.restore}
    /\ meta' = [meta EXCEPT !.expires = Overdue(@), !.restore = Overdue(@)]
    /\ call' = [p \in Process |-> [call[p] EXCEPT !.seen.expires = Overdue(@),
                                                  !.seen.restore = Overdue(@)]]
    /\ UNCHANGED <<payloads, pinFile, claim, pinning, nextTx, torn>>

FileNext ==
    \/ ClockAdvances
    \/ \E p \in Process :
          \/ \E op \in {"read", "pin", "unpin"} : BeginRead(p, op)
          \/ ReadMeta(p) \/ ReadPayload(p)
          \/ BeginDelete(p) \/ DeletePins(p) \/ DeleteMeta(p)
          \/ \E file \in {"meta", "pins", "payload"} : DeleteUnlink(p, file)
          \/ ReadOwners(p) \/ WriteOwners(p) \/ RereadMeta(p) \/ RewriteMeta(p)
          \/ \E expected \in -1..MaxWrites, ttl \in BOOLEAN : BeginWrite(p, expected, ttl)
          \/ ClaimTry(p) \/ ClaimSteal(p) \/ ClaimFill(p)
          \/ WriteLooks(p) \/ WritePayload(p) \/ WritePins(p)
          \/ WriteCommit(p) \/ WriteCleanup(p) \/ WriteUnclaim(p)
          \/ ProcessDies(p)

FileSpec == FileInit /\ [][FileNext]_fileVars

-----------------------------------------------------------------------------
(* Properties *)

\* What pin promises, through writes, expiry and processes that die between
\* any two files: until unpin the snapshot is there and its owner recorded.
FilePinHolds == \A p \in pinning : meta.rev # 0 /\ p \in pinFile

\* Whenever a writer dies, the last committed revision is still readable: the
\* meta file never names a payload that is missing. Only a delete that died
\* half way leaves such a snapshot, until the next write.
CommittedIsReadable ==
    meta.rev # 0 =>
        \/ meta.tx \in payloads \/ torn
        \/ \E p \in Process : call[p].at = "unlink"

=============================================================================
