------------------------- MODULE PublicationProofs -------------------------
(***************************************************************************)
(* TLAPS proofs about publication: the ledger of artifacts for any number  *)
(* of attempts, leases and names, and the end of a Case run for any number *)
(* of threads, artifacts and transactions.                                 *)
(***************************************************************************)
EXTENDS ArtifactLedger, CaseFinalization, TLAPS

-----------------------------------------------------------------------------
(* The ledger. An attempt seals or scavenges only under the current lease, *)
(* so that a transaction whose files are being removed is not sealed       *)
(* meanwhile.                                                              *)

Scavenging == {"scavenge", "scavenge_abort", "scavenge_tombstone", "scavenge_erase"}
Sealing == {"seal", "checked", "sealed"}

LedgerTypes ==
    /\ attempt \in [Attempt -> Scavenging \cup Sealing \cup
                      {"new", "open", "write", "attach", "abort", "tombstone", "erase",
                       "aborted", "dead"}]
    /\ staged \in [Attempt -> SUBSET ArtifactName]
    /\ stale \in [Attempt -> SUBSET Attempt]
    /\ erasing \in [Attempt -> [tx : SUBSET Attempt, names : SUBSET ArtifactName,
                                refs : SUBSET ArtifactName]]
    /\ names \in [ArtifactName -> [status : {"free", "reserved", "committed"},
                                   tx : SUBSET Attempt, attached : BOOLEAN]]
    /\ commits \in [Attempt -> SUBSET ArtifactName]
    /\ sealed \in SUBSET Attempt
    /\ taken \in [Attempt -> SUBSET ArtifactName] /\ target \in [Attempt -> SUBSET ArtifactName]

\* Scavengers and sealers act under the current lease.
UnderLease == \A a \in Attempt : attempt[a] \in Scavenging \cup Sealing => Fence(a)

\* An abort removes the attempt's own transaction or one of another lease.
ErasesItsOwn ==
    \A a \in Attempt :
        /\ attempt[a] \in {"abort", "tombstone", "erase"} => erasing[a].tx = {a}
        /\ \A t \in stale[a] : LeaseOf[t] # LeaseOf[a]
        /\ attempt[a] \in Scavenging \ {"scavenge"} =>
              \A t \in erasing[a].tx : LeaseOf[t] # LeaseOf[a]

\* Once the commit record has been looked for in vain, there is none.
NeverErasesSealed ==
    \A a \in Attempt :
        attempt[a] \in {"tombstone", "scavenge_tombstone", "erase", "scavenge_erase"} =>
            erasing[a].tx \cap sealed = {}

\* What has been checked is still so when the commit record is written.
StillSealable == \A a \in Attempt : attempt[a] = "checked" => Sealable(a)

\* The names of a commit record stay with its transaction.
SealedHolds ==
    /\ \A t \in sealed : \A n \in commits[t] : names[n].tx = {t} /\ <<t, n>> \in bytes
    /\ \A a \in Attempt : attempt[a] = "sealed" => a \in sealed

LedgerInv ==
    /\ LedgerTypes /\ UnderLease /\ ErasesItsOwn /\ NeverErasesSealed /\ StillSealable
    /\ SealedHolds /\ sealed \cap tombstones = {}

-----------------------------------------------------------------------------
(* The end of a Case run: nothing is spoiled until something raised, and a *)
(* spoiled run is never a success.                                         *)

Spoiled == raised \/ verdict = "failed"
Running == {"publish", "reserve", "write", "stage"}
TxStates == {"none", "active", "aborted", "sealed"}
TxRecord == [state : TxStates, prepared : BOOLEAN, refs : SUBSET Artifact,
             taken : SUBSET Artifact]
ThreadRecord == [at : {"idle", "create", "recheck"} \cup Running, tx : TxId \cup {0},
                 name : SUBSET Artifact]

FinalizationTypes ==
    /\ phase \in {"control", "run", "serialize", "close", "join", "heartbeat", "seal",
                  "observe", "done", "dead"}
    /\ verdict \in {"none", "ok", "failed"}
    /\ raised \in BOOLEAN /\ scheduler \in BOOLEAN
    /\ final \in TxId \cup {0}
    /\ tx \in [TxId -> TxRecord]
    /\ thread \in [Thread -> ThreadRecord]
    /\ holder \in [Artifact -> TxId \cup {0}]
    /\ told \in SUBSET Artifact /\ receipts \in SUBSET Artifact

\* Threads publish while the Case runs, and are idle after that.
IdleOutsideRun ==
    phase \notin {"run", "dead"} => \A h \in Thread : thread[h] = Idle

\* Where the run can be, given what it will report.
Stages ==
    /\ phase \in {"heartbeat", "seal", "observe"} => ~scheduler
    /\ phase \in {"control", "run", "serialize"} => verdict = "none"
    /\ phase \in {"seal", "observe"} => verdict = "ok"
    /\ phase = "control" => told = {} /\ final = 0
    /\ phase \in {"control", "serialize"} => ~raised
    /\ verdict = "ok" => ~raised
    /\ phase \in {"close", "join", "heartbeat", "done"} => verdict # "none"
    /\ report = "ok" => phase = "done" /\ verdict = "ok"
    /\ receipts # {} => phase \in {"observe", "done", "dead"} /\ verdict = "ok" /\ ~scheduler
                        /\ \A h \in Thread : thread[h] = Idle

\* While nothing has raised, the threads share one transaction.
OneTransaction ==
    /\ \A h \in Thread : thread[h].at \in Running => thread[h].tx = final /\ final # 0
    /\ \A h \in Thread : thread[h].at = "recheck" =>
          /\ thread[h].tx \in TxId /\ thread[h].tx # final
          /\ tx[thread[h].tx].state = "active" /\ tx[thread[h].tx].refs = {}
          /\ \A g \in Thread : g # h /\ thread[g].at = "recheck" =>
                thread[g].tx # thread[h].tx
    /\ \A h \in Thread : thread[h].at \in {"write", "stage"} =>
          \A n \in thread[h].name : holder[n] = final
    /\ final # 0 => /\ tx[final].state = "active" \/ phase \in {"observe", "done", "dead"}
                    /\ tx[final].state # "none"
                    /\ \A n \in tx[final].refs : holder[n] = final
    /\ \A n \in told : final # 0 /\ n \in tx[final].refs
    /\ phase \in {"observe", "done"} => told \subseteq receipts
    /\ \A n \in receipts : holder[n] = final

FinalizationInv ==
    FinalizationTypes /\ IdleOutsideRun /\ Stages /\ (~Spoiled => OneTransaction)

-----------------------------------------------------------------------------
\* Opening a publisher lists transactions of other leases only, under the
\* current lease.
LEMMA OpenKeeps ==
    ASSUME ~Overtake, LedgerInv, NEW a \in Attempt, Open(a)
    PROVE  LedgerInv'
<1> USE LedgerAssumption DEF LedgerInv, Open, Goto, Free, NoAbort, Fence, HeldBy
<1>1. LedgerTypes'
  BY DEF LedgerTypes, Scavenging, Sealing
<1>2. UnderLease'
  BY DEF LedgerTypes, UnderLease, Scavenging, Sealing
<1>3. ErasesItsOwn'
  BY DEF LedgerTypes, ErasesItsOwn, Scavenging, Sealing
<1>4. NeverErasesSealed' /\ (sealed \cap tombstones = {})'
  BY DEF LedgerTypes, UnderLease, ErasesItsOwn, NeverErasesSealed, StillSealable, Sealable,
         Scavenging, Sealing
<1>5. StillSealable'
  BY DEF LedgerTypes, UnderLease, ErasesItsOwn, NeverErasesSealed, StillSealable, Sealable,
         SealedHolds, Scavenging, Sealing
<1>6. SealedHolds'
  BY DEF LedgerTypes, UnderLease, ErasesItsOwn, NeverErasesSealed, StillSealable, Sealable,
         SealedHolds, Scavenging, Sealing
<1> QED BY <1>1, <1>2, <1>3, <1>4, <1>5, <1>6

\* A scavenger that is done opens its transaction.
LEMMA ScavengeDoneKeeps ==
    ASSUME ~Overtake, LedgerInv, NEW a \in Attempt, ScavengeDone(a)
    PROVE  LedgerInv'
<1> USE LedgerAssumption DEF LedgerInv, ScavengeDone, Goto, Free, NoAbort, Fence, HeldBy
<1>1. LedgerTypes'
  BY DEF LedgerTypes, Scavenging, Sealing
<1>2. UnderLease'
  BY DEF LedgerTypes, UnderLease, Scavenging, Sealing
<1>3. ErasesItsOwn'
  BY DEF LedgerTypes, ErasesItsOwn, Scavenging, Sealing
<1>4. NeverErasesSealed' /\ (sealed \cap tombstones = {})'
  BY DEF LedgerTypes, UnderLease, ErasesItsOwn, NeverErasesSealed, StillSealable, Sealable,
         Scavenging, Sealing
<1>5. StillSealable'
  BY DEF LedgerTypes, UnderLease, ErasesItsOwn, NeverErasesSealed, StillSealable, Sealable,
         SealedHolds, Scavenging, Sealing
<1>6. SealedHolds'
  BY DEF LedgerTypes, UnderLease, ErasesItsOwn, NeverErasesSealed, StillSealable, Sealable,
         SealedHolds, Scavenging, Sealing
<1> QED BY <1>1, <1>2, <1>3, <1>4, <1>5, <1>6

\* The scavenger starts to abort a transaction of another lease.
LEMMA ScavengeKeeps ==
    ASSUME ~Overtake, LedgerInv, NEW a \in Attempt, NEW t \in Attempt, Scavenge(a, t)
    PROVE  LedgerInv'
<1> USE LedgerAssumption DEF LedgerInv, Scavenge, Goto, Free, NoAbort, Fence, HeldBy
<1>1. LedgerTypes'
  <2>1. erasing' \in [Attempt -> [tx : SUBSET Attempt, names : SUBSET ArtifactName,
                                  refs : SUBSET ArtifactName]]
    BY DEF LedgerTypes
  <2>2. /\ stale' \in [Attempt -> SUBSET Attempt]
        /\ attempt' = attempt \/ attempt' = [attempt EXCEPT ![a] = "scavenge_abort"]
    BY DEF LedgerTypes
  <2> QED BY <2>1, <2>2 DEF LedgerTypes, Scavenging, Sealing
<1>2. UnderLease'
  BY DEF LedgerTypes, UnderLease, Scavenging, Sealing
<1>3. ErasesItsOwn'
  BY DEF LedgerTypes, ErasesItsOwn, Scavenging, Sealing
<1>4. NeverErasesSealed' /\ (sealed \cap tombstones = {})'
  BY DEF LedgerTypes, UnderLease, ErasesItsOwn, NeverErasesSealed, StillSealable, Sealable,
         Scavenging, Sealing
<1>5. StillSealable'
  BY DEF LedgerTypes, UnderLease, ErasesItsOwn, NeverErasesSealed, StillSealable, Sealable,
         SealedHolds, Scavenging, Sealing
<1>6. SealedHolds'
  BY DEF LedgerTypes, UnderLease, ErasesItsOwn, NeverErasesSealed, StillSealable, Sealable,
         SealedHolds, Scavenging, Sealing
<1> QED BY <1>1, <1>2, <1>3, <1>4, <1>5, <1>6

\* A name is reserved only if no record holds it, so none that is sealed.
LEMMA ReserveNameKeeps ==
    ASSUME ~Overtake, LedgerInv, NEW a \in Attempt, NEW n \in ArtifactName, ReserveName(a, n)
    PROVE  LedgerInv'
<1> USE LedgerAssumption DEF LedgerInv, ReserveName, Goto, Free, NoAbort, Fence, HeldBy
<1>1. LedgerTypes'
  BY DEF LedgerTypes, Scavenging, Sealing
<1>2. UnderLease'
  BY DEF LedgerTypes, UnderLease, Scavenging, Sealing
<1>3. ErasesItsOwn'
  BY DEF LedgerTypes, ErasesItsOwn, Scavenging, Sealing
<1>4. NeverErasesSealed' /\ (sealed \cap tombstones = {})'
  BY DEF LedgerTypes, UnderLease, ErasesItsOwn, NeverErasesSealed, StillSealable, Sealable,
         Scavenging, Sealing
<1>5. StillSealable'
  BY DEF LedgerTypes, UnderLease, ErasesItsOwn, NeverErasesSealed, StillSealable, Sealable,
         SealedHolds, Scavenging, Sealing
<1>6. SealedHolds'
  <2>1. \A t \in sealed : \A m \in commits[t] : m # n
    <3> SUFFICES ASSUME NEW t \in sealed, n \in commits[t] PROVE FALSE
      OBVIOUS
    <3>1. names[n].tx = {t}
      BY DEF SealedHolds
    <3>2. names[n].tx = {}
      OBVIOUS
    <3> QED BY <3>1, <3>2
  <2> QED BY <2>1 DEF LedgerTypes, SealedHolds
<1> QED BY <1>1, <1>2, <1>3, <1>4, <1>5, <1>6

\* Storing bytes removes none.
LEMMA PublishFileKeeps ==
    ASSUME ~Overtake, LedgerInv, NEW a \in Attempt, PublishFile(a)
    PROVE  LedgerInv'
<1> USE LedgerAssumption DEF LedgerInv, PublishFile, Goto, Free, NoAbort, Fence, HeldBy
<1>0. bytes \subseteq bytes'
  BY DEF Stored
<1>1. LedgerTypes'
  BY DEF LedgerTypes, Scavenging, Sealing
<1>2. UnderLease'
  BY DEF LedgerTypes, UnderLease, Scavenging, Sealing
<1>3. ErasesItsOwn'
  BY DEF LedgerTypes, ErasesItsOwn, Scavenging, Sealing
<1>4. NeverErasesSealed' /\ (sealed \cap tombstones = {})'
  BY DEF LedgerTypes, UnderLease, ErasesItsOwn, NeverErasesSealed, StillSealable, Sealable,
         Scavenging, Sealing
<1>5. StillSealable'
  BY <1>0 DEF LedgerTypes, StillSealable, Sealable
<1>6. SealedHolds'
  BY <1>0 DEF LedgerTypes, SealedHolds
<1> QED BY <1>1, <1>2, <1>3, <1>4, <1>5, <1>6

\* Attaching keeps whom a name is reserved for.
LEMMA AttachProvisionalKeeps ==
    ASSUME ~Overtake, LedgerInv, NEW a \in Attempt, AttachProvisional(a)
    PROVE  LedgerInv'
<1> USE LedgerAssumption DEF LedgerInv, AttachProvisional, Goto, Free, NoAbort, Fence, HeldBy
<1>1. LedgerTypes'
  <2>1. names' \in [ArtifactName -> [status : {"free", "reserved", "committed"},
                                     tx : SUBSET Attempt, attached : BOOLEAN]]
    <3> DEFINE Records == [status : {"free", "reserved", "committed"},
                           tx : SUBSET Attempt, attached : BOOLEAN]
    <3>1. ASSUME NEW r \in Records PROVE [r EXCEPT !.attached = TRUE] \in Records
      BY <3>1
    <3>2. \A m \in ArtifactName : names[m] \in Records
      BY DEF LedgerTypes
    <3> HIDE DEF Records
    <3>3. names' \in [ArtifactName -> Records]
      BY <3>1, <3>2
    <3> QED BY <3>3 DEF Records
  <2>2. staged' \in [Attempt -> SUBSET ArtifactName]
    <3>1. target[a] \subseteq ArtifactName
      BY DEF LedgerTypes
    <3> QED BY <3>1 DEF LedgerTypes
  <2> QED BY <2>1, <2>2 DEF LedgerTypes, Scavenging, Sealing
<1>2. UnderLease'
  BY DEF LedgerTypes, UnderLease, Scavenging, Sealing
<1>3. ErasesItsOwn'
  BY DEF LedgerTypes, ErasesItsOwn, Scavenging, Sealing
<1>4. NeverErasesSealed' /\ (sealed \cap tombstones = {})'
  BY DEF LedgerTypes, UnderLease, ErasesItsOwn, NeverErasesSealed, StillSealable, Sealable,
         Scavenging, Sealing
<1>5. StillSealable'
  BY DEF LedgerTypes, UnderLease, ErasesItsOwn, NeverErasesSealed, StillSealable, Sealable,
         SealedHolds, Scavenging, Sealing
<1>6. SealedHolds'
  BY DEF LedgerTypes, UnderLease, ErasesItsOwn, NeverErasesSealed, StillSealable, Sealable,
         SealedHolds, Scavenging, Sealing
<1> QED BY <1>1, <1>2, <1>3, <1>4, <1>5, <1>6

\* Sealing starts under the current lease.
LEMMA SealFenceKeeps ==
    ASSUME ~Overtake, LedgerInv, NEW a \in Attempt, SealFence(a)
    PROVE  LedgerInv'
<1> USE LedgerAssumption DEF LedgerInv, SealFence, Goto, Free, NoAbort, Fence, HeldBy
<1>1. LedgerTypes'
  BY DEF LedgerTypes, Scavenging, Sealing
<1>2. UnderLease'
  BY DEF LedgerTypes, UnderLease, Scavenging, Sealing
<1>3. ErasesItsOwn'
  BY DEF LedgerTypes, ErasesItsOwn, Scavenging, Sealing
<1>4. NeverErasesSealed' /\ (sealed \cap tombstones = {})'
  BY DEF LedgerTypes, UnderLease, ErasesItsOwn, NeverErasesSealed, StillSealable, Sealable,
         Scavenging, Sealing
<1>5. StillSealable'
  BY DEF LedgerTypes, UnderLease, ErasesItsOwn, NeverErasesSealed, StillSealable, Sealable,
         SealedHolds, Scavenging, Sealing
<1>6. SealedHolds'
  BY DEF LedgerTypes, UnderLease, ErasesItsOwn, NeverErasesSealed, StillSealable, Sealable,
         SealedHolds, Scavenging, Sealing
<1> QED BY <1>1, <1>2, <1>3, <1>4, <1>5, <1>6

\* The checks before the seal.
LEMMA SealCheckKeeps ==
    ASSUME ~Overtake, LedgerInv, NEW a \in Attempt, SealCheck(a)
    PROVE  LedgerInv'
<1> USE LedgerAssumption DEF LedgerInv, SealCheck, Goto, Free, NoAbort, Fence, HeldBy
<1>1. LedgerTypes'
  BY DEF LedgerTypes, Scavenging, Sealing
<1>2. UnderLease'
  BY DEF LedgerTypes, UnderLease, Scavenging, Sealing
<1>3. ErasesItsOwn'
  BY DEF LedgerTypes, ErasesItsOwn, Scavenging, Sealing
<1>4. NeverErasesSealed' /\ (sealed \cap tombstones = {})'
  BY DEF LedgerTypes, UnderLease, ErasesItsOwn, NeverErasesSealed, StillSealable, Sealable,
         Scavenging, Sealing
<1>5. StillSealable'
  BY DEF LedgerTypes, UnderLease, ErasesItsOwn, NeverErasesSealed, StillSealable, Sealable,
         SealedHolds, Scavenging, Sealing
<1>6. SealedHolds'
  BY DEF LedgerTypes, UnderLease, ErasesItsOwn, NeverErasesSealed, StillSealable, Sealable,
         SealedHolds, Scavenging, Sealing
<1> QED BY <1>1, <1>2, <1>3, <1>4, <1>5, <1>6

\* The commit record: nobody is removing what it names, and nobody will.
LEMMA SealWriteKeeps ==
    ASSUME ~Overtake, LedgerInv, NEW a \in Attempt, SealWrite(a)
    PROVE  LedgerInv'
<1> USE LedgerAssumption DEF LedgerInv, SealWrite, Goto, Free, NoAbort, Fence, HeldBy
<1>1. LedgerTypes'
  BY DEF LedgerTypes, Scavenging, Sealing
<1>2. UnderLease'
  BY DEF LedgerTypes, UnderLease, Scavenging, Sealing
<1>3. ErasesItsOwn'
  BY DEF LedgerTypes, ErasesItsOwn, Scavenging, Sealing
<1>4. NeverErasesSealed' /\ (sealed \cap tombstones = {})'
  BY DEF LedgerTypes, UnderLease, ErasesItsOwn, NeverErasesSealed, StillSealable, Sealable,
         Scavenging, Sealing
<1>5. StillSealable'
  BY DEF LedgerTypes, UnderLease, ErasesItsOwn, NeverErasesSealed, StillSealable, Sealable,
         SealedHolds, Scavenging, Sealing
<1>6. SealedHolds'
  BY DEF LedgerTypes, UnderLease, ErasesItsOwn, NeverErasesSealed, StillSealable, Sealable,
         SealedHolds, Scavenging, Sealing
<1> QED BY <1>1, <1>2, <1>3, <1>4, <1>5, <1>6

\* Rewriting a name record leaves the name with its transaction.
LEMMA SealCompactKeeps ==
    ASSUME ~Overtake, LedgerInv, NEW a \in Attempt, NEW n \in ArtifactName, SealCompact(a, n)
    PROVE  LedgerInv'
<1> USE LedgerAssumption DEF LedgerInv, SealCompact, Goto, Free, NoAbort, Fence, HeldBy
<1>0. a \in sealed /\ names[n].tx = {a}
  BY DEF SealedHolds
<1>1. LedgerTypes'
  BY DEF LedgerTypes, Scavenging, Sealing
<1>2. UnderLease'
  BY DEF LedgerTypes, UnderLease, Scavenging, Sealing
<1>3. ErasesItsOwn'
  BY DEF LedgerTypes, ErasesItsOwn, Scavenging, Sealing
<1>4. NeverErasesSealed' /\ (sealed \cap tombstones = {})'
  BY DEF LedgerTypes, UnderLease, ErasesItsOwn, NeverErasesSealed, StillSealable, Sealable,
         Scavenging, Sealing
<1>5. StillSealable'
  <2>1. ASSUME NEW b \in Attempt, attempt[b] = "checked", n \in staged[b] PROVE FALSE
    <3>1. names[n].tx = {b}
      BY <2>1 DEF StillSealable, Sealable
    <3>2. b = a
      BY <1>0, <3>1
    <3> QED BY <2>1, <3>2
  <2> QED BY <2>1 DEF LedgerTypes, StillSealable, Sealable
<1>6. SealedHolds'
  <2>1. ASSUME NEW t \in sealed, n \in commits[t] PROVE t = a
    <3>1. names[n].tx = {t}
      BY <2>1 DEF SealedHolds
    <3> QED BY <1>0, <3>1
  <2>2. \A m \in ArtifactName : m # n => names'[m] = names[m]
    BY DEF LedgerTypes
  <2>3. names'[n].tx = {a}
    BY DEF LedgerTypes
  <2> QED BY <2>1, <2>2, <2>3 DEF LedgerTypes, SealedHolds
<1> QED BY <1>1, <1>2, <1>3, <1>4, <1>5, <1>6

\* An attempt starts to abort its own transaction.
LEMMA GiveUpKeeps ==
    ASSUME ~Overtake, LedgerInv, NEW a \in Attempt, GiveUp(a)
    PROVE  LedgerInv'
<1> USE LedgerAssumption DEF LedgerInv, GiveUp, Goto, Free, NoAbort, Fence, HeldBy
<1>1. LedgerTypes'
  BY DEF LedgerTypes, Scavenging, Sealing
<1>2. UnderLease'
  BY DEF LedgerTypes, UnderLease, Scavenging, Sealing
<1>3. ErasesItsOwn'
  BY DEF LedgerTypes, ErasesItsOwn, Scavenging, Sealing
<1>4. NeverErasesSealed' /\ (sealed \cap tombstones = {})'
  BY DEF LedgerTypes, UnderLease, ErasesItsOwn, NeverErasesSealed, StillSealable, Sealable,
         Scavenging, Sealing
<1>5. StillSealable'
  BY DEF LedgerTypes, UnderLease, ErasesItsOwn, NeverErasesSealed, StillSealable, Sealable,
         SealedHolds, Scavenging, Sealing
<1>6. SealedHolds'
  BY DEF LedgerTypes, UnderLease, ErasesItsOwn, NeverErasesSealed, StillSealable, Sealable,
         SealedHolds, Scavenging, Sealing
<1> QED BY <1>1, <1>2, <1>3, <1>4, <1>5, <1>6

\* The commit record is looked for before anything is removed.
LEMMA AbortMarkKeeps ==
    ASSUME ~Overtake, LedgerInv, NEW a \in Attempt, AbortMark(a)
    PROVE  LedgerInv'
<1> USE LedgerAssumption DEF LedgerInv, AbortMark, Goto, Free, NoAbort, Fence, HeldBy
<1>1. LedgerTypes'
  BY DEF LedgerTypes, Scavenging, Sealing
<1>2. UnderLease'
  BY DEF LedgerTypes, UnderLease, Scavenging, Sealing
<1>3. ErasesItsOwn'
  BY DEF LedgerTypes, ErasesItsOwn, Scavenging, Sealing
<1>4. NeverErasesSealed' /\ (sealed \cap tombstones = {})'
  BY DEF LedgerTypes, UnderLease, ErasesItsOwn, NeverErasesSealed, StillSealable, Sealable,
         Scavenging, Sealing
<1>5. StillSealable'
  BY DEF LedgerTypes, UnderLease, ErasesItsOwn, NeverErasesSealed, StillSealable, Sealable,
         SealedHolds, Scavenging, Sealing
<1>6. SealedHolds'
  BY DEF LedgerTypes, UnderLease, ErasesItsOwn, NeverErasesSealed, StillSealable, Sealable,
         SealedHolds, Scavenging, Sealing
<1> QED BY <1>1, <1>2, <1>3, <1>4, <1>5, <1>6

\* The tombstone of a transaction that is neither sealed nor being sealed.
LEMMA AbortTombstoneKeeps ==
    ASSUME ~Overtake, LedgerInv, NEW a \in Attempt, AbortTombstone(a)
    PROVE  LedgerInv'
<1> USE LedgerAssumption DEF LedgerInv, AbortTombstone, Goto, Free, NoAbort, Fence, HeldBy
<1>1. LedgerTypes'
  BY DEF LedgerTypes, Scavenging, Sealing
<1>2. UnderLease'
  BY DEF LedgerTypes, UnderLease, Scavenging, Sealing
<1>3. ErasesItsOwn'
  BY DEF LedgerTypes, ErasesItsOwn, Scavenging, Sealing
<1>4. NeverErasesSealed' /\ (sealed \cap tombstones = {})'
  BY DEF LedgerTypes, UnderLease, ErasesItsOwn, NeverErasesSealed, StillSealable, Sealable,
         Scavenging, Sealing
<1>5. StillSealable'
  BY DEF LedgerTypes, UnderLease, ErasesItsOwn, NeverErasesSealed, StillSealable, Sealable,
         SealedHolds, Scavenging, Sealing
<1>6. SealedHolds'
  BY DEF LedgerTypes, UnderLease, ErasesItsOwn, NeverErasesSealed, StillSealable, Sealable,
         SealedHolds, Scavenging, Sealing
<1> QED BY <1>1, <1>2, <1>3, <1>4, <1>5, <1>6

\* The abort is over.
LEMMA AbortDoneKeeps ==
    ASSUME ~Overtake, LedgerInv, NEW a \in Attempt, AbortDone(a)
    PROVE  LedgerInv'
<1> USE LedgerAssumption DEF LedgerInv, AbortDone, Goto, Free, NoAbort, Fence, HeldBy
<1>1. LedgerTypes'
  BY DEF LedgerTypes, Scavenging, Sealing
<1>2. UnderLease'
  BY DEF LedgerTypes, UnderLease, Scavenging, Sealing
<1>3. ErasesItsOwn'
  BY DEF LedgerTypes, ErasesItsOwn, Scavenging, Sealing
<1>4. NeverErasesSealed' /\ (sealed \cap tombstones = {})'
  BY DEF LedgerTypes, UnderLease, ErasesItsOwn, NeverErasesSealed, StillSealable, Sealable,
         Scavenging, Sealing
<1>5. StillSealable'
  BY DEF LedgerTypes, UnderLease, ErasesItsOwn, NeverErasesSealed, StillSealable, Sealable,
         SealedHolds, Scavenging, Sealing
<1>6. SealedHolds'
  BY DEF LedgerTypes, UnderLease, ErasesItsOwn, NeverErasesSealed, StillSealable, Sealable,
         SealedHolds, Scavenging, Sealing
<1> QED BY <1>1, <1>2, <1>3, <1>4, <1>5, <1>6

\* Removing a name and its file touches no other transaction's.
LEMMA AbortEraseKeeps ==
    ASSUME ~Overtake, LedgerInv, NEW a \in Attempt, NEW n \in ArtifactName, AbortErase(a, n)
    PROVE  LedgerInv'
<1> USE LedgerAssumption DEF LedgerInv, AbortErase, Goto, Free, NoAbort, Fence, HeldBy
<1>1. LedgerTypes'
  <2>1. erasing' \in [Attempt -> [tx : SUBSET Attempt, names : SUBSET ArtifactName,
                                  refs : SUBSET ArtifactName]]
    BY DEF LedgerTypes
  <2>2. names' \in [ArtifactName -> [status : {"free", "reserved", "committed"},
                                     tx : SUBSET Attempt, attached : BOOLEAN]]
    BY DEF LedgerTypes
  <2> QED BY <2>1, <2>2 DEF LedgerTypes
<1>2. UnderLease'
  BY DEF LedgerTypes, UnderLease, Scavenging, Sealing
<1>3. ErasesItsOwn'
  BY DEF LedgerTypes, ErasesItsOwn, Scavenging, Sealing
<1>4. NeverErasesSealed' /\ (sealed \cap tombstones = {})'
  BY DEF LedgerTypes, UnderLease, ErasesItsOwn, NeverErasesSealed, StillSealable, Sealable,
         Scavenging, Sealing
<1>5. StillSealable'
  <2> SUFFICES ASSUME NEW b \in Attempt, attempt[b] = "checked"
               PROVE  Sealable(b)'
    BY DEF StillSealable
  <2>1. b \notin erasing[a].tx
    <3>1. CASE attempt[a] = "erase"
      <4>1. erasing[a].tx = {a} /\ b # a
        BY <3>1 DEF ErasesItsOwn
      <4> QED BY <4>1
    <3>2. CASE attempt[a] = "scavenge_erase"
      <4>1. LeaseOf[a] = lease /\ LeaseOf[b] = lease
        BY <3>2 DEF UnderLease, Scavenging, Sealing
      <4>2. \A t \in erasing[a].tx : LeaseOf[t] # LeaseOf[a]
        BY <3>2 DEF ErasesItsOwn, Scavenging
      <4> QED BY <4>1, <4>2
    <3> QED BY <3>1, <3>2
  <2>2. Sealable(b)
    BY DEF StillSealable
  <2>3. ASSUME NEW m \in staged[b] PROVE names'[m] = names[m]
    <3>1. names[m].tx = {b} /\ m \in ArtifactName
      BY <2>2 DEF LedgerTypes, Sealable
    <3>2. names[m].tx # erasing[a].tx
      BY <2>1, <3>1
    <3> QED BY <3>1, <3>2 DEF LedgerTypes
  <2>4. \A m \in staged[b] : <<b, m>> \in bytes'
    BY <2>1, <2>2 DEF Sealable
  <2> QED BY <2>2, <2>3, <2>4 DEF Sealable
<1>6. SealedHolds'
  BY DEF LedgerTypes, UnderLease, ErasesItsOwn, NeverErasesSealed, StillSealable, Sealable,
         SealedHolds, Scavenging, Sealing
<1> QED BY <1>1, <1>2, <1>3, <1>4, <1>5, <1>6

\* A crash leaves the ledger as it is.
LEMMA AttemptDiesKeeps ==
    ASSUME ~Overtake, LedgerInv, NEW a \in Attempt, AttemptDies(a)
    PROVE  LedgerInv'
<1> USE LedgerAssumption DEF LedgerInv, AttemptDies, Goto, Free, NoAbort, Fence, HeldBy
<1>1. LedgerTypes'
  BY DEF LedgerTypes, Scavenging, Sealing
<1>2. UnderLease'
  BY DEF LedgerTypes, UnderLease, Scavenging, Sealing
<1>3. ErasesItsOwn'
  BY DEF LedgerTypes, ErasesItsOwn, Scavenging, Sealing
<1>4. NeverErasesSealed' /\ (sealed \cap tombstones = {})'
  BY DEF LedgerTypes, UnderLease, ErasesItsOwn, NeverErasesSealed, StillSealable, Sealable,
         Scavenging, Sealing
<1>5. StillSealable'
  BY DEF LedgerTypes, UnderLease, ErasesItsOwn, NeverErasesSealed, StillSealable, Sealable,
         SealedHolds, Scavenging, Sealing
<1>6. SealedHolds'
  BY DEF LedgerTypes, UnderLease, ErasesItsOwn, NeverErasesSealed, StillSealable, Sealable,
         SealedHolds, Scavenging, Sealing
<1> QED BY <1>1, <1>2, <1>3, <1>4, <1>5, <1>6

\* The lease moves only while nobody seals or scavenges.
LEMMA LeaseMovesKeeps ==
    ASSUME ~Overtake, LedgerInv, LeaseMoves
    PROVE  LedgerInv'
<1> USE DEF LedgerInv, LeaseMoves, Fence
<1>1. UnderLease'
  BY DEF UnderLease, Scavenging, Sealing
<1>2. LedgerTypes' /\ ErasesItsOwn' /\ NeverErasesSealed' /\ (sealed \cap tombstones = {})'
  BY DEF LedgerTypes, ErasesItsOwn, NeverErasesSealed
<1>3. StillSealable' /\ SealedHolds'
  BY DEF StillSealable, Sealable, SealedHolds, HeldBy
<1> QED BY <1>1, <1>2, <1>3

\* LedgerInv is an inductive invariant of the ledger, unless an attempt goes on
\* sealing or scavenging after its lease ended.
THEOREM LedgerInvariance ==
    ASSUME ~Overtake
    PROVE  LedgerSpec => []LedgerInv
<1>1. LedgerInit => LedgerInv
  BY DEF LedgerInit, LedgerInv, LedgerTypes, UnderLease, ErasesItsOwn, NeverErasesSealed,
         StillSealable, SealedHolds, Scavenging, Sealing, Free, NoAbort
<1>2. LedgerInv /\ [LedgerNext]_ledgerVars => LedgerInv'
  <2> SUFFICES ASSUME LedgerInv, [LedgerNext]_ledgerVars PROVE LedgerInv'
    OBVIOUS
  <2>1. CASE UNCHANGED ledgerVars
    BY <2>1 DEF ledgerVars, LedgerInv, LedgerTypes, UnderLease, ErasesItsOwn,
                NeverErasesSealed, StillSealable, Sealable, SealedHolds, Fence, HeldBy
  <2>2. CASE LeaseMoves
    BY <2>2, LeaseMovesKeeps
  <2>3. ASSUME NEW a \in Attempt,
               \/ Open(a) \/ ScavengeDone(a) \/ \E t \in Attempt : Scavenge(a, t)
        PROVE  LedgerInv'
    BY <2>3, OpenKeeps, ScavengeDoneKeeps, ScavengeKeeps
  <2>4. ASSUME NEW a \in Attempt,
               \/ \E n \in ArtifactName : ReserveName(a, n)
               \/ PublishFile(a) \/ AttachProvisional(a)
        PROVE  LedgerInv'
    BY <2>4, ReserveNameKeeps, PublishFileKeeps, AttachProvisionalKeeps
  <2>5. ASSUME NEW a \in Attempt,
               \/ SealFence(a) \/ SealCheck(a) \/ SealWrite(a)
               \/ \E n \in ArtifactName : SealCompact(a, n)
        PROVE  LedgerInv'
    BY <2>5, SealFenceKeeps, SealCheckKeeps, SealWriteKeeps, SealCompactKeeps
  <2>6. ASSUME NEW a \in Attempt,
               \/ GiveUp(a) \/ AbortMark(a) \/ AbortTombstone(a) \/ AbortDone(a)
               \/ \E n \in ArtifactName : AbortErase(a, n)
               \/ AttemptDies(a)
        PROVE  LedgerInv'
    BY <2>6, GiveUpKeeps, AbortMarkKeeps, AbortTombstoneKeeps, AbortDoneKeeps,
       AbortEraseKeeps, AttemptDiesKeeps
  <2> QED BY <2>1, <2>2, <2>3, <2>4, <2>5, <2>6 DEF LedgerNext
<1> QED BY <1>1, <1>2, PTL DEF LedgerSpec

\* For any number of attempts, leases and names, a commit record never names
\* bytes that are gone, and no transaction is sealed as well as aborted.
THEOREM SealedIsBackedThm ==
    ASSUME ~Overtake
    PROVE  LedgerSpec => []SealedIsBacked
<1>1. LedgerInv => SealedIsBacked
  BY DEF LedgerInv, SealedHolds, SealedIsBacked, Verified
<1> QED BY <1>1, LedgerInvariance, PTL

\* One Case run never seals a name twice: a name stays with the transaction
\* whose commit record has it.
THEOREM OneSealPerNameThm ==
    ASSUME ~Overtake
    PROVE  LedgerSpec => []OneSealPerName
<1>1. LedgerInv => OneSealPerName
  <2> SUFFICES ASSUME LedgerInv, NEW t \in sealed, NEW u \in sealed, NEW n,
                      n \in commits[t], n \in commits[u]
               PROVE  t = u
    BY DEF OneSealPerName
  <2>1. names[n].tx = {t} /\ names[n].tx = {u}
    BY DEF LedgerInv, SealedHolds
  <2> QED BY <2>1
<1> QED BY <1>1, LedgerInvariance, PTL


-----------------------------------------------------------------------------
\* An update of a transaction's record is a record.
LEMMA TxEdits ==
    ASSUME NEW r \in TxRecord, NEW s \in TxStates, NEW A \in SUBSET Artifact
    PROVE  /\ [r EXCEPT !.state = s] \in TxRecord
           /\ [r EXCEPT !.state = s].refs = r.refs /\ [r EXCEPT !.state = s].state = s
           /\ [r EXCEPT !.state = s, !.prepared = TRUE] \in TxRecord
           /\ [r EXCEPT !.state = s, !.prepared = TRUE].refs = r.refs
           /\ [r EXCEPT !.state = s, !.prepared = TRUE].state = s
           /\ [r EXCEPT !.prepared = TRUE] \in TxRecord
           /\ [r EXCEPT !.prepared = TRUE].refs = r.refs
           /\ [r EXCEPT !.prepared = TRUE].state = r.state
           /\ [r EXCEPT !.refs = @ \cup A] \in TxRecord
           /\ [r EXCEPT !.refs = @ \cup A].refs = r.refs \cup A
           /\ [r EXCEPT !.refs = @ \cup A].state = r.state
           /\ [r EXCEPT !.taken = @ \cup A] \in TxRecord
           /\ [r EXCEPT !.taken = @ \cup A].refs = r.refs
           /\ [r EXCEPT !.taken = @ \cup A].state = r.state
BY DEF TxRecord

\* abort touches the one transaction and the names it reserved.
LEMMA AbortEffect ==
    ASSUME FinalizationTypes, NEW t \in TxId \cup {0}, AbortTx(t)
    PROVE  /\ tx' \in [TxId -> TxRecord] /\ holder' \in [Artifact -> TxId \cup {0}]
           /\ \A u \in TxId : u # t => tx'[u] = tx[u]
           /\ \A n \in Artifact : holder[n] # t => holder'[n] = holder[n]
<1> USE DEF FinalizationTypes, AbortTx, Aborted, Released
<1>1. tx' \in [TxId -> TxRecord] /\ \A u \in TxId : u # t => tx'[u] = tx[u]
  <2>1. CASE t # 0 /\ tx[t].state = "active"
    <3>1. t \in TxId /\ tx[t] \in TxRecord
      BY <2>1
    <3>2. [tx[t] EXCEPT !.state = "aborted"] \in TxRecord
      BY <3>1, TxEdits DEF TxStates
    <3> QED BY <2>1, <3>1, <3>2
  <2>2. CASE ~(t # 0 /\ tx[t].state = "active")
    BY <2>2
  <2> QED BY <2>1, <2>2
<1>2. /\ holder' \in [Artifact -> TxId \cup {0}]
      /\ \A n \in Artifact : holder[n] # t => holder'[n] = holder[n]
  BY DEF TxActive
<1> QED BY <1>1, <1>2

\* A thread that is inside a publish is so while the Case runs.
LEMMA ThreadRuns ==
    ASSUME FinalizationInv, NEW h \in Thread, Threading, thread[h].at # "idle"
    PROVE  phase = "run"
BY DEF FinalizationInv, IdleOutsideRun, Threading, Idle

\* A publish that raises spoils the run.
LEMMA RaiseKeeps ==
    ASSUME FinalizationInv, NEW h \in Thread, phase = "run", PublishRaises(h),
           UNCHANGED <<phase, verdict, control, beating, final, told, receipts, scheduler,
                       notified, report>>
    PROVE  FinalizationInv'
<1>1. thread[h].tx \in TxId \cup {0} /\ Idle \in ThreadRecord
  BY DEF FinalizationInv, FinalizationTypes, ThreadRecord, Idle, TxId
<1>2. /\ tx' \in [TxId -> TxRecord] /\ holder' \in [Artifact -> TxId \cup {0}]
      /\ raised' = TRUE /\ thread' = [thread EXCEPT ![h] = Idle]
  BY <1>1, AbortEffect DEF FinalizationInv, PublishRaises
<1>3. FinalizationTypes'
  BY <1>1, <1>2 DEF FinalizationInv, FinalizationTypes
<1>4. IdleOutsideRun' /\ Stages' /\ Spoiled'
  BY <1>2 DEF FinalizationInv, IdleOutsideRun, Stages, Spoiled
<1> QED BY <1>3, <1>4 DEF FinalizationInv

\* A step that fails the Case and gives up its transaction spoils the run.
LEMMA FailKeeps ==
    ASSUME FinalizationInv, AbortTx(final), Fails,
           phase \in {"join", "heartbeat", "seal"}, phase' \in {"heartbeat", "done"},
           scheduler' = FALSE, \A h \in Thread : thread[h] = Idle,
           UNCHANGED <<final, thread, raised, told, receipts, report>>
    PROVE  FinalizationInv'
<1>1. /\ tx' \in [TxId -> TxRecord] /\ holder' \in [Artifact -> TxId \cup {0}]
      /\ verdict' = "failed"
  BY AbortEffect DEF FinalizationInv, FinalizationTypes, Fails
<1>2. FinalizationTypes'
  BY <1>1 DEF FinalizationInv, FinalizationTypes
<1>3. IdleOutsideRun' /\ Stages' /\ Spoiled'
  BY <1>1 DEF FinalizationInv, IdleOutsideRun, Stages, Spoiled
<1> QED BY <1>2, <1>3 DEF FinalizationInv


-----------------------------------------------------------------------------
(* Publishing, step by step: what each one does to the shared transaction. *)

\* A thread begins to publish.
LEMMA BeginLookKeeps ==
    ASSUME Joined, FinalizationInv, NEW h \in Thread, NEW n \in Artifact, BeginLook(h, n)
    PROVE  FinalizationInv'
<1>1. /\ phase = "run" /\ UNCHANGED <<phase, verdict, tx, final, raised, told, holder,
                                      receipts, scheduler, report>>
      /\ \A g \in Thread : g # h => thread'[g] = thread[g]
      /\ thread' \in [Thread -> ThreadRecord]
      /\ \/ thread'[h].at = "create"
         \/ TxActive(final) /\ thread'[h].at = "publish" /\ thread'[h].tx = final
  BY DEF BeginLook, FinalizationInv, FinalizationTypes, ThreadRecord, Running, TxId
<1>2. FinalizationTypes'
  BY <1>1 DEF FinalizationInv, FinalizationTypes
<1>3. IdleOutsideRun' /\ Stages'
  BY <1>1 DEF FinalizationInv, IdleOutsideRun, Stages
<1>4. ~Spoiled' => OneTransaction'
  BY <1>1 DEF FinalizationInv, FinalizationTypes, Stages, Spoiled, OneTransaction,
         Running, TxActive
<1> QED BY <1>2, <1>3, <1>4 DEF FinalizationInv

\* A fresh transaction is nobody else's.
LEMMA BeginCreateKeeps ==
    ASSUME Joined, FinalizationInv, NEW h \in Thread, BeginCreate(h)
    PROVE  FinalizationInv'
<1>0. PICK t \in TxId :
         /\ tx[t].state = "none"
         /\ tx' = [tx EXCEPT ![t] = [NoTx EXCEPT !.state = "active"]]
         /\ thread' = [thread EXCEPT ![h] = [@ EXCEPT !.at = "recheck", !.tx = t]]
  BY DEF BeginCreate
<1>1. /\ phase = "run" /\ UNCHANGED <<phase, verdict, final, raised, told, holder,
                                      receipts, scheduler, report>>
  BY ThreadRuns DEF BeginCreate
<1>2. /\ \A g \in Thread : g # h => thread'[g] = thread[g]
      /\ thread' \in [Thread -> ThreadRecord]
      /\ thread'[h].at = "recheck" /\ thread'[h].tx = t
  BY <1>0 DEF FinalizationInv, FinalizationTypes, ThreadRecord
<1>3. /\ tx' \in [TxId -> TxRecord] /\ \A u \in TxId : u # t => tx'[u] = tx[u]
      /\ tx'[t].state = "active" /\ tx'[t].refs = {}
  BY <1>0 DEF FinalizationInv, FinalizationTypes, TxRecord, NoTx, TxStates
<1>4. FinalizationTypes'
  BY <1>1, <1>2, <1>3 DEF FinalizationInv, FinalizationTypes
<1>5. IdleOutsideRun' /\ Stages'
  BY <1>1, <1>2 DEF FinalizationInv, IdleOutsideRun, Stages
<1>6. ~Spoiled' => OneTransaction'
  <2> SUFFICES ASSUME ~Spoiled' PROVE OneTransaction'
    OBVIOUS
  <2>1. OneTransaction /\ receipts = {}
    BY <1>1 DEF FinalizationInv, Spoiled, Stages
  <2>2. t # final /\ (final # 0 => tx'[final] = tx[final])
    <3>1. t # 0
      BY FinalizationAssumption DEF TxId
    <3> QED BY <1>0, <1>3, <2>1, <3>1 DEF FinalizationInv, FinalizationTypes, OneTransaction
  <2>3. \A g \in Thread : g # h /\ thread[g].at = "recheck" =>
           thread[g].tx # t /\ tx'[thread[g].tx] = tx[thread[g].tx]
    BY <1>0, <1>3, <2>1 DEF OneTransaction
  <2> QED BY <1>1, <1>2, <1>3, <2>1, <2>2, <2>3 DEF OneTransaction, Running
<1> QED BY <1>4, <1>5, <1>6 DEF FinalizationInv

\* The second look leaves one shared transaction, which every thread uses.
LEMMA BeginRecheckKeeps ==
    ASSUME Joined, FinalizationInv, NEW h \in Thread, BeginRecheck(h)
    PROVE  FinalizationInv'
<1>1. /\ phase = "run" /\ UNCHANGED <<phase, verdict, raised, told, receipts, scheduler,
                                      report>>
      /\ thread[h].at = "recheck"
  BY ThreadRuns DEF BeginRecheck
<1>2. thread[h].tx \in TxId \cup {0}
  BY DEF FinalizationInv, FinalizationTypes, ThreadRecord
<1>3. CASE /\ TxActive(final) /\ AbortTx(thread[h].tx) /\ final' = final
           /\ thread' = [thread EXCEPT ![h] = [@ EXCEPT !.at = "publish", !.tx = final]]
  <2>1. /\ tx' \in [TxId -> TxRecord] /\ holder' \in [Artifact -> TxId \cup {0}]
        /\ \A u \in TxId : u # thread[h].tx => tx'[u] = tx[u]
        /\ \A n \in Artifact : holder[n] # thread[h].tx => holder'[n] = holder[n]
    BY <1>2, <1>3, AbortEffect DEF FinalizationInv
  <2>2. /\ \A g \in Thread : g # h => thread'[g] = thread[g]
        /\ thread' \in [Thread -> ThreadRecord]
        /\ thread'[h].at = "publish" /\ thread'[h].tx = final
    BY <1>3 DEF FinalizationInv, FinalizationTypes, ThreadRecord, Running
  <2>3. FinalizationTypes'
    BY <1>1, <1>3, <2>1, <2>2 DEF FinalizationInv, FinalizationTypes
  <2>4. IdleOutsideRun' /\ Stages'
    BY <1>1, <1>3, <2>2 DEF FinalizationInv, IdleOutsideRun, Stages
  <2>5. ~Spoiled' => OneTransaction'
    <3> SUFFICES ASSUME ~Spoiled' PROVE OneTransaction'
      OBVIOUS
    <3>1. OneTransaction /\ thread[h].tx # final /\ final # 0 /\ final \in TxId
      BY <1>1, <1>3 DEF FinalizationInv, FinalizationTypes, Spoiled, OneTransaction, TxActive
    <3>2. tx'[final] = tx[final]
          /\ \A n \in Artifact : holder[n] = final => holder'[n] = final
      BY <2>1, <3>1
    <3>3. \A g \in Thread : g # h /\ thread[g].at = "recheck" => tx'[thread[g].tx] = tx[thread[g].tx]
      BY <1>1, <2>1, <3>1 DEF OneTransaction
    <3>4. tx[final].refs \subseteq Artifact /\ receipts \subseteq Artifact
          /\ \A g \in Thread : thread[g].name \subseteq Artifact
      BY <3>1 DEF FinalizationInv, FinalizationTypes, TxRecord, ThreadRecord
    <3> QED BY <1>1, <1>3, <2>2, <3>1, <3>2, <3>3, <3>4 DEF OneTransaction, Running
  <2> QED BY <2>3, <2>4, <2>5 DEF FinalizationInv
<1>4. CASE /\ ~TxActive(final) /\ final' = thread[h].tx
           /\ thread' = [thread EXCEPT ![h].at = "publish"] /\ UNCHANGED <<tx, holder>>
  <2>1. /\ \A g \in Thread : g # h => thread'[g] = thread[g]
        /\ thread' \in [Thread -> ThreadRecord]
        /\ thread'[h].at = "publish" /\ thread'[h].tx = thread[h].tx
    BY <1>4 DEF FinalizationInv, FinalizationTypes, ThreadRecord, Running
  <2>2. FinalizationTypes'
    BY <1>1, <1>2, <1>4, <2>1 DEF FinalizationInv, FinalizationTypes
  <2>3. IdleOutsideRun' /\ Stages'
    BY <1>1, <1>4, <2>1 DEF FinalizationInv, IdleOutsideRun, Stages
  <2>4. ~Spoiled' => OneTransaction'
    <3> SUFFICES ASSUME ~Spoiled' PROVE OneTransaction'
      OBVIOUS
    <3>1. OneTransaction
      BY <1>1 DEF FinalizationInv, Spoiled
    <3>2. final = 0 /\ receipts = {}
      BY <1>1, <1>4, <3>1 DEF OneTransaction, TxActive, FinalizationInv, Stages
    <3>3. thread[h].tx # 0
      BY <1>1, <3>1, FinalizationAssumption DEF OneTransaction, TxId
    <3> QED BY <1>1, <1>4, <2>1, <3>1, <3>2, <3>3 DEF OneTransaction, Running
  <2> QED BY <2>2, <2>3, <2>4 DEF FinalizationInv
<1> QED BY <1>3, <1>4 DEF BeginRecheck

\* publish looks at the transaction before it takes the lock.
LEMMA PublishLookKeeps ==
    ASSUME Joined, FinalizationInv, NEW h \in Thread, PublishLook(h)
    PROVE  FinalizationInv'
<1>1. /\ phase = "run" /\ UNCHANGED <<phase, verdict, control, beating, final, told, receipts,
                                      scheduler, notified, report>>
      /\ thread[h].at = "publish"
  BY ThreadRuns DEF PublishLook
<1>2. CASE PublishRaises(h)
  BY <1>1, <1>2, RaiseKeeps
<1>3. CASE thread' = [thread EXCEPT ![h].at = "reserve"] /\ UNCHANGED <<tx, holder, raised>>
  <2>1. /\ \A g \in Thread : g # h => thread'[g] = thread[g]
        /\ thread' \in [Thread -> ThreadRecord]
        /\ thread'[h].at = "reserve" /\ thread'[h].tx = thread[h].tx
    BY <1>3 DEF FinalizationInv, FinalizationTypes, ThreadRecord, Running
  <2>2. FinalizationTypes'
    BY <1>1, <1>3, <2>1 DEF FinalizationInv, FinalizationTypes
  <2>3. IdleOutsideRun' /\ Stages'
    BY <1>1, <1>3, <2>1 DEF FinalizationInv, IdleOutsideRun, Stages
  <2>4. ~Spoiled' => OneTransaction'
    BY <1>1, <1>3, <2>1 DEF FinalizationInv, FinalizationTypes, Stages, Spoiled, OneTransaction,
         Running
  <2> QED BY <2>2, <2>3, <2>4 DEF FinalizationInv
<1> QED BY <1>2, <1>3 DEF PublishLook

\* A name that is reserved was free.
LEMMA PublishReserveKeeps ==
    ASSUME Joined, FinalizationInv, NEW h \in Thread, PublishReserve(h)
    PROVE  FinalizationInv'
<1>0. PICK t : t = thread[h].tx
  OBVIOUS
<1>1. /\ phase = "run" /\ UNCHANGED <<phase, verdict, control, beating, final, told, receipts,
                                      scheduler, notified, report>>
      /\ thread[h].at = "reserve"
  BY ThreadRuns DEF PublishReserve
<1>2. CASE PublishRaises(h)
  BY <1>1, <1>2, RaiseKeeps
<1>3. CASE /\ \A n \in thread[h].name : n \notin tx[t].taken /\ holder[n] = 0
           /\ tx' = [tx EXCEPT ![t].taken = @ \cup thread[h].name]
           /\ holder' = [n \in Artifact |-> IF n \in thread[h].name THEN t ELSE holder[n]]
           /\ thread' = [thread EXCEPT ![h].at = "write"]
           /\ UNCHANGED raised
  <2>1. /\ \A g \in Thread : g # h => thread'[g] = thread[g]
        /\ thread' \in [Thread -> ThreadRecord]
        /\ thread'[h].at = "write" /\ thread'[h].tx = t /\ thread'[h].name = thread[h].name
    BY <1>0, <1>3 DEF FinalizationInv, FinalizationTypes, ThreadRecord, Running
  <2>2. /\ tx' \in [TxId -> TxRecord]
        /\ \A u \in TxId : tx'[u].state = tx[u].state /\ tx'[u].refs = tx[u].refs
    <3>1. \A u \in TxId : tx[u] \in TxRecord
      BY DEF FinalizationInv, FinalizationTypes
    <3>2. thread[h].name \in SUBSET Artifact
      BY DEF FinalizationInv, FinalizationTypes, ThreadRecord
    <3>3. DOMAIN tx = TxId /\ tx = [u \in TxId |-> tx[u]]
      BY DEF FinalizationInv, FinalizationTypes
    <3>4. CASE t \in TxId
      <4>1. PICK r : r = [tx[t] EXCEPT !.taken = @ \cup thread[h].name]
        OBVIOUS
      <4>2. r \in TxRecord /\ r.state = tx[t].state /\ r.refs = tx[t].refs
        <5>1. "none" \in TxStates
          BY DEF TxStates
        <5> QED BY <3>1, <3>2, <3>4, <4>1, <5>1, TxEdits
      <4>3. tx' = [tx EXCEPT ![t] = r]
        BY <1>3, <4>1
      <4> QED BY <3>1, <3>3, <4>2, <4>3
    <3>5. CASE t \notin TxId
      <4>1. tx' = tx
        BY <1>3, <3>3, <3>5
      <4> QED BY <3>1, <3>3, <4>1
    <3> QED BY <3>4, <3>5
  <2>3. /\ holder' \in [Artifact -> TxId \cup {0}]
        /\ \A n \in Artifact : holder[n] # 0 => holder'[n] = holder[n]
        /\ \A n \in thread[h].name : n \in Artifact /\ holder'[n] = t
    BY <1>0, <1>3 DEF FinalizationInv, FinalizationTypes, ThreadRecord
  <2>4. FinalizationTypes'
    BY <1>1, <1>3, <2>1, <2>2, <2>3 DEF FinalizationInv, FinalizationTypes
  <2>5. IdleOutsideRun' /\ Stages'
    BY <1>1, <1>3, <2>1 DEF FinalizationInv, IdleOutsideRun, Stages
  <2>6. ~Spoiled' => OneTransaction'
    <3> SUFFICES ASSUME ~Spoiled' PROVE OneTransaction'
      OBVIOUS
    <3>1. OneTransaction /\ t = final /\ final # 0 /\ final \in TxId /\ receipts = {}
      BY <1>0, <1>1, <1>3 DEF FinalizationInv, FinalizationTypes, Stages, Spoiled,
                              OneTransaction, Running
    <3>2. \A n \in Artifact : holder[n] = final => holder'[n] = final
      BY <2>3, <3>1
    <3>3. tx[final].refs \subseteq Artifact
          /\ \A g \in Thread : thread[g].name \subseteq Artifact
      BY <3>1 DEF FinalizationInv, FinalizationTypes, TxRecord, ThreadRecord
    <3>4. tx'[final].state = tx[final].state /\ tx'[final].refs = tx[final].refs
      BY <2>2, <3>1
    <3>5. \A g \in Thread : thread[g].at = "recheck" =>
             g # h /\ tx'[thread[g].tx].state = tx[thread[g].tx].state
                   /\ tx'[thread[g].tx].refs = tx[thread[g].tx].refs
      BY <1>1, <2>2, <3>1 DEF OneTransaction
    <3>6. \A g \in Thread : thread'[g].at \in {"write", "stage"} =>
             \A n \in thread'[g].name : holder'[n] = final
      BY <2>1, <2>3, <3>1, <3>2, <3>3 DEF OneTransaction
    <3>7. \A g \in Thread : thread'[g].at \in Running => thread'[g].tx = final
      BY <2>1, <3>1 DEF OneTransaction
    <3>8. \A g \in Thread : thread'[g].at = "recheck" => g # h /\ thread'[g] = thread[g]
      BY <2>1
    <3>9. /\ \A n \in tx'[final].refs : holder'[n] = final
          /\ tx'[final].state = "active"
      BY <1>1, <3>1, <3>2, <3>3, <3>4 DEF OneTransaction
    <3> QED BY <1>1, <3>1, <3>4, <3>5, <3>6, <3>7, <3>8, <3>9 DEF OneTransaction
  <2> QED BY <2>4, <2>5, <2>6 DEF FinalizationInv
<1> QED BY <1>0, <1>2, <1>3 DEF PublishReserve

\* The bytes are stored under a reservation that still holds.
LEMMA PublishWriteKeeps ==
    ASSUME Joined, FinalizationInv, NEW h \in Thread, PublishWrite(h)
    PROVE  FinalizationInv'
<1>1. /\ phase = "run" /\ UNCHANGED <<phase, verdict, control, beating, final, told, receipts,
                                      scheduler, notified, report>>
      /\ thread[h].at = "write"
  BY ThreadRuns DEF PublishWrite
<1>2. CASE PublishRaises(h)
  BY <1>1, <1>2, RaiseKeeps
<1>3. CASE thread' = [thread EXCEPT ![h].at = "stage"] /\ UNCHANGED <<tx, holder, raised>>
  <2>1. /\ \A g \in Thread : g # h => thread'[g] = thread[g]
        /\ thread' \in [Thread -> ThreadRecord]
        /\ thread'[h].at = "stage" /\ thread'[h].tx = thread[h].tx
        /\ thread'[h].name = thread[h].name
    BY <1>3 DEF FinalizationInv, FinalizationTypes, ThreadRecord, Running
  <2>2. FinalizationTypes'
    BY <1>1, <1>3, <2>1 DEF FinalizationInv, FinalizationTypes
  <2>3. IdleOutsideRun' /\ Stages'
    BY <1>1, <1>3, <2>1 DEF FinalizationInv, IdleOutsideRun, Stages
  <2>4. ~Spoiled' => OneTransaction'
    BY <1>1, <1>3, <2>1 DEF FinalizationInv, FinalizationTypes, Stages, Spoiled, OneTransaction,
         Running
  <2> QED BY <2>2, <2>3, <2>4 DEF FinalizationInv
<1> QED BY <1>2, <1>3 DEF PublishWrite

\* The Case is told of a ref when the shared transaction has it.
LEMMA PublishStageKeeps ==
    ASSUME Joined, FinalizationInv, NEW h \in Thread, PublishStage(h)
    PROVE  FinalizationInv'
<1>0. PICK t : t = thread[h].tx
  OBVIOUS
<1>1. /\ phase = "run" /\ UNCHANGED <<phase, verdict, control, beating, final, receipts,
                                      scheduler, notified, report>>
      /\ thread[h].at = "stage"
  BY ThreadRuns DEF PublishStage
<1>2. CASE PublishRaises(h) /\ UNCHANGED told
  BY <1>1, <1>2, RaiseKeeps
<1>3. CASE /\ tx' = [tx EXCEPT ![t].refs = @ \cup thread[h].name]
           /\ told' = told \cup thread[h].name
           /\ thread' = [thread EXCEPT ![h] = Idle] /\ UNCHANGED <<holder, raised>>
  <2>1. /\ \A g \in Thread : g # h => thread'[g] = thread[g]
        /\ thread' \in [Thread -> ThreadRecord] /\ thread'[h].at = "idle"
    BY <1>3 DEF FinalizationInv, FinalizationTypes, ThreadRecord, Idle, TxId
  <2>2. thread[h].name \in SUBSET Artifact /\ told' \in SUBSET Artifact
    BY <1>3 DEF FinalizationInv, FinalizationTypes, ThreadRecord
  <2>3. /\ tx' \in [TxId -> TxRecord]
        /\ \A u \in TxId : tx'[u].state = tx[u].state
        /\ \A u \in TxId : u # t => tx'[u].refs = tx[u].refs
        /\ t \in TxId => tx'[t].refs = tx[t].refs \cup thread[h].name
    <3>1. \A u \in TxId : tx[u] \in TxRecord
      BY DEF FinalizationInv, FinalizationTypes
    <3>3. DOMAIN tx = TxId /\ tx = [u \in TxId |-> tx[u]]
      BY DEF FinalizationInv, FinalizationTypes
    <3>4. CASE t \in TxId
      <4>1. PICK r : r = [tx[t] EXCEPT !.refs = @ \cup thread[h].name]
        OBVIOUS
      <4>2. r \in TxRecord /\ r.state = tx[t].state /\ r.refs = tx[t].refs \cup thread[h].name
        <5>1. tx[t] \in TxRecord
          BY <3>1, <3>4
        <5> QED BY <2>2, <4>1, <5>1 DEF TxRecord
      <4>3. tx' = [tx EXCEPT ![t] = r]
        BY <1>3, <4>1
      <4> QED BY <3>1, <3>3, <4>2, <4>3
    <3>5. CASE t \notin TxId
      <4>1. tx' = tx
        BY <1>3, <3>3, <3>5
      <4> QED BY <3>1, <3>3, <3>5, <4>1
    <3> QED BY <3>4, <3>5
  <2>4. FinalizationTypes'
    BY <1>1, <1>3, <2>1, <2>2, <2>3 DEF FinalizationInv, FinalizationTypes
  <2>5. IdleOutsideRun' /\ Stages'
    BY <1>1, <1>3, <2>1 DEF FinalizationInv, IdleOutsideRun, Stages
  <2>6. ~Spoiled' => OneTransaction'
    <3> SUFFICES ASSUME ~Spoiled' PROVE OneTransaction'
      OBVIOUS
    <3>1. /\ OneTransaction /\ t = final /\ final # 0 /\ final \in TxId /\ receipts = {}
          /\ \A n \in thread[h].name : holder[n] = final
      BY <1>0, <1>1, <1>3 DEF FinalizationInv, FinalizationTypes, Stages, Spoiled,
                              OneTransaction, Running
    <3> QED BY <1>1, <1>3, <2>1, <2>3, <3>1 DEF OneTransaction, Running
  <2> QED BY <2>4, <2>5, <2>6 DEF FinalizationInv
<1> QED BY <1>0, <1>2, <1>3 DEF PublishStage

-----------------------------------------------------------------------------
(* execute and its supervisor.                                             *)

\* The refs are frozen.
LEMMA PrepareTxKeeps ==
    ASSUME Joined, FinalizationInv, PrepareTx
    PROVE  FinalizationInv'
<1>1. /\ phase = "run" /\ UNCHANGED <<phase, verdict, final, thread, raised, told, holder,
                                      receipts, scheduler, report>>
      /\ tx' = [tx EXCEPT ![final].prepared = TRUE] /\ final \in TxId
  BY DEF PrepareTx, TxActive, FinalizationInv, FinalizationTypes
<1>2. /\ tx' \in [TxId -> TxRecord]
      /\ \A u \in TxId : tx'[u].state = tx[u].state /\ tx'[u].refs = tx[u].refs
  BY <1>1 DEF FinalizationInv, FinalizationTypes, TxRecord
<1>3. FinalizationTypes'
  BY <1>1, <1>2 DEF FinalizationInv, FinalizationTypes
<1>4. IdleOutsideRun' /\ Stages'
  BY <1>1 DEF FinalizationInv, IdleOutsideRun, Stages
<1>5. ~Spoiled' => OneTransaction'
  BY <1>1, <1>2 DEF FinalizationInv, FinalizationTypes, Stages, Spoiled, OneTransaction,
         Running
<1> QED BY <1>3, <1>4, <1>5 DEF FinalizationInv

\* The steps of execute that touch no transaction.
LEMMA ExecuteKeeps ==
    ASSUME Joined, FinalizationInv, StartCase \/ RunCase \/ SerializeOutput \/ Observe
    PROVE  FinalizationInv'
<1> USE DEF StartCase, RunCase, SerializeOutput, Observe, Fails, FinalizationInv
<1>1. FinalizationTypes'
  BY DEF FinalizationTypes
<1>2. IdleOutsideRun' /\ Stages'
  BY DEF FinalizationTypes, IdleOutsideRun, Stages
<1>3. ~Spoiled' => OneTransaction'
  BY DEF FinalizationTypes, IdleOutsideRun, Stages, Spoiled, OneTransaction, Running, Idle
<1> QED BY <1>1, <1>2, <1>3

\* The result is delivered, or the process ends without one.
LEMMA SupervisorKeeps ==
    ASSUME FinalizationInv, Deliver \/ Terminate \/ WorkerDies \/ Signal \/ HeartbeatLost
    PROVE  FinalizationInv'
<1> USE DEF Deliver, Terminate, WorkerDies, Signal, HeartbeatLost, FinalizationInv
<1>1. FinalizationTypes'
  BY DEF FinalizationTypes
<1>2. IdleOutsideRun' /\ Stages'
  BY DEF FinalizationTypes, IdleOutsideRun, Stages
<1>3. ~Spoiled' => OneTransaction'
  BY DEF FinalizationTypes, Stages, Spoiled, OneTransaction, Running
<1> QED BY <1>1, <1>2, <1>3

\* close keeps the shared transaction of a success.
LEMMA CloseRuntimeKeeps ==
    ASSUME FinalizationInv, CloseRuntime
    PROVE  FinalizationInv'
<1>0. PICK doomed : doomed = {t \in TxId : tx[t].state = "active" /\ ~(verdict = "ok" /\ t = final)}
  OBVIOUS
<1>1. /\ phase = "close" /\ phase' = "join"
      /\ UNCHANGED <<verdict, final, thread, raised, told, receipts, scheduler, report>>
      /\ tx' = [t \in TxId |-> IF t \in doomed THEN [tx[t] EXCEPT !.state = "aborted"] ELSE tx[t]]
      /\ holder' = [n \in Artifact |-> IF holder[n] \in doomed THEN 0 ELSE holder[n]]
  BY <1>0 DEF CloseRuntime
<1>2. tx' \in [TxId -> TxRecord]
  <2>1. \A t \in TxId : tx[t] \in TxRecord /\ [tx[t] EXCEPT !.state = "aborted"] \in TxRecord
    BY TxEdits DEF FinalizationInv, FinalizationTypes, TxStates
  <2> QED BY <1>1, <2>1
<1>3. FinalizationTypes'
  BY <1>1, <1>2 DEF FinalizationInv, FinalizationTypes
<1>4. IdleOutsideRun' /\ Stages'
  BY <1>1 DEF FinalizationInv, IdleOutsideRun, Stages
<1>5. ~Spoiled' => OneTransaction'
  <2> SUFFICES ASSUME ~Spoiled' PROVE OneTransaction'
    OBVIOUS
  <2>1. OneTransaction /\ receipts = {} /\ \A h \in Thread : thread[h] = Idle
    BY <1>1 DEF FinalizationInv, Spoiled, Stages, IdleOutsideRun
  <2>2. CASE verdict = "ok"
    <3>1. final # 0 => final \in TxId /\ tx'[final] = tx[final]
      BY <1>0, <1>1, <2>2 DEF FinalizationInv, FinalizationTypes
    <3>2. \A n \in Artifact : holder[n] = final /\ final # 0 => holder'[n] = final
      BY <1>0, <1>1, <2>2
    <3>3. final # 0 => tx[final].refs \subseteq Artifact
      BY DEF FinalizationInv, FinalizationTypes, TxRecord
    <3>4. final # 0 => /\ tx'[final].state = "active"
                       /\ \A n \in tx'[final].refs : holder'[n] = final
      BY <1>1, <2>1, <3>1, <3>2, <3>3 DEF OneTransaction
    <3>5. \A n \in told : final # 0 /\ n \in tx'[final].refs
      BY <2>1, <3>1 DEF OneTransaction
    <3> QED BY <1>1, <2>1, <3>4, <3>5 DEF OneTransaction, Running, Idle
  <2>3. CASE verdict # "ok"
    <3>1. verdict = "failed"
      BY <1>1, <2>3 DEF FinalizationInv, FinalizationTypes, Stages
    <3> QED BY <1>1, <3>1 DEF Spoiled
  <2> QED BY <2>2, <2>3
<1> QED BY <1>3, <1>4, <1>5 DEF FinalizationInv

\* The stage threads have ended.
LEMMA JoinThreadsKeeps ==
    ASSUME FinalizationInv, JoinThreads
    PROVE  FinalizationInv'
<1>1. CASE Fails /\ AbortTx(final)
  BY <1>1, FailKeeps DEF JoinThreads
<1>2. CASE verdict = "ok" /\ UNCHANGED <<verdict, tx, holder>>
  <2> USE <1>2 DEF JoinThreads, FinalizationInv
  <2>1. FinalizationTypes'
    BY DEF FinalizationTypes
  <2>2. IdleOutsideRun' /\ Stages'
    BY DEF FinalizationTypes, IdleOutsideRun, Stages
  <2>3. ~Spoiled' => OneTransaction'
    BY DEF FinalizationTypes, Stages, Spoiled, OneTransaction, Running, Idle
  <2> QED BY <2>1, <2>2, <2>3
<1> QED BY <1>1, <1>2 DEF JoinThreads

\* A lost heartbeat fails the Case.
LEMMA CheckHeartbeatKeeps ==
    ASSUME FinalizationInv, CheckHeartbeat
    PROVE  FinalizationInv'
<1>1. ~scheduler /\ scheduler' = FALSE /\ \A h \in Thread : thread[h] = Idle
  BY DEF CheckHeartbeat, FinalizationInv, FinalizationTypes, Stages, IdleOutsideRun
<1>2. CASE ~beating /\ phase' = "done" /\ Fails /\ AbortTx(final)
  BY <1>1, <1>2, FailKeeps DEF CheckHeartbeat
<1>3. CASE /\ phase' = (IF verdict = "ok" THEN "seal" ELSE "done")
           /\ UNCHANGED <<verdict, tx, holder>>
  <2> USE <1>3 DEF CheckHeartbeat, FinalizationInv
  <2>1. FinalizationTypes'
    BY DEF FinalizationTypes
  <2>2. IdleOutsideRun' /\ Stages'
    BY <1>1 DEF FinalizationTypes, IdleOutsideRun, Stages
  <2>3. ~Spoiled' => OneTransaction'
    BY DEF FinalizationTypes, Stages, Spoiled, OneTransaction, Running, Idle
  <2> QED BY <2>1, <2>2, <2>3
<1> QED BY <1>2, <1>3 DEF CheckHeartbeat

\* The seal covers every ref the Case was told of.
LEMMA SealCaseKeeps ==
    ASSUME FinalizationInv, SealCase
    PROVE  FinalizationInv'
<1>1. /\ ~scheduler /\ scheduler' = FALSE /\ \A h \in Thread : thread[h] = Idle
      /\ phase = "seal" /\ verdict = "ok" /\ receipts = {} /\ ~raised /\ OneTransaction
      /\ UNCHANGED <<final, thread, raised, told, scheduler, report>>
  BY DEF SealCase, FinalizationInv, FinalizationTypes, Stages, IdleOutsideRun, Spoiled
<1>2. CASE AbortTx(final) /\ Fails /\ phase' = "done" /\ UNCHANGED receipts
  BY <1>1, <1>2, FailKeeps
<1>3. CASE CommitFinalization /\ phase' = "observe" /\ UNCHANGED verdict
  <2>0. holder' = holder
    BY <1>3 DEF CommitFinalization
  <2>1. CASE TxActive(final)
    <3>1. final \in TxId /\ tx[final] \in TxRecord
      BY <2>1 DEF TxActive, FinalizationInv, FinalizationTypes
    <3>2. PICK r : r = [tx[final] EXCEPT !.state = "sealed", !.prepared = TRUE]
      OBVIOUS
    <3>3. r \in TxRecord /\ r.refs = tx[final].refs /\ r.state = "sealed"
      BY <3>1, <3>2, TxEdits DEF TxStates
    <3>4. tx' = [tx EXCEPT ![final] = r] /\ receipts' = tx[final].refs
      BY <1>3, <2>1, <3>2 DEF CommitFinalization, SealTx
    <3>5. /\ tx' \in [TxId -> TxRecord] /\ tx'[final] = r
          /\ receipts' \in SUBSET Artifact
      BY <3>1, <3>3, <3>4 DEF FinalizationInv, FinalizationTypes, TxRecord
    <3>6. FinalizationTypes'
      BY <1>1, <1>3, <2>0, <3>5 DEF FinalizationInv, FinalizationTypes
    <3>7. IdleOutsideRun' /\ Stages'
      BY <1>1, <1>3 DEF FinalizationInv, FinalizationTypes, IdleOutsideRun, Stages
    <3>8. OneTransaction'
      BY <1>1, <1>3, <2>0, <2>1, <3>1, <3>3, <3>4, <3>5 DEF OneTransaction, Running, Idle, TxActive
    <3> QED BY <3>6, <3>7, <3>8 DEF FinalizationInv
  <2>2. CASE ~TxActive(final)
    <3>1. UNCHANGED <<tx, receipts>>
      BY <1>3, <2>2 DEF CommitFinalization
    <3>2. final = 0 /\ told = {}
      BY <1>1, <2>2 DEF OneTransaction, TxActive
    <3>3. FinalizationTypes'
      BY <1>1, <1>3, <2>0, <3>1 DEF FinalizationInv, FinalizationTypes
    <3>4. IdleOutsideRun' /\ Stages'
      BY <1>1, <1>3, <3>1 DEF FinalizationInv, FinalizationTypes, IdleOutsideRun, Stages
    <3>5. OneTransaction'
      BY <1>1, <1>3, <2>0, <3>1, <3>2 DEF OneTransaction, Running, Idle
    <3> QED BY <3>3, <3>4, <3>5 DEF FinalizationInv
  <2> QED BY <2>1, <2>2
<1> QED BY <1>2, <1>3 DEF SealCase

\* FinalizationInv is an inductive invariant of a Case that waits for its
\* threads and passes on their errors.
THEOREM FinalizationInvariance ==
    ASSUME Joined
    PROVE  FinalizationSpec => []FinalizationInv
<1>1. FinalizationInit => FinalizationInv
  <2> SUFFICES ASSUME FinalizationInit PROVE FinalizationInv
    OBVIOUS
  <2>1. NoTx \in TxRecord /\ Idle \in ThreadRecord
    BY DEF NoTx, TxRecord, TxStates, Idle, ThreadRecord
  <2>2. FinalizationTypes
    BY <2>1 DEF FinalizationInit, FinalizationTypes
  <2> QED BY <2>2 DEF FinalizationInit, FinalizationInv, IdleOutsideRun, Stages,
                      OneTransaction, Running, Idle
<1>2. FinalizationInv /\ [FinalizationNext]_finalizationVars => FinalizationInv'
  <2> SUFFICES ASSUME FinalizationInv, [FinalizationNext]_finalizationVars
               PROVE  FinalizationInv'
    OBVIOUS
  <2>1. CASE UNCHANGED finalizationVars
    BY <2>1 DEF finalizationVars, FinalizationInv, FinalizationTypes, IdleOutsideRun, Stages,
                Spoiled, OneTransaction
  <2>2. ASSUME NEW h \in Thread,
               \/ \E n \in Artifact : BeginLook(h, n)
               \/ BeginCreate(h) \/ BeginRecheck(h) \/ PublishLook(h)
        PROVE  FinalizationInv'
    BY <2>2, BeginLookKeeps, BeginCreateKeeps, BeginRecheckKeeps, PublishLookKeeps
  <2>3. ASSUME NEW h \in Thread, PublishReserve(h) \/ PublishWrite(h) \/ PublishStage(h)
        PROVE  FinalizationInv'
    BY <2>3, PublishReserveKeeps, PublishWriteKeeps, PublishStageKeeps
  <2>4. CASE StartCase \/ RunCase \/ SerializeOutput \/ Observe
    BY <2>4, ExecuteKeeps
  <2>5. CASE PrepareTx \/ CloseRuntime \/ JoinThreads \/ CheckHeartbeat \/ SealCase
    BY <2>5, PrepareTxKeeps, CloseRuntimeKeeps, JoinThreadsKeeps, CheckHeartbeatKeeps,
       SealCaseKeeps
  <2>6. CASE Deliver \/ Terminate \/ WorkerDies \/ Signal \/ HeartbeatLost
    BY <2>6, SupervisorKeeps
  <2> QED BY <2>1, <2>2, <2>3, <2>4, <2>5, <2>6 DEF FinalizationNext
<1> QED BY <1>1, <1>2, PTL DEF FinalizationSpec

\* For any number of threads, artifacts and transactions, a Case that reports
\* success has a receipt for every artifact it was told of, and a receipt
\* exists only after the threads have ended and the runtime is closed.
THEOREM SuccessIsCompleteThm ==
    ASSUME Joined
    PROVE  FinalizationSpec => []SuccessIsComplete
<1>1. FinalizationInv => SuccessIsComplete
  <2> SUFFICES ASSUME FinalizationInv PROVE SuccessIsComplete
    OBVIOUS
  <2>1. report = "ok" => told \subseteq receipts
    BY DEF FinalizationInv, Stages, Spoiled, OneTransaction
  <2>2. receipts # {} => /\ verdict = "ok" /\ ~scheduler /\ OneTransaction
                         /\ \A h \in Thread : thread[h] = Idle
    BY DEF FinalizationInv, Stages, Spoiled
  <2> QED BY <2>1, <2>2 DEF SuccessIsComplete, OneTransaction
<1> QED BY <1>1, FinalizationInvariance, PTL

=============================================================================
