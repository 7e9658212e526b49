-------------------------- MODULE CaseFinalization --------------------------
(***************************************************************************)
(* One Case run: CaseExecutor.execute, the CaseRuntimeContext it gives the *)
(* Case, the publication transactions that the Case's threads share, and   *)
(* the supervisor that may terminate the process.                          *)
(*                                                                         *)
(* publish_artifact, begin_finalization_transaction and abort are split    *)
(* where they give up the artifact lock. The ledger (ArtifactLedger) is    *)
(* reduced to who reserved a name and what is sealed.                      *)
(***************************************************************************)
EXTENDS Integers, FiniteSets

CONSTANTS
    Thread,       \* stage threads of the Case, its main thread among them
    Artifact,     \* names they publish under
    MaxTx,        \* bound: transactions created
    Joined        \* does the Case wait for its threads and pass on their errors?

ASSUME FinalizationAssumption == MaxTx \in Nat \ {0} /\ Joined \in BOOLEAN

VARIABLES
    phase,       \* where execute() is
    verdict,     \* "none", "ok" or "failed": the pending result
    control,     \* the Case's control has been cancelled or its deadline passed
    beating,     \* the control heartbeat still holds its row
    tx,          \* [TxId -> transaction]
    final,       \* _finalization_transaction, or 0
    thread,      \* [Thread -> [at, tx, name]]
    raised,      \* a publish raised inside the Case
    told,        \* names whose publish returned a ref to the Case
    holder,      \* [Artifact -> transaction that reserved the name, or 0]
    receipts,    \* names of the ledger's commit record
    scheduler,   \* the stage scheduler is open
    notified,    \* observers have been notified
    report       \* what the supervisor answers

finalizationVars == <<phase, verdict, control, beating, tx, final, thread, raised, told,
                      holder, receipts, scheduler, notified, report>>

TxId == 1..MaxTx
NoTx == [state |-> "none", prepared |-> FALSE, refs |-> {}, taken |-> {}]
Idle == [at |-> "idle", tx |-> 0, name |-> {}]
TxActive(t) == t # 0 /\ tx[t].state = "active"

FinalizationInit ==
    /\ phase = "control" /\ verdict = "none"
    /\ control = FALSE /\ beating = TRUE
    /\ tx = [t \in TxId |-> NoTx] /\ final = 0
    /\ thread = [h \in Thread |-> Idle]
    /\ raised = FALSE /\ told = {}
    /\ holder = [n \in Artifact |-> 0] /\ receipts = {}
    /\ scheduler = TRUE /\ notified = FALSE
    /\ report = "none"

Threading == scheduler /\ phase \in {"run", "serialize", "close", "join"}

-----------------------------------------------------------------------------
(* Transactions.                                                           *)

\* abort: idempotent; the names reserved so far are released in the ledger.
Aborted(T, t) ==
    IF t # 0 /\ T[t].state = "active" THEN [T EXCEPT ![t].state = "aborted"] ELSE T

Released(t) ==
    IF TxActive(t) THEN [n \in Artifact |-> IF holder[n] = t THEN 0 ELSE holder[n]]
    ELSE holder

AbortTx(t) == tx' = Aborted(tx, t) /\ holder' = Released(t)

\* begin_finalization_transaction, first look: the shared transaction, an
\* error once it is committed, or a new one.
BeginLook(h, n) ==
    /\ Threading /\ thread[h] = Idle /\ (Joined => phase = "run")
    /\ receipts = {}
    /\ thread' = [thread EXCEPT ![h] =
                     [at |-> IF TxActive(final) THEN "publish" ELSE "create",
                      tx |-> IF TxActive(final) THEN final ELSE 0, name |-> {n}]]
    /\ UNCHANGED <<phase, verdict, control, beating, tx, final, raised, told, holder,
                   receipts, scheduler, notified, report>>

BeginCreate(h) ==
    /\ Threading /\ thread[h].at = "create"
    /\ \E t \in TxId :
          /\ tx[t].state = "none" /\ \A u \in 1..(t - 1) : tx[u].state # "none"
          /\ tx' = [tx EXCEPT ![t] = [NoTx EXCEPT !.state = "active"]]
          /\ thread' = [thread EXCEPT ![h] = [@ EXCEPT !.at = "recheck", !.tx = t]]
    /\ UNCHANGED <<phase, verdict, control, beating, final, raised, told, holder, receipts,
                   scheduler, notified, report>>

\* Mutant: the second look is left out; the last one in wins.
BeginRecheckBlind(h) ==
    /\ Threading /\ thread[h].at = "recheck"
    /\ final' = thread[h].tx
    /\ thread' = [thread EXCEPT ![h].at = "publish"]
    /\ UNCHANGED <<phase, verdict, control, beating, tx, raised, told, holder, receipts,
                   scheduler, notified, report>>

\* Second look: another thread was first and this transaction is superseded.
BeginRecheck(h) ==
    /\ Threading /\ thread[h].at = "recheck"
    /\ \/ /\ TxActive(final)
          /\ AbortTx(thread[h].tx)
          /\ thread' = [thread EXCEPT ![h] = [@ EXCEPT !.at = "publish", !.tx = final]]
          /\ UNCHANGED final
       \/ /\ ~TxActive(final)
          /\ final' = thread[h].tx
          /\ thread' = [thread EXCEPT ![h].at = "publish"]
          /\ UNCHANGED <<tx, holder>>
    /\ UNCHANGED <<phase, verdict, control, beating, raised, told, receipts, scheduler,
                   notified, report>>

\* A publish that raises aborts the transaction every thread shares.
PublishRaises(h) ==
    /\ AbortTx(thread[h].tx)
    /\ thread' = [thread EXCEPT ![h] = Idle]
    /\ raised' = TRUE

\* publish: closed or prepared transactions refuse before the lock is taken.
PublishLook(h) ==
    /\ Threading /\ thread[h].at = "publish"
    /\ \/ /\ TxActive(thread[h].tx) /\ ~tx[thread[h].tx].prepared
          /\ thread' = [thread EXCEPT ![h].at = "reserve"]
          /\ UNCHANGED <<tx, holder, raised>>
       \/ /\ ~TxActive(thread[h].tx) \/ tx[thread[h].tx].prepared
          /\ PublishRaises(h)
    /\ UNCHANGED <<phase, verdict, control, beating, final, told, receipts, scheduler,
                   notified, report>>

\* Under the lock: the name is new here and free in the ledger.
PublishReserve(h) ==
    LET t == thread[h].tx
        free == \A n \in thread[h].name : n \notin tx[t].taken /\ holder[n] = 0
    IN  /\ Threading /\ thread[h].at = "reserve"
        /\ \/ /\ free
              /\ tx' = [tx EXCEPT ![t].taken = @ \cup thread[h].name]
              /\ holder' = [n \in Artifact |-> IF n \in thread[h].name THEN t ELSE holder[n]]
              /\ thread' = [thread EXCEPT ![h].at = "write"]
              /\ UNCHANGED raised
           \/ ~free /\ PublishRaises(h)
        /\ UNCHANGED <<phase, verdict, control, beating, final, told, receipts, scheduler,
                       notified, report>>

\* checkpoint, the bytes, and attach_provisional, which wants the reservation.
PublishWrite(h) ==
    LET held == \A n \in thread[h].name : holder[n] = thread[h].tx
    IN  /\ Threading /\ thread[h].at = "write"
        /\ \/ /\ ~control /\ held
              /\ thread' = [thread EXCEPT ![h].at = "stage"]
              /\ UNCHANGED <<tx, holder, raised>>
           \/ PublishRaises(h)
        /\ UNCHANGED <<phase, verdict, control, beating, final, told, receipts, scheduler,
                       notified, report>>

\* The ref is staged and, after another checkpoint, returned to the Case.
PublishStage(h) ==
    /\ Threading /\ thread[h].at = "stage"
    /\ \/ /\ ~control
          /\ tx' = [tx EXCEPT ![thread[h].tx].refs = @ \cup thread[h].name]
          /\ told' = told \cup thread[h].name
          /\ thread' = [thread EXCEPT ![h] = Idle]
          /\ UNCHANGED <<holder, raised>>
       \/ control /\ PublishRaises(h) /\ UNCHANGED told
    /\ UNCHANGED <<phase, verdict, control, beating, final, receipts, scheduler, notified,
                   report>>

\* prepare, by the semantic layer: the refs are frozen.
PrepareTx ==
    /\ phase = "run" /\ TxActive(final) /\ ~tx[final].prepared
    /\ Joined => \A h \in Thread : thread[h] = Idle
    /\ tx' = [tx EXCEPT ![final].prepared = TRUE]
    /\ UNCHANGED <<phase, verdict, control, beating, final, thread, raised, told, holder,
                   receipts, scheduler, notified, report>>

-----------------------------------------------------------------------------
(* execute.                                                                *)

Fails == verdict' = "failed"

\* checkpoint and the construction of the Case; either may raise. A build
\* check (check_only) closes the Case instead of running it.
StartCase ==
    /\ phase = "control"
    /\ \/ ~control /\ phase' = "run" /\ UNCHANGED verdict
       \/ ~control /\ phase' = "close" /\ verdict' = "ok"
       \/ phase' = "close" /\ Fails
    /\ UNCHANGED <<control, beating, tx, final, thread, raised, told, holder, receipts,
                   scheduler, notified, report>>

\* run_case returns or raises, a checkpoint follows, the output is serialized.
RunCase ==
    /\ phase = "run"
    /\ Joined => \A h \in Thread : thread[h] = Idle
    /\ \/ /\ ~control /\ (Joined => ~raised)
          /\ phase' = "serialize" /\ UNCHANGED verdict
       \/ phase' = "close" /\ Fails
    /\ UNCHANGED <<control, beating, tx, final, thread, raised, told, holder, receipts,
                   scheduler, notified, report>>

SerializeOutput ==
    /\ phase = "serialize"
    /\ phase' = "close"
    /\ verdict' \in {"ok", "failed"}
    /\ UNCHANGED <<control, beating, tx, final, thread, raised, told, holder, receipts,
                   scheduler, notified, report>>

\* close: open transactions are aborted, the shared one is kept for a success.
CloseRuntime ==
    LET doomed == {t \in TxId : tx[t].state = "active" /\ ~(verdict = "ok" /\ t = final)}
    IN  /\ phase = "close"
        /\ tx' = [t \in TxId |-> IF t \in doomed THEN [tx[t] EXCEPT !.state = "aborted"]
                                 ELSE tx[t]]
        /\ holder' = [n \in Artifact |-> IF holder[n] \in doomed THEN 0 ELSE holder[n]]
        /\ phase' = "join"
        /\ UNCHANGED <<verdict, control, beating, final, thread, raised, told, receipts,
                       scheduler, notified, report>>

\* shutdown(wait=True); it may fail. A result that is not a success gives up
\* the shared transaction.
JoinThreads ==
    /\ phase = "join" /\ \A h \in Thread : thread[h] = Idle
    /\ scheduler' = FALSE
    /\ \/ verdict = "ok" /\ UNCHANGED <<verdict, tx, holder>>
       \/ Fails /\ AbortTx(final)
    /\ phase' = "heartbeat"
    /\ UNCHANGED <<control, beating, final, thread, raised, told, receipts, notified, report>>

\* assert_current and close of the control heartbeat.
CheckHeartbeat ==
    /\ phase = "heartbeat"
    /\ \/ beating /\ phase' = (IF verdict = "ok" THEN "seal" ELSE "done")
          /\ UNCHANGED <<verdict, tx, holder>>
       \/ ~beating /\ phase' = "done" /\ Fails /\ AbortTx(final)
    /\ UNCHANGED <<control, beating, final, thread, raised, told, receipts, scheduler,
                   notified, report>>

\* _seal: checkpoint, prepare and the ledger's commit, which may refuse.
SealTx(t) ==
    /\ ~control
    /\ receipts' = tx[t].refs
    /\ tx' = [tx EXCEPT ![t] = [@ EXCEPT !.state = "sealed", !.prepared = TRUE]]

\* commit_finalization_transaction: without an active shared transaction there
\* is nothing to seal.
CommitFinalization ==
    /\ IF TxActive(final) THEN SealTx(final) ELSE UNCHANGED <<tx, receipts>>
    /\ UNCHANGED holder

\* A seal that raises gives the transaction up and the Case fails.
SealCase ==
    /\ phase = "seal"
    /\ \/ CommitFinalization /\ phase' = "observe" /\ UNCHANGED verdict
       \/ /\ TxActive(final) /\ AbortTx(final)
          /\ Fails /\ phase' = "done"
          /\ UNCHANGED receipts
    /\ UNCHANGED <<control, beating, final, thread, raised, told, scheduler, notified, report>>

\* notify_finalization_observers; what they raise is only recorded.
Observe ==
    /\ phase = "observe"
    /\ notified' = TRUE /\ phase' = "done"
    /\ UNCHANGED <<verdict, control, beating, tx, final, thread, raised, told, holder,
                   receipts, scheduler, report>>

-----------------------------------------------------------------------------
(* execute_case_payload_supervised, and the outside.                       *)

\* The result envelope arrives, whatever was signalled meanwhile.
Deliver ==
    /\ phase = "done" /\ report = "none"
    /\ report' = verdict
    /\ UNCHANGED <<phase, verdict, control, beating, tx, final, thread, raised, told, holder,
                   receipts, scheduler, notified>>

\* The grace after a signal is over: the process is terminated.
Terminate ==
    /\ control /\ report = "none" /\ phase # "dead"
    /\ report' = "terminated" /\ phase' = "dead"
    /\ UNCHANGED <<verdict, control, beating, tx, final, thread, raised, told, holder,
                   receipts, scheduler, notified>>

\* The process exits without an envelope.
WorkerDies ==
    /\ report = "none" /\ phase # "dead"
    /\ report' = "failed" /\ phase' = "dead"
    /\ UNCHANGED <<verdict, control, beating, tx, final, thread, raised, told, holder,
                   receipts, scheduler, notified>>

Signal ==
    /\ ~control /\ control' = TRUE
    /\ UNCHANGED <<phase, verdict, beating, tx, final, thread, raised, told, holder, receipts,
                   scheduler, notified, report>>

HeartbeatLost ==
    /\ beating /\ beating' = FALSE
    /\ UNCHANGED <<phase, verdict, control, tx, final, thread, raised, told, holder, receipts,
                   scheduler, notified, report>>

FinalizationNext ==
    \/ \E h \in Thread :
          \/ \E n \in Artifact : BeginLook(h, n)
          \/ BeginCreate(h) \/ BeginRecheck(h)
          \/ PublishLook(h) \/ PublishReserve(h) \/ PublishWrite(h) \/ PublishStage(h)
    \/ PrepareTx \/ StartCase \/ RunCase \/ SerializeOutput \/ CloseRuntime \/ JoinThreads
    \/ CheckHeartbeat \/ SealCase \/ Observe
    \/ Deliver \/ Terminate \/ WorkerDies \/ Signal \/ HeartbeatLost

FinalizationSpec == FinalizationInit /\ [][FinalizationNext]_finalizationVars

-----------------------------------------------------------------------------
(* Properties *)

\* A Case that reports success has a receipt for every artifact whose publish
\* returned a ref, though its threads share one transaction that any of them
\* may supersede, abort or find prepared; and "no authority receipt exists
\* until CaseExecutor has serialized the result and closed runtime resources":
\* when a receipt exists, no stage thread is inside a publish, the scheduler
\* is closed, and a transaction that was aborted before has left nothing
\* reserved under the receipt's names.
SuccessIsComplete ==
    /\ report = "ok" => told \subseteq receipts
    /\ receipts # {} =>
          /\ verdict = "ok" /\ ~scheduler
          /\ \A h \in Thread : thread[h] = Idle
          /\ \A n \in receipts : holder[n] = final
=============================================================================
