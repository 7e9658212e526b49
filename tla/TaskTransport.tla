---------------------------- MODULE TaskTransport ----------------------------
(***************************************************************************)
(* The task transport between Project L0 and its workers:                  *)
(* SQLiteTaskTransport, RedisTaskTransport and InMemoryTaskTransport.      *)
(*                                                                         *)
(* Time is relative: a leased record keeps the time left until its         *)
(* lease_expires_at (negative once past it), so no bound on the clock is   *)
(* needed. claim, heartbeat_task, complete and fail read the clock before  *)
(* they get the store's lock; `lag` is how old that reading is when the    *)
(* transaction runs. A lease_token is fresh for every claim of a task, and *)
(* so is the attempt number, which stands for both.                        *)
(***************************************************************************)
EXTENDS Integers, Sequences, FiniteSets, SequencesExt

CONSTANTS
    Task, Worker,
    NoWorker,     \* worker_id of a record that is not leased
    CanRun,       \* pairs <<w, t>>: w's descriptor satisfies t's requirement
    MaxRetries,   \* TaskEnvelope.max_retries
    MaxInflight,  \* WorkerDescriptor.max_inflight
    Lease,        \* lease_seconds
    MaxLag,       \* longest lock wait
    MaxAttempts,  \* bound on attempts, for the store that has none
    Stores        \* the implementations considered

ASSUME TransportConstants ==
    /\ NoWorker \notin Worker
    /\ CanRun \subseteq Worker \X Task
    /\ MaxRetries \in Nat /\ MaxInflight \in Nat /\ MaxAttempts \in Nat
    /\ MaxLag \in Nat /\ Lease \in Nat \ {0}
    /\ Stores \subseteq {"sqlite", "redis", "memory"}

VARIABLES
    store,        \* the implementation in use, fixed from the start
    records,      \* task -> its record
    queue,        \* Redis: the queue list; else the submission order
    leased,       \* Redis: the set of leased ids; unused elsewhere
    claims        \* worker -> the ClaimedTasks it holds in memory

vars == <<store, records, queue, leased, claims>>

Final == {"succeeded", "failed", "cancelled"}
Record == [status : {"none", "queued", "leased"} \cup Final, attempt : Nat,
           worker : Worker \cup {NoWorker}, left : Int, result : Int]
Claim == [task : Task, attempt : Nat]

\* Results: an attempt number is the result that attempt delivered.
NoResult == 0
RecoveryResult == -1
CancelResult == -2

Missing == [status |-> "none", attempt |-> 0, worker |-> NoWorker, left |-> 0,
            result |-> NoResult]

Init ==
    /\ store \in Stores
    /\ records = [t \in Task |-> Missing]
    /\ queue = <<>>
    /\ leased = {}
    /\ claims = [w \in Worker |-> {}]

Lags == 0 .. MaxLag

-----------------------------------------------------------------------------
(* Recovery of expired claims *)

LeasedIds == IF store = "redis" THEN leased
             ELSE {t \in Task : records[t].status = "leased"}

Expired(lag) ==
    {t \in LeasedIds : records[t].status = "leased" /\ records[t].left + lag <= 0}

\* Of the expired tasks E, those that are queued again. The durable stores
\* give up after the last retry, the in-memory store never does.
Retried(E) ==
    {t \in E : store = "memory" \/ records[t].attempt <= MaxRetries}

Unleased(rec, status, result) ==
    [rec EXCEPT !.status = status, !.worker = NoWorker, !.left = 0, !.result = result]

RecoveredRecords(E) ==
    [t \in Task |->
        IF t \in Retried(E) THEN Unleased(records[t], "queued", NoResult)
        ELSE IF t \in E THEN Unleased(records[t], "failed", RecoveryResult)
        ELSE records[t]]

\* Mutant: the record is queued again, its id is not pushed.
RecoveredWithoutPush(E) == {queue}

\* Redis pushes the retried tasks in the order its set happens to list them.
RecoveredQueues(E) ==
    IF store = "redis" THEN {queue \o p : p \in SetToSeqs(Retried(E))} ELSE {queue}

\* Redis also drops ids whose record is not leased any more.
RecoveredLeased(E) == {t \in leased \ E : records[t].status = "leased"}

-----------------------------------------------------------------------------
(* Operations *)

\* SQLite orders by created_at, which submit reads before its transaction: a
\* row may sort before rows that are already there.
SubmittedQueues(t) ==
    IF store = "sqlite" THEN {InsertAt(queue, i, t) : i \in 1 .. Len(queue) + 1}
    ELSE {Append(queue, t)}

\* submit is idempotent: an id that is known is left alone.
Submit(t) ==
    /\ records[t].status = "none"
    /\ records' = [records EXCEPT ![t] = [Missing EXCEPT !.status = "queued"]]
    /\ queue' \in SubmittedQueues(t)
    /\ UNCHANGED <<store, leased, claims>>

ActiveCount(R, L, w) ==
    Cardinality({t \in Task : /\ R[t].worker = w
                              /\ IF store = "redis" THEN t \in L
                                 ELSE R[t].status = "leased"})

\* The first queued task in queue order this worker can run; 0 if none.
Selected(R, Q, w) ==
    SelectInSeq(Q, LAMBDA t : R[t].status = "queued" /\ <<w, t>> \in CanRun)

\* The queue without its entries for the tasks in S, in order: the n-th is the
\* one with n - 1 before it. (SelectSeq by ranks; the prover does not know SelectSeq.)
Without(Q, S) ==
    LET left    == {i \in 1 .. Len(Q) : Q[i] \notin S}
        rank(i) == Cardinality({k \in left : k < i})
    IN  IF left = 1 .. Len(Q) THEN Q
        ELSE [n \in 1 .. Cardinality(left) |-> Q[CHOOSE i \in left : rank(i) = n - 1]]

\* Redis drops the ids that are not queued any more, up to the selected one.
Pruned(R, Q, n) ==
    Without(Q, {Q[i] : i \in {j \in 1 .. Len(Q) : (n = 0 \/ j < n) /\ R[Q[j]].status # "queued"}})

\* claim: recover, check the worker's inflight limit, lease the first match.
ClaimTask(w, lag) ==
    LET R == RecoveredRecords(Expired(lag))
        L == RecoveredLeased(Expired(lag))
    IN  \E Q \in RecoveredQueues(Expired(lag)) :
          LET n == Selected(R, Q, w)
              t == Q[n]
          IN  \/ /\ ActiveCount(R, L, w) >= MaxInflight
                 /\ records' = R /\ queue' = Q /\ leased' = L
                 /\ UNCHANGED <<store, claims>>
              \/ /\ ActiveCount(R, L, w) < MaxInflight
                 /\ n = 0
                 /\ records' = R /\ leased' = L
                 /\ queue' = IF store = "redis" THEN Pruned(R, Q, n) ELSE Q
                 /\ UNCHANGED <<store, claims>>
              \/ /\ ActiveCount(R, L, w) < MaxInflight
                 /\ n # 0
                 /\ R[t].attempt < MaxAttempts
                 /\ records' = [R EXCEPT ![t] = [status |-> "leased", worker |-> w,
                                                 attempt |-> R[t].attempt + 1,
                                                 left |-> Lease - lag, result |-> NoResult]]
                 /\ queue' = IF store = "redis" THEN RemoveFirst(Pruned(R, Q, n), t) ELSE Q
                 /\ leased' = IF store = "redis" THEN L \cup {t} ELSE L
                 /\ claims' = [claims EXCEPT ![w] = @ \cup {[task |-> t,
                                                             attempt |-> R[t].attempt + 1]}]
                 /\ UNCHANGED store

\* Mutant: the lease token is not compared.
ClaimWithoutToken(w, cl, lag) ==
    LET rec == records[cl.task]
    IN  rec.status = "leased" /\ rec.worker = w /\ rec.left + lag > 0

\* _claim_is_current: the worker and the token match and time is left.
ClaimIsCurrent(w, cl, lag) ==
    LET rec == records[cl.task]
    IN  /\ rec.status = "leased"
        /\ rec.worker = w
        /\ rec.attempt = cl.attempt
        /\ rec.left + lag > 0

HeartbeatTask(w, cl, lag) ==
    /\ ClaimIsCurrent(w, cl, lag)
    /\ records' = [records EXCEPT ![cl.task] = [@ EXCEPT !.left = Lease - lag]]
    /\ UNCHANGED <<store, queue, leased, claims>>

\* _finish_claim: the record ends or goes back to the queue. A claim that is
\* not current raises; Redis then runs recovery as well.
Finish(w, cl, lag, status, retry) ==
    /\ claims' = [claims EXCEPT ![w] = @ \ {cl}]
    /\ \/ /\ ClaimIsCurrent(w, cl, lag)
          /\ records' = [records EXCEPT ![cl.task] =
                           IF retry THEN Unleased(@, "queued", NoResult)
                           ELSE Unleased(@, status, cl.attempt)]
          /\ leased' = leased \ {cl.task}
          /\ queue' = IF retry /\ store = "redis" THEN Append(queue, cl.task) ELSE queue
       \/ /\ ~ClaimIsCurrent(w, cl, lag)
          /\ IF store = "redis"
             THEN /\ records' = RecoveredRecords(Expired(lag))
                  /\ queue' \in RecoveredQueues(Expired(lag))
                  /\ leased' = RecoveredLeased(Expired(lag))
             ELSE UNCHANGED <<records, queue, leased>>
    /\ UNCHANGED store

Complete(w, cl, lag) == Finish(w, cl, lag, "succeeded", FALSE)
Fail(w, cl, lag) == Finish(w, cl, lag, "failed", cl.attempt <= MaxRetries)

\* The durable stores cancel queued tasks only; the in-memory store cancels
\* whatever is not final and leaves no result.
Cancel(t) ==
    /\ \/ records[t].status = "queued"
       \/ store = "memory" /\ records[t].status = "leased"
    /\ records' = [records EXCEPT ![t] =
                     Unleased(@, "cancelled", IF store = "memory" THEN NoResult ELSE CancelResult)]
    /\ queue' = IF store = "redis" THEN Without(queue, {t}) ELSE queue
    /\ UNCHANGED <<store, leased, claims>>

\* recover_expired, which wait_result polls; it reads the clock under the lock.
\* Redis writes task by task, so a process that dies half way recovers a part.
RecoverExpired ==
    \E E \in SUBSET Expired(0) :
        /\ E # {}
        /\ store # "redis" => E = Expired(0)
        /\ records' = RecoveredRecords(E)
        /\ queue' \in RecoveredQueues(E)
        /\ leased' = RecoveredLeased(E)
        /\ UNCHANGED <<store, claims>>

\* A worker process dies and forgets its claims.
Crash(w) ==
    /\ claims[w] # {}
    /\ claims' = [claims EXCEPT ![w] = {}]
    /\ UNCHANGED <<store, records, queue, leased>>

\* Time passes; left is not counted below what a stale clock can tell apart.
TimePasses ==
    /\ \E t \in Task : records[t].status = "leased" /\ records[t].left > -MaxLag
    /\ records' = [t \in Task |->
                     IF records[t].status = "leased" /\ records[t].left > -MaxLag
                     THEN [records[t] EXCEPT !.left = @ - 1] ELSE records[t]]
    /\ UNCHANGED <<store, queue, leased, claims>>

WorkerStep(w) ==
    \E lag \in Lags :
        \/ ClaimTask(w, lag)
        \/ \E cl \in claims[w] :
              HeartbeatTask(w, cl, lag) \/ Complete(w, cl, lag) \/ Fail(w, cl, lag)

Next ==
    \/ \E t \in Task : Submit(t) \/ Cancel(t)
    \/ \E w \in Worker : WorkerStep(w) \/ Crash(w)
    \/ RecoverExpired
    \/ TimePasses

Spec == Init /\ [][Next]_vars

\* Workers poll for tasks and report what they ran, the submitter polls
\* wait_result, and time does not stop. Nobody has to cancel, crash or beat.
FinishSome(w) == \E lag \in Lags, cl \in claims[w] : Complete(w, cl, lag) \/ Fail(w, cl, lag)
ClaimSome(w) == \E lag \in Lags : ClaimTask(w, lag) /\ claims' # claims

Fairness ==
    /\ \A w \in Worker : WF_vars(FinishSome(w)) /\ WF_vars(ClaimSome(w))
    /\ WF_vars(RecoverExpired)
    /\ WF_vars(TimePasses)

FairSpec == Spec /\ Fairness

-----------------------------------------------------------------------------
(* Properties *)

Durable == store # "memory"

\* The shapes of the tables; a worker id is on a record exactly while it is
\* leased.
TypeOK ==
    /\ store \in Stores
    /\ \A t \in Task : records[t].worker # NoWorker <=> records[t].status = "leased"
    /\ records \in [Task -> Record]
    /\ queue \in Seq(Task)
    /\ leased \subseteq Task
    /\ claims \in [Worker -> SUBSET Claim]

\* The stored result comes from the last claim that was handed out, never
\* from an earlier worker that reports after its lease was given away.
ResultIsLatest ==
    \A t \in Task : records[t].result > 0 => records[t].result = records[t].attempt

\* No task is lost or run from a stale entry: a queued record is in the queue
\* exactly once, and in Redis both indexes match the records.
Occurrences(t) == Cardinality({i \in 1 .. Len(queue) : queue[i] = t})
IndexesAgree ==
    \A t \in Task :
        /\ records[t].status = "queued" => Occurrences(t) = 1
        /\ store = "redis" =>
              /\ records[t].status # "queued" => Occurrences(t) = 0
              /\ t \in leased <=> records[t].status = "leased"

\* In the durable transports every submitted task ends, whatever workers
\* crash, stall or report late.
EventuallyFinal ==
    \A t \in Task :
        Durable /\ records[t].status = "queued" ~> records[t].status \in Final
=============================================================================
