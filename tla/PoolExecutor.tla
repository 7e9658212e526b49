---------------------------- MODULE PoolExecutor ----------------------------
(***************************************************************************)
(* The local compute pool: PoolScheduler.submit, the executor views of     *)
(* PoolScheduler.as_executor with their submit and shutdown, and           *)
(* PoolScheduler.shutdown, all running concurrently with the pool's worker *)
(* threads.                                                                *)
(*                                                                         *)
(* One thread uses each view, one submits each direct task and one         *)
(* (Closer) shuts the pool down.                                           *)
(* A section under a view's lock or under the pool's lock is one step, the *)
(* callbacks it runs included. The pool's lock is not reentrant: a section *)
(* that asks for it a second time holds both locks for ever, and then      *)
(* `wedged` names its view.                                                *)
(***************************************************************************)
EXTENDS Integers, Sequences, FiniteSets, FiniteSetsExt, SequencesExt

CONSTANTS
    View,        \* executor views, each used by a thread of the same name
    Closer,      \* the thread that calls PoolScheduler.shutdown
    NoView,      \* the value of `wedged` while the locks are fine
    Task,        \* the callables that may be submitted
    ViewOf,      \* [Task -> View]: the view a task is submitted to
    Direct,      \* the callables that may be given to PoolScheduler.submit
    Total,       \* total_threads
    Count,       \* [View -> Nat]: worker_count of the view
    Permits      \* [Direct -> Nat]: resource_permits of a direct task

ASSUME PoolConstants ==
    /\ Closer \notin View /\ NoView \notin View
    /\ IsFiniteSet(View) /\ IsFiniteSet(Task) /\ IsFiniteSet(Direct)
    /\ ViewOf \in [Task -> View]
    /\ Total \in Nat \ {0}
    /\ Count \in [View -> 1 .. Total]
    /\ Permits \in [Direct -> 1 .. Total]

VARIABLES
    shutdown,    \* PoolScheduler._shutdown
    available,   \* PoolScheduler._available_threads
    views,       \* the executor views
    tasks,       \* task -> its outer future, PoolTask and underlying future
    direct,      \* direct task -> its caller, PoolTask, future and reservation
    poolCall,        \* thread -> where it is in __enter__ or in a shutdown
    wedged       \* the view whose launch waits for the pool lock it holds

viewVars == <<shutdown, available, views, tasks, poolCall, wedged>>
poolVars == <<viewVars, direct>>

Thread == View \cup {Closer}

\* Futures: "cancelled" has no waiter notified yet, "notified" has.
OuterStates == {"none", "pending", "running", "cancelled", "notified", "done"}
PoolTaskStates == {"new", "started", "cancelled", "done"}
UnderStates == {"none", "queued", "running", "finishing", "cancelled", "done"}
PoolPhases == {"out", "admitted", "active", "pool", "views", "cancel", "wait",
           "drain", "returned"}
DirectPhases == {"out", "admitted", "filed", "submitted", "cancelling", "returned"}

NewView == [entered |-> FALSE, closed |-> FALSE, reserved |-> FALSE,
            pending |-> <<>>, inflight |-> {}, all |-> {}]
NewTask == [outer |-> "none", ptask |-> "new", under |-> "none"]
NewDirect == [pc |-> "out", ptask |-> "new", under |-> "none", held |-> FALSE]
NewPoolCall(v) == [pc |-> "out", view |-> v, wait |-> TRUE, pend |-> {},
               live |-> {}, watch |-> {}, views |-> {}]

PoolInit ==
    /\ shutdown = FALSE
    /\ available = Total
    /\ views = [v \in View |-> NewView]
    /\ tasks = [t \in Task |-> NewTask]
    /\ direct = [d \in Direct |-> NewDirect]
    /\ poolCall = [th \in Thread |-> NewPoolCall(IF th = Closer THEN NoView ELSE th)]
    /\ wedged = NoView

-----------------------------------------------------------------------------
(* Sections under the view's lock *)

PoolLockFree == wedged = NoView

InUse == {"queued", "running", "finishing"}
Occupied == {"running", "finishing"}
Busy ==
    {t \in Task : tasks[t].under \in Occupied} \cup {d \in Direct : direct[d].under \in Occupied}

Free(v, s) == Count[v] - Cardinality(s.inflight)
Launching(v, s) == s.entered /\ s.reserved /\ Free(v, s) > 0

IsLive(T, t) == T[t].outer # "cancelled"

\* The tasks of a queue that were not cancelled, in order: the n-th is the one
\* with n - 1 before it. (SelectSeq by ranks; the prover does not know SelectSeq.)
LiveOnly(q, T) ==
    LET live    == {i \in 1 .. Len(q) : IsLive(T, q[i])}
        rank(i) == Cardinality({k \in live : k < i})
    IN  [n \in 1 .. Cardinality(live) |-> q[CHOOSE i \in live : rank(i) = n - 1]]

\* The pending tasks that get the free slots of the view, in order.
NextToRun(v, s, T) ==
    LET live == LiveOnly(s.pending, T)
    IN  ToSet(SubSeq(live, 1, Min({Free(v, s), Len(live)})))

\* What the loop leaves in the queue: all that follows the last task started,
\* nothing if a slot is still free.
LeftPending(v, s, T) ==
    LET go   == NextToRun(v, s, T)
        last == Max({i \in 1 .. Len(s.pending) : s.pending[i] \in go})
    IN  IF Cardinality(go) < Free(v, s) THEN <<>>
        ELSE SubSeq(s.pending, last + 1, Len(s.pending))

\* _launch_available_locked, the view: tasks are handed to the thread pool or,
\* once the pool is shut down, failed and dropped.
LaunchedView(v, s, T) ==
    IF ~Launching(v, s) THEN s
    ELSE IF shutdown THEN [s EXCEPT !.pending = <<>>, !.all = @ \ ToSet(s.pending)]
    ELSE [s EXCEPT !.pending = LeftPending(v, s, T),
                   !.inflight = @ \cup NextToRun(v, s, T)]

\* _launch_available_locked, the futures.
LaunchedTasks(v, s, T) ==
    [t \in Task |->
        IF ~Launching(v, s) THEN T[t]
        ELSE IF shutdown
        THEN IF t \in ToSet(s.pending) /\ IsLive(T, t) THEN [T[t] EXCEPT !.outer = "done"] ELSE T[t]
        ELSE IF t \in NextToRun(v, s, T) THEN [T[t] EXCEPT !.under = "queued"] ELSE T[t]]

\* set_exception runs the done callback under the pool's lock; when that was
\* the last work of a closed view, the callback asks for the lock again.
Wedges(v, s, T) ==
    /\ shutdown /\ Launching(v, s)
    /\ s.closed /\ s.inflight = {}
    /\ s.pending # <<>> /\ IsLive(T, Last(s.pending))

\* _release_reservation_if_idle: the test.
Idle(s) == s.closed /\ s.reserved /\ s.pending = <<>> /\ s.inflight = {}

\* Mutant: capacity is put back and the reservation is kept.
SettleKeeping(v, s) ==
    /\ views' = [views EXCEPT ![v] = s]
    /\ available' = IF Idle(s) THEN Min({Total, available + Count[v]}) ELSE available

\* _release_reservation_if_idle and _release_capacity.
SettleFuture(v, s) ==
    /\ views' = [views EXCEPT ![v] = IF Idle(s) THEN [s EXCEPT !.reserved = FALSE] ELSE s]
    /\ available' = IF Idle(s) THEN Min({Total, available + Count[v]}) ELSE available

\* Mutant: a freed slot is not given to the next pending task.
SettleWithoutLaunch(v, s, T) ==
    /\ tasks' = T /\ UNCHANGED wedged
    /\ SettleFuture(v, s)

\* Launch, then release if idle.
LaunchAndSettle(v, s, T) ==
    /\ tasks' = LaunchedTasks(v, s, T)
    /\ \/ /\ ~Wedges(v, s, T)
          /\ SettleFuture(v, LaunchedView(v, s, T))
          /\ UNCHANGED wedged
       \/ /\ Wedges(v, s, T)
          /\ views' = [views EXCEPT ![v] = [LaunchedView(v, s, T) EXCEPT !.reserved = FALSE]]
          /\ wedged' = v
          /\ UNCHANGED available

CancelOuter(T, t) == IF T[t].outer = "pending" THEN [T EXCEPT ![t].outer = "cancelled"] ELSE T

\* A future that ended is taken off _all_futures by its callback.
Discard(s, T, t) == IF T[t].outer = "pending" THEN [s EXCEPT !.all = @ \ {t}] ELSE s

-----------------------------------------------------------------------------
(* The thread that uses a view *)

Goto(th, pc) == poolCall' = [poolCall EXCEPT ![th].pc = pc]

\* __enter__: wait for capacity; a shutdown ends the wait with an error.
Enter(v) ==
    /\ poolCall[v].pc = "out" /\ PoolLockFree
    /\ \/ /\ shutdown
          /\ Goto(v, "returned")
          /\ UNCHANGED available
       \/ /\ ~shutdown /\ available >= Count[v]
          /\ available' = available - Count[v]
          /\ Goto(v, "admitted")
    /\ UNCHANGED <<shutdown, views, tasks, wedged>>

\* __enter__: register the view, or give the capacity back.
Register(v) ==
    /\ poolCall[v].pc = "admitted" /\ PoolLockFree
    /\ IF shutdown
       THEN /\ views' = [views EXCEPT ![v].closed = TRUE]
            /\ available' = Min({Total, available + Count[v]})
            /\ Goto(v, "returned")
       ELSE /\ views' = [views EXCEPT ![v].entered = TRUE, ![v].reserved = TRUE]
            /\ UNCHANGED available
            /\ Goto(v, "active")
    /\ UNCHANGED <<shutdown, tasks, wedged>>

\* submit of the view; it raises when the view is closed or the pool is shut down.
Submit(t) ==
    LET v == ViewOf[t]
        s == [views[v] EXCEPT !.pending = Append(@, t), !.all = @ \cup {t}]
    IN  /\ poolCall[v].pc = "active" /\ PoolLockFree
        /\ tasks[t].outer = "none" /\ ~views[v].closed /\ ~shutdown
        /\ LaunchAndSettle(v, s, [tasks EXCEPT ![t].outer = "pending"])
        /\ UNCHANGED <<shutdown, poolCall>>

\* Whoever holds a future may cancel it while it is pending.
CancelFuture(t) ==
    LET v == ViewOf[t]
    IN  /\ tasks[t].outer = "pending" /\ wedged # v
        /\ tasks' = CancelOuter(tasks, t)
        /\ views' = [views EXCEPT ![v] = Discard(@, tasks, t)]
        /\ UNCHANGED <<shutdown, available, poolCall, wedged>>

-----------------------------------------------------------------------------
(* The pool's worker threads *)

\* The wrapper before the callable: a cancelled future is notified, a cancelled
\* PoolTask fails its future, otherwise the callable runs.
Started(T) ==
    IF T.outer = "cancelled"
    THEN [outer |-> "notified", ptask |-> "cancelled", under |-> "finishing"]
    ELSE IF T.ptask = "cancelled"
    THEN [outer |-> "done", ptask |-> "cancelled", under |-> "finishing"]
    ELSE [outer |-> "running", ptask |-> "started", under |-> "running"]

\* A pool thread takes the next submitted wrapper.
Start(t) ==
    LET v == ViewOf[t]
        next == Started(tasks[t])
    IN  /\ tasks[t].under = "queued" /\ Cardinality(Busy) < Total
        /\ next.outer = "done" => wedged # v
        /\ tasks' = [tasks EXCEPT ![t] = next]
        /\ views' = [views EXCEPT ![v].all = IF next.outer = "done" THEN @ \ {t} ELSE @]
        /\ UNCHANGED <<shutdown, available, poolCall, wedged>>

\* The callable ended; its result or exception is published.
Publish(t) ==
    /\ tasks[t].under = "running" /\ PoolLockFree
    /\ tasks' = [tasks EXCEPT ![t] = [outer |-> "done", ptask |-> "done", under |-> "finishing"]]
    /\ views' = [views EXCEPT ![ViewOf[t]].all = @ \ {t}]
    /\ UNCHANGED <<shutdown, available, poolCall, wedged>>

\* _underlying_done, run by the worker thread.
Finish(t) ==
    LET v == ViewOf[t]
    IN  /\ tasks[t].under = "finishing" /\ PoolLockFree
        /\ LaunchAndSettle(v, [views[v] EXCEPT !.inflight = @ \ {t}],
                           [tasks EXCEPT ![t].under = "done"])
        /\ UNCHANGED <<shutdown, poolCall>>

-----------------------------------------------------------------------------
(* Shutting down *)

\* shutdown of a view: close it and take the snapshots.
BeginShutdown(th, v, wait, cancel) ==
    LET s == [views[v] EXCEPT !.closed = TRUE]
        next == [poolCall[th] EXCEPT !.pc = IF cancel THEN "cancel" ELSE "wait",
                                 !.view = v, !.wait = wait,
                                 !.pend = IF cancel THEN ToSet(s.pending) ELSE {},
                                 !.live = IF cancel THEN s.inflight ELSE {},
                                 !.watch = IF wait THEN s.all ELSE {},
                                 !.views = @ \ {v}]
    IN  /\ PoolLockFree
        /\ poolCall' = [poolCall EXCEPT ![th] = next]
        /\ \/ /\ cancel
              /\ views' = [views EXCEPT ![v] = s]
              /\ UNCHANGED <<available, tasks, wedged>>
           \/ /\ ~cancel
              /\ LaunchAndSettle(v, s, tasks)
        /\ UNCHANGED shutdown

ViewShutdown(v, wait, cancel) ==
    poolCall[v].pc = "active" /\ BeginShutdown(v, v, wait, cancel)

\* cancel_futures: first the pending futures of the snapshot.
CancelPending(th, t) ==
    LET v == ViewOf[t]
    IN  /\ poolCall[th].pc = "cancel" /\ t \in poolCall[th].pend /\ wedged # v
        /\ poolCall' = [poolCall EXCEPT ![th].pend = @ \ {t}]
        /\ tasks' = CancelOuter(tasks, t)
        /\ views' = [views EXCEPT ![v] = Discard(@, tasks, t)]
        /\ UNCHANGED <<shutdown, available, wedged>>

\* Then, for each task in flight, its PoolTask ...
CancelPoolTask(th, t) ==
    /\ poolCall[th].pc \in {"pool", "cancel"} /\ poolCall[th].pend = {} /\ t \in poolCall[th].live
    /\ tasks[t].ptask = "new"
    /\ tasks' = [tasks EXCEPT ![t].ptask = "cancelled"]
    /\ UNCHANGED <<shutdown, available, views, poolCall, wedged>>

\* ... and its futures. The pool cancels only the underlying one. Cancelling
\* one that is still queued runs _underlying_done in this thread.
CancelLaunched(th, t) ==
    LET v     == ViewOf[t]
        stop  == tasks[t].under = "queued"
        both  == poolCall[th].pc = "cancel" \/ stop
        T     == IF both THEN CancelOuter(tasks, t) ELSE tasks
        s     == IF both THEN Discard(views[v], tasks, t) ELSE views[v]
    IN  /\ poolCall[th].pc \in {"pool", "cancel"} /\ poolCall[th].pend = {} /\ t \in poolCall[th].live
        /\ tasks[t].ptask # "new" /\ PoolLockFree
        /\ poolCall' = [poolCall EXCEPT ![th].live = @ \ {t}]
        /\ \/ /\ stop
              /\ LaunchAndSettle(v, [s EXCEPT !.inflight = @ \ {t}],
                                 [T EXCEPT ![t].under = "cancelled"])
           \/ /\ ~stop
              /\ tasks' = T
              /\ views' = [views EXCEPT ![v] = s]
              /\ UNCHANGED <<available, wedged>>
        /\ UNCHANGED shutdown

\* The cancelled futures leave the queue; nobody notifies their waiters.
PruneCancelled(th) ==
    /\ poolCall[th].pc = "cancel" /\ poolCall[th].pend = {} /\ poolCall[th].live = {}
    /\ wedged # poolCall[th].view
    /\ views' = [views EXCEPT ![poolCall[th].view].pending = LiveOnly(@, tasks)]
    /\ Goto(th, "wait")
    /\ UNCHANGED <<shutdown, available, tasks, wedged>>

\* wait_futures counts a future only when its waiters were notified.
AwaitFutures(th) ==
    /\ poolCall[th].pc = "wait"
    /\ \A t \in poolCall[th].watch : tasks[t].outer \in {"notified", "done"}
    /\ poolCall' = [poolCall EXCEPT ![th].pc = "drain", ![th].watch = {}]
    /\ UNCHANGED <<shutdown, available, views, tasks, wedged>>

\* Wait until the view has no work, release it and return.
Drain(th) ==
    LET v == poolCall[th].view
    IN  /\ poolCall[th].pc = "drain" /\ PoolLockFree
        /\ poolCall[th].wait => views[v].pending = <<>> /\ views[v].inflight = {}
        /\ SettleFuture(v, views[v])
        /\ Goto(th, IF th = Closer THEN "views" ELSE "returned")
        /\ UNCHANGED <<shutdown, tasks, wedged>>

\* PoolScheduler.shutdown: the flag and the snapshots, under the pool's lock.
PoolShutdown(wait) ==
    /\ poolCall[Closer].pc = "out" /\ PoolLockFree
    /\ shutdown' = TRUE
    /\ poolCall' = [poolCall EXCEPT ![Closer].pc = "pool", ![Closer].wait = wait,
                            ![Closer].live = {t \in Task : tasks[t].under \in InUse}
                                             \cup {d \in Direct : direct[d].under \in InUse},
                            ![Closer].views = {v \in View : views[v].reserved}]
    /\ UNCHANGED <<available, views, tasks, wedged>>

PoolCancelled ==
    /\ poolCall[Closer].pc = "pool" /\ poolCall[Closer].live = {}
    /\ Goto(Closer, "views")
    /\ UNCHANGED <<shutdown, available, views, tasks, wedged>>

CloseNextView ==
    /\ poolCall[Closer].pc = "views"
    /\ \E v \in poolCall[Closer].views : BeginShutdown(Closer, v, poolCall[Closer].wait, TRUE)

\* The thread pool's own shutdown joins its threads.
ExecutorShutdown ==
    /\ poolCall[Closer].pc = "views" /\ poolCall[Closer].views = {}
    /\ poolCall[Closer].wait => /\ \A t \in Task : tasks[t].under \notin InUse
                              /\ \A d \in Direct : direct[d].under \notin InUse
    /\ Goto(Closer, "returned")
    /\ UNCHANGED <<shutdown, available, views, tasks, wedged>>

-----------------------------------------------------------------------------
(* Direct tasks: PoolScheduler.submit *)

\* release_reservation: the permits go back once, whoever comes first.
Returned(s) == [s EXCEPT !.held = FALSE]
ReturnPermits(d) ==
    available' = IF direct[d].held THEN Min({Total, available + Permits[d]}) ELSE available

\* _acquire_capacity: wait for the permits; a shutdown ends the wait with an error.
Admit(d) ==
    /\ direct[d].pc = "out" /\ PoolLockFree
    /\ \/ /\ shutdown
          /\ direct' = [direct EXCEPT ![d].pc = "returned"]
          /\ UNCHANGED available
       \/ /\ ~shutdown /\ available >= Permits[d]
          /\ available' = available - Permits[d]
          /\ direct' = [direct EXCEPT ![d].pc = "admitted", ![d].held = TRUE]
    /\ UNCHANGED <<shutdown, views, tasks, poolCall, wedged>>

\* submit gives the wrapper to the thread pool, or raises and returns the permits.
SubmitDirect(d) ==
    /\ direct[d].pc = "admitted" /\ PoolLockFree
    /\ \/ /\ shutdown
          /\ direct' = [direct EXCEPT ![d] = [Returned(@) EXCEPT !.pc = "returned"]]
          /\ ReturnPermits(d)
       \/ /\ ~shutdown
          /\ direct' = [direct EXCEPT ![d].pc = "filed", ![d].under = "queued"]
          /\ UNCHANGED available
    /\ UNCHANGED <<shutdown, views, tasks, poolCall, wedged>>

\* add_done_callback comes after the pool's lock was released: the future may
\* have been cancelled, and then discard_future runs in this thread.
AttachCallback(d) ==
    /\ direct[d].pc = "filed" /\ PoolLockFree
    /\ \/ /\ direct[d].under = "cancelled"
          /\ direct' = [direct EXCEPT ![d] = [Returned(@) EXCEPT !.pc = "submitted"]]
          /\ ReturnPermits(d)
       \/ /\ direct[d].under # "cancelled"
          /\ direct' = [direct EXCEPT ![d].pc = "submitted"]
          /\ UNCHANGED available
    /\ UNCHANGED <<shutdown, views, tasks, poolCall, wedged>>

\* PoolResult.cancel: the PoolTask first ...
CancelResult(d) ==
    /\ direct[d].pc = "submitted" /\ direct[d].ptask = "new"
    /\ direct' = [direct EXCEPT ![d].pc = "cancelling", ![d].ptask = "cancelled"]
    /\ UNCHANGED viewVars

\* ... then the future, which a thread may have taken meanwhile, and the permits.
CancelDirect(d) ==
    LET s == [Returned(direct[d]) EXCEPT !.pc = "returned",
                                         !.under = IF @ = "queued" THEN "cancelled" ELSE @]
    IN  /\ direct[d].pc = "cancelling" /\ PoolLockFree
        /\ direct' = [direct EXCEPT ![d] = s]
        /\ ReturnPermits(d)
        /\ UNCHANGED <<shutdown, views, tasks, poolCall, wedged>>

\* The wrapper: a cancelled PoolTask does not run ...
StartDirect(d) ==
    /\ direct[d].under = "queued" /\ Cardinality(Busy) < Total
    /\ direct' = [direct EXCEPT ![d] =
                     IF @.ptask = "cancelled" THEN [@ EXCEPT !.under = "finishing"]
                     ELSE [@ EXCEPT !.under = "running", !.ptask = "started"]]
    /\ UNCHANGED viewVars

\* ... a callable that ended publishes its result after the pool's counters ...
PublishDirect(d) ==
    /\ direct[d].under = "running" /\ PoolLockFree
    /\ direct' = [direct EXCEPT ![d].under = "finishing", ![d].ptask = "done"]
    /\ UNCHANGED viewVars

\* ... and both end by returning the permits.
FinishDirect(d) ==
    /\ direct[d].under = "finishing" /\ PoolLockFree
    /\ direct' = [direct EXCEPT ![d] = [Returned(@) EXCEPT !.under = "done"]]
    /\ ReturnPermits(d)
    /\ UNCHANGED <<shutdown, views, tasks, poolCall, wedged>>

\* PoolScheduler.shutdown on a direct task of its snapshot: the PoolTask ...
CloserCancelsTask(d) ==
    /\ poolCall[Closer].pc = "pool" /\ d \in poolCall[Closer].live /\ direct[d].ptask = "new"
    /\ direct' = [direct EXCEPT ![d].ptask = "cancelled"]
    /\ UNCHANGED viewVars

\* ... and the future, whose callback returns the permits if it is attached.
CloserCancelsFuture(d) ==
    /\ poolCall[Closer].pc = "pool" /\ d \in poolCall[Closer].live /\ direct[d].ptask # "new"
    /\ PoolLockFree
    /\ poolCall' = [poolCall EXCEPT ![Closer].live = @ \ {d}]
    /\ \/ /\ direct[d].under # "queued"
          /\ UNCHANGED <<available, direct>>
       \/ /\ direct[d].under = "queued" /\ direct[d].pc = "filed"
          /\ direct' = [direct EXCEPT ![d].under = "cancelled"]
          /\ UNCHANGED available
       \/ /\ direct[d].under = "queued" /\ direct[d].pc # "filed"
          /\ direct' = [direct EXCEPT ![d] = [Returned(@) EXCEPT !.under = "cancelled"]]
          /\ ReturnPermits(d)
    /\ UNCHANGED <<shutdown, views, tasks, wedged>>

\* What a direct task's threads do by themselves once it was submitted.
DirectStep(d) ==
    \/ SubmitDirect(d) \/ AttachCallback(d) \/ CancelDirect(d)
    \/ StartDirect(d) \/ PublishDirect(d) \/ FinishDirect(d)
    \/ CloserCancelsTask(d) \/ CloserCancelsFuture(d)

-----------------------------------------------------------------------------

WorkerStep(t) == Start(t) \/ Publish(t) \/ Finish(t)

ShutdownStep(th) ==
    \/ \E t \in Task : CancelPending(th, t) \/ CancelPoolTask(th, t) \/ CancelLaunched(th, t)
    \/ PruneCancelled(th) \/ AwaitFutures(th) \/ Drain(th)

CloserStep == PoolCancelled \/ CloseNextView \/ ExecutorShutdown

ViewNext ==
    \/ \E v \in View :
          \/ Enter(v)
          \/ Register(v)
          \/ \E wait, cancel \in BOOLEAN : ViewShutdown(v, wait, cancel)
    \/ \E t \in Task : Submit(t) \/ CancelFuture(t) \/ WorkerStep(t)
    \/ \E th \in Thread : ShutdownStep(th)
    \/ \E wait \in BOOLEAN : PoolShutdown(wait)
    \/ CloserStep

PoolNext ==
    \/ ViewNext /\ UNCHANGED direct
    \/ \E d \in Direct : Admit(d) \/ CancelResult(d) \/ DirectStep(d)

PoolSpec == PoolInit /\ [][PoolNext]_poolVars

\* What threads do by themselves once they are in the pool's code.
ThreadStep ==
    \/ /\ \/ \E v \in View : Register(v)
          \/ \E t \in Task : WorkerStep(t)
          \/ \E th \in Thread : ShutdownStep(th)
          \/ CloserStep
       /\ UNCHANGED direct
    \/ \E d \in Direct : DirectStep(d)

\* The pool does not stop while a thread can take a step, and callables end.
\* A thread takes finitely many steps here, so this is the same as fairness to
\* each. Nobody has to enter, submit, cancel or shut down.
PoolFairness == WF_poolVars(ThreadStep)

PoolFairSpec == PoolSpec /\ PoolFairness

-----------------------------------------------------------------------------
(* Properties *)

\* The shapes of the pool's tables.
PoolTypeOK ==
    /\ shutdown \in BOOLEAN
    /\ available \in 0 .. Total
    /\ \A v \in View :
          /\ views[v] \in [entered : BOOLEAN, closed : BOOLEAN, reserved : BOOLEAN,
                           pending : Seq(Task), inflight : SUBSET Task, all : SUBSET Task]
          /\ Cardinality(views[v].inflight) <= Count[v]
    /\ tasks \in [Task -> [outer : OuterStates, ptask : PoolTaskStates, under : UnderStates]]
    /\ poolCall \in [Thread -> [pc : PoolPhases, view : View \cup {NoView}, wait : BOOLEAN,
                            pend : SUBSET Task, live : SUBSET (Task \cup Direct),
                            watch : SUBSET Task, views : SUBSET View]]
    /\ direct \in [Direct -> [pc : DirectPhases, ptask : PoolTaskStates,
                               under : UnderStates, held : BOOLEAN]]
    /\ wedged \in View \cup {NoView}

\* A view holds its capacity from admission until it is released, once.
Holding(v) == views[v].reserved \/ poolCall[v].pc = "admitted" \/ wedged = v

\* Capacity is neither lost nor returned twice, whoever of the user, a worker
\* and the closer finds the view idle first (the clamp to total_threads in
\* _release_capacity would hide a second return), and it is returned only
\* when no thread of the view works any more. The same holds of a direct task,
\* which its wrapper, its callback, PoolResult.cancel and the closer may end.
CapacityExact ==
    /\ available + SumFunctionOnSet(Count, {v \in View : Holding(v)})
                 + SumFunctionOnSet(Permits, {d \in Direct : direct[d].held}) = Total
    /\ \A d \in Direct : direct[d].under = "running" => direct[d].held
    /\ \A v \in View :
          Cardinality({t \in Task : ViewOf[t] = v /\ tasks[t].under \in InUse})
              <= (IF Holding(v) THEN Count[v] ELSE 0)

\* A submitted future ends, and a closed view gives its capacity back once its
\* tasks ended, whether or not its user waits ("executor view releases after
\* nonblocking shutdown finishes tasks"), unless the whole pool is shut down.
CapacityReturns ==
    /\ \A t \in Task : tasks[t].outer = "pending"
                          ~> tasks[t].outer \in {"cancelled", "notified", "done"} \/ shutdown
    /\ \A v \in View : views[v].closed /\ views[v].reserved
                          ~> ~views[v].reserved \/ shutdown

\* PoolScheduler.shutdown returns: the Case freezes its result only after it
\* ("runtime_audit is produced only after cleanup").
ShutdownReturns == poolCall[Closer].pc = "pool" ~> poolCall[Closer].pc = "returned"
=============================================================================
