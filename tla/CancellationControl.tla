------------------------ MODULE CancellationControl ------------------------
(***************************************************************************)
(* Durable cancellation controls: SQLiteCancellationStore and              *)
(* RedisCancellationStore, the tokens and heartbeats of the executions     *)
(* that own a control, and the requests of whoever wants them to stop.     *)
(*                                                                         *)
(* Controls form a tree. An execution polls its control, and the read      *)
(* walks up the parents that the rows record: in one transaction in        *)
(* SQLite, key by key in Redis. Time is relative: a row keeps the time     *)
(* left until it expires. SQLite deletes expired rows when the next        *)
(* operation purges, Redis at once.                                        *)
(***************************************************************************)
EXTENDS Integers

CONSTANTS
    Control,      \* control ids
    NoControl,    \* the parent of a root
    Parent,       \* [Control -> Control or NoControl]: parent_control_id
    TTL,          \* active_ttl_seconds; 0 means rows do not expire
    Heartbeat,    \* heartbeat_seconds
    Retention,    \* retention_seconds; 0 deletes the row at once
    Poller,       \* controls whose owners poll
    Unreliable,   \* controls whose owners may stall or crash
    Stores        \* the implementations considered

ASSUME ControlConstants ==
    /\ NoControl \notin Control
    /\ Parent \in [Control -> Control \cup {NoControl}]
    /\ TTL \in Nat /\ Retention \in Nat /\ Heartbeat \in Nat
    /\ TTL > 0 => Heartbeat > 0 /\ 2 * Heartbeat <= TTL
    /\ Poller \subseteq Control /\ Unreliable \subseteq Control
    /\ Stores \subseteq {"sqlite", "redis"}

VARIABLES
    store,        \* the implementation in use, fixed from the start
    rows,         \* control -> its row
    phase,        \* control -> what the execution that owns it is doing
    since,        \* control -> time since the owner's last heartbeat
    asking,       \* controls with a request between its two transactions
    poll          \* control -> the owner's last read, or the one under way

controlVars == <<store, rows, phase, since, asking, poll>>

NoExpiry == -1
Lifetime(seconds) == IF seconds = 0 THEN NoExpiry ELSE seconds

\* What a walk comes by that starts at c and goes on from d to next[d], until
\* that is NoControl: the smallest set that holds c and whatever is next. (A
\* fixpoint rather than a recursive function, which could not be proved about.)
Walk(c, next) ==
    {d \in Control : \A S \in SUBSET Control :
        c \in S /\ (\A e \in S : next[e] \in S \cup {NoControl}) => d \in S}

\* A control and its ancestors up to the root.
Path == [c \in Control |-> Walk(c, Parent)]

Children(c) == {d \in Control : Parent[d] = c}

Row == [here : BOOLEAN, requested : BOOLEAN, retired : BOOLEAN, left : Nat \cup {NoExpiry}]
NoRow == [here |-> FALSE, requested |-> FALSE, retired |-> FALSE, left |-> 0]
NewRow == [here |-> TRUE, requested |-> FALSE, retired |-> FALSE, left |-> Lifetime(TTL)]

\* "running" heartbeats in time; "stalled" may not, and never counts as
\* running again.
ControlPhases == {"none", "created", "running", "stalled", "lost", "returned", "crashed", "ended"}

\* at: the next control a Redis read will fetch; owed: the requested controls
\* that the read must not miss; answer: what it returned.
Poll == [at : Control \cup {NoControl}, owed : SUBSET Control, answer : {"none", "no", "yes"}]
NoPoll == [at |-> NoControl, owed |-> {}, answer |-> "none"]

ControlInit ==
    /\ store \in Stores
    /\ rows = [c \in Control |-> NoRow]
    /\ phase = [c \in Control |-> "none"]
    /\ since = [c \in Control |-> 0]
    /\ asking = {}
    /\ poll = [c \in Control |-> NoPoll]

-----------------------------------------------------------------------------
(* Rows *)

\* _purge_expired: a row past its time is gone.
Purge(R) == [c \in Control |-> IF R[c].left = 0 THEN NoRow ELSE R[c]]

\* Mutant: touching does not look at retired_at.
ExtendedAnyway(row) == IF row.here /\ TTL > 0 THEN [row EXCEPT !.left = TTL] ELSE row

\* touch of one row: a retired row is never extended.
Extended(row) ==
    IF row.here /\ ~row.retired /\ TTL > 0 THEN [row EXCEPT !.left = TTL] ELSE row

\* create: a missing row is inserted, a row in use is kept and extended.
Created(row) == IF row.here THEN Extended(row) ELSE NewRow

Touchable(row) == row.here /\ ~row.retired

Mark(row) == [row EXCEPT !.requested = TRUE]

\* Mutant: SET without an expiry makes the key persistent.
MarkedForGood(row) ==
    IF ~Touchable(row) \/ row.requested THEN row
    ELSE [Mark(row) EXCEPT !.left = NoExpiry]

\* request, the write: Redis sets the key again and with it its expiry.
Marked(row) ==
    IF ~Touchable(row) \/ row.requested THEN row
    ELSE IF store = "redis" THEN [Mark(row) EXCEPT !.left = Lifetime(TTL)]
    ELSE Mark(row)

-----------------------------------------------------------------------------
(* The execution that owns a control *)

InState(c, phases) == phase[c] \in phases

\* The parent derives a control for a child and builds its token.
Create(c) ==
    /\ InState(c, {"none"})
    /\ Parent[c] # NoControl => InState(Parent[c], {"running", "stalled"})
    /\ rows' = [Purge(rows) EXCEPT ![c] = Created(@)]
    /\ phase' = [phase EXCEPT ![c] = "created"]
    /\ UNCHANGED <<store, since, asking, poll>>

\* The child builds its own token, which creates the row again if it is gone,
\* and starts the heartbeat, which with a TTL touches it; a retired row refuses.
StartHeartbeat(c) ==
    LET row == Created(Purge(rows)[c])
    IN  /\ InState(c, {"created"})
        /\ rows' = [Purge(rows) EXCEPT ![c] = Extended(row)]
        /\ phase' = [phase EXCEPT ![c] = IF TTL = 0 \/ Touchable(row) THEN "running"
                                              ELSE "lost"]
        /\ since' = [since EXCEPT ![c] = 0]
        /\ UNCHANGED <<store, asking, poll>>

\* CancellationHeartbeat._run: touch, and give up when the row is not there.
Beat(c) ==
    LET R == Purge(rows)
    IN  /\ InState(c, {"running", "stalled"}) /\ TTL > 0
        /\ rows' = [R EXCEPT ![c] = Extended(@)]
        /\ phase' = [phase EXCEPT ![c] = IF Touchable(R[c]) THEN @ ELSE "lost"]
        /\ since' = [since EXCEPT ![c] = 0]
        /\ UNCHANGED <<store, asking, poll>>

\* A heartbeat thread that is not scheduled in time.
Stall(c) ==
    /\ c \in Unreliable /\ InState(c, {"running"}) /\ TTL > 0
    /\ phase' = [phase EXCEPT ![c] = "stalled"]
    /\ since' = [since EXCEPT ![c] = 0]
    /\ UNCHANGED <<store, rows, asking, poll>>

Crash(c) ==
    /\ c \in Unreliable /\ InState(c, {"created", "running", "stalled", "lost"})
    /\ phase' = [phase EXCEPT ![c] = "crashed"]
    /\ since' = [since EXCEPT ![c] = 0]
    /\ poll' = [poll EXCEPT ![c] = NoPoll]
    /\ UNCHANGED <<store, rows, asking>>

\* Structured concurrency: an execution returns after all its children did.
Return(c) ==
    /\ InState(c, {"running", "stalled", "lost"})
    /\ \A d \in Children(c) : InState(d, {"none", "ended"})
    /\ phase' = [phase EXCEPT ![c] = "returned"]
    /\ since' = [since EXCEPT ![c] = 0]
    /\ poll' = [poll EXCEPT ![c] = NoPoll]
    /\ UNCHANGED <<store, rows, asking>>

\* retire: the parent of a child that returned or was found dead, the Project
\* for a root. SQLite does not purge first.
Retire(c) ==
    /\ InState(c, {"returned", "crashed"})
    /\ Parent[c] # NoControl => InState(Parent[c], {"running", "stalled", "lost"})
    /\ rows' = [rows EXCEPT ![c] =
                  IF @.here /\ Retention > 0
                  THEN [@ EXCEPT !.retired = TRUE, !.left = Retention] ELSE NoRow]
    /\ phase' = [phase EXCEPT ![c] = "ended"]
    /\ UNCHANGED <<store, since, asking, poll>>

-----------------------------------------------------------------------------
(* Reading *)

\* Mutant: the walk ends at the control's own parent.
OnwardOnce(c, d, row) == IF row.here /\ ~row.requested /\ d = c THEN Parent[d] ELSE NoControl

\* Where a read of c goes after d: to the parent, unless the row is missing or
\* requested.
Onward(c, d, row) == IF row.here /\ ~row.requested THEN Parent[d] ELSE NoControl

\* The controls a read looks at when nothing changes meanwhile.
Visited(c, R) == Walk(c, [d \in Control |-> Onward(c, d, R[d])])

Answer(yes) == IF yes THEN "yes" ELSE "no"

\* The requested controls on an unbroken path to c.
Requested(c, R) ==
    IF \A d \in Path[c] : R[d].here THEN {d \in Path[c] : R[d].requested} ELSE {}

Polling(c) == c \in Poller /\ InState(c, {"running", "stalled"}) /\ poll[c].answer # "yes"

\* SQLiteCancellationStore.read, one transaction.
Read(c) ==
    LET R == Purge(rows)
        V == Visited(c, R)
    IN  /\ store = "sqlite" /\ Polling(c)
        /\ rows' = [d \in Control |-> IF d \in V THEN Extended(R[d]) ELSE R[d]]
        /\ poll' = [poll EXCEPT ![c] = [at |-> NoControl, owed |-> Requested(c, R),
                                        answer |-> Answer(\E d \in V : R[d].requested)]]
        /\ UNCHANGED <<store, phase, since, asking>>

\* RedisCancellationStore.read begins.
BeginRead(c) ==
    /\ store = "redis" /\ Polling(c) /\ poll[c].at = NoControl
    /\ poll' = [poll EXCEPT ![c] = [at |-> c, owed |-> Requested(c, rows), answer |-> "none"]]
    /\ UNCHANGED <<store, rows, phase, since, asking>>

\* One key of the walk: fetched, kept alive, and answered or passed.
ReadKey(c) ==
    LET d    == poll[c].at
        row  == rows[d]
        next == Onward(c, d, row)
    IN  /\ InState(c, {"running", "stalled"}) /\ d # NoControl
        /\ rows' = [rows EXCEPT ![d] = Extended(@)]
        /\ poll' = [poll EXCEPT ![c].at = next,
                                ![c].answer = IF next # NoControl THEN "none" ELSE Answer(row.requested)]
        /\ UNCHANGED <<store, phase, since, asking>>

-----------------------------------------------------------------------------
(* Requesting cancellation: create, then mark *)

\* The requester (the parent, a stage that failed, a supervisor at a deadline)
\* may come late. It asks once: a request of a marked row would only extend it.
Request(c) ==
    /\ ~InState(c, {"none", "ended"}) /\ c \notin asking
    /\ ~rows[c].requested
    /\ rows' = [Purge(rows) EXCEPT ![c] = Created(@)]
    /\ asking' = asking \cup {c}
    /\ UNCHANGED <<store, phase, since, poll>>

\* Redis creates a key that went away in between and tries again; SQLite
\* updates no row and returns False.
MarkRequested(c) ==
    LET R == Purge(rows)
        again == store = "redis" /\ ~R[c].here
    IN  /\ c \in asking
        /\ rows' = [R EXCEPT ![c] = IF again THEN NewRow ELSE Marked(@)]
        /\ asking' = IF again THEN asking ELSE asking \ {c}
        /\ UNCHANGED <<store, phase, since, poll>>

\* Time: a running owner's heartbeat is never late.
Tick ==
    /\ TTL > 0
    /\ \A c \in Control : InState(c, {"running"}) => since[c] < Heartbeat
    /\ LET aged == [c \in Control |-> IF rows[c].left > 0 THEN [rows[c] EXCEPT !.left = @ - 1]
                                      ELSE rows[c]]
       IN  rows' = IF store = "redis" THEN Purge(aged) ELSE aged
    /\ since' = [c \in Control |-> IF InState(c, {"running"}) THEN since[c] + 1 ELSE 0]
    /\ UNCHANGED <<store, phase, asking, poll>>

ControlNext ==
    \/ \E c \in Control :
          \/ Create(c) \/ StartHeartbeat(c) \/ Beat(c) \/ Stall(c) \/ Crash(c)
          \/ Return(c) \/ Retire(c)
          \/ Read(c) \/ BeginRead(c) \/ ReadKey(c)
          \/ Request(c) \/ MarkRequested(c)
    \/ Tick

ControlSpec == ControlInit /\ [][ControlNext]_controlVars

\* Time passes, heartbeat threads of live processes run (a stalled one late),
\* and whoever started a request finishes it.
ControlFairSpec ==
    /\ ControlSpec
    /\ WF_controlVars(Tick)
    /\ \A c \in Control : WF_controlVars(Beat(c)) /\ WF_controlVars(MarkRequested(c))

-----------------------------------------------------------------------------
(* Properties *)

\* Rows, phases and polls keep their shapes, and a missing row is empty.
ControlTypeOK ==
    /\ store \in Stores
    /\ rows \in [Control -> Row]
    /\ \A c \in Control : ~rows[c].here => rows[c] = NoRow
    /\ phase \in [Control -> ControlPhases]
    /\ since \in [Control -> 0 .. Heartbeat]
    /\ asking \subseteq Control
    /\ poll \in [Control -> Poll]

Live(c) == rows[c].here /\ rows[c].left # 0

\* test_retained_cancellation_control_cannot_be_reactivated_by_late_read: as
\* long as a row lives, a request made on it is not forgotten, and once it is
\* retired nobody brings it back or makes it last longer, neither a late read,
\* a heartbeat or a token, nor a request between its two transactions.
RowsOnlyAdvance ==
    [][\A c \in Control : Live(c) /\ rows'[c].here =>
          /\ rows[c].requested => rows'[c].requested
          /\ rows[c].retired => rows'[c].retired /\ rows'[c].left <= rows[c].left]_controlVars

\* "One fixed-size child reference can observe cancellation of any ancestor":
\* a poll that began after the request does not answer "no" while everybody
\* on the path heartbeats in time, also when Redis is read key by key.
CancelHeard ==
    \A c \in Control :
        /\ poll[c].answer = "no"
        /\ \A d \in Path[c] : InState(d, {"running"})
        => poll[c].owed = {}

\* Crashes leave no control behind: when an execution and all below it have
\* ended or died, its row runs out.
Below(c) == {d \in Control : c \in Path[d]}
RowsReclaimed ==
    \A c \in Control :
        (\A d \in Below(c) : InState(d, {"crashed", "ended"})) ~> ~Live(c)
=============================================================================
