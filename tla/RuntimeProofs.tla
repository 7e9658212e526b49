---------------------------- MODULE RuntimeProofs ----------------------------
(***************************************************************************)
(* TLAPS proofs about the Project L0 runtime and the cancellation          *)
(* controls: L0Runtime for any number of Cases, slots, controls and        *)
(* failing calls, CancellationControl for any tree of controls and any     *)
(* lifetimes, in SQLite and in Redis.                                      *)
(***************************************************************************)
EXTENDS L0Runtime, CancellationControl, TLAPS

-----------------------------------------------------------------------------
(* L0 runtime: which control is whose to retire.                           *)

RefTypes ==
    /\ ctl \in [ControlRef -> {"none", "made", "issued", "refused", "retiring", "retired",
                               "failed"}]
    /\ stored \in [ControlRef -> {"none", "live", "retired"}]
    /\ issued \in SUBSET ControlRef /\ toRetire \in SUBSET ControlRef
    /\ closing \in {"open", "retiring", "failing", "closed", "raised"}

\* Every control a caller was given is retired, or somebody still has it on a
\* list, or close() will raise.
NotForgotten ==
    \A k \in ControlRef :
        ctl[k] \in {"issued", "retiring", "retired", "failed"} =>
            \/ stored[k] = "retired"
            \/ k \in issued \cup toRetire
            \/ closing \in {"failing", "raised"}

\* The row is retired before the entry goes.
RowFirst == \A k \in ControlRef : ctl[k] \in {"retiring", "retired"} => stored[k] = "retired"

\* The lists change hands once.
TakenOver ==
    /\ closing # "open" => issued = {}
    /\ closing \in {"open", "closed", "raised"} => toRetire = {}

RefInv == RefTypes /\ NotForgotten /\ RowFirst /\ TakenOver

\* Each step on the controls keeps them accounted for.
LEMMA RefStep == RefInv /\ [RuntimeNext]_runtimeVars => RefInv'
<1> SUFFICES ASSUME RefInv, [RuntimeNext]_runtimeVars PROVE RefInv'
  OBVIOUS
<1> USE DEF RefInv, RefTypes, NotForgotten, RowFirst, TakenOver
<1>1. CASE UNCHANGED refVars
  BY <1>1 DEF refVars
<1>2. ASSUME NEW k \in ControlRef, CreateControl(k) PROVE RefInv'
  BY <1>2 DEF CreateControl
<1>3. ASSUME NEW k \in ControlRef, IssueControl(k) PROVE RefInv'
  BY <1>3 DEF IssueControl
<1>4. ASSUME NEW k \in ControlRef, RetireRow(k) PROVE RefInv'
  BY <1>4 DEF RetireRow
<1>5. ASSUME NEW k \in ControlRef, ForgetRef(k) PROVE RefInv'
  BY <1>5 DEF ForgetRef
<1>6. ASSUME NEW k \in ControlRef, CloseRetires(k) PROVE RefInv'
  BY <1>6 DEF CloseRetires
<1>7. CASE CloseRuntimeL0
  BY <1>7 DEF CloseRuntimeL0
<1>8. CASE CloseReturns
  BY <1>8 DEF CloseReturns
<1>9. ASSUME NEW c \in CaseRun, RunnerStep(c) \/ HeartbeatStep(c) \/ LeaseRunsOut(c)
      PROVE  UNCHANGED refVars
  BY <1>9 DEF RunnerStep, HeartbeatStep, AcquireCase, StartLeaseGuard, JudgeResult, CloseGuard,
              ReleaseCase, GuardBeat, BeatAnswered, LeaseRunsOut
<1>10. UNCHANGED runtimeVars => UNCHANGED refVars
  BY DEF runtimeVars, refVars
<1> QED BY <1>1, <1>2, <1>3, <1>4, <1>5, <1>6, <1>7, <1>8, <1>9, <1>10 DEF RuntimeNext

\* For any number of controls and failing calls, when close() returns every
\* control that a caller was given is retired.
THEOREM ControlsRetiredThm == RuntimeSpec => []ControlsRetired
<1>1. RuntimeInit => RefInv
  BY DEF RuntimeInit, RefInv, RefTypes, NotForgotten, RowFirst, TakenOver
<1>2. RefInv => ControlsRetired
  BY DEF RefInv, NotForgotten, TakenOver, ControlsRetired
<1> QED BY <1>1, <1>2, RefStep, PTL DEF RuntimeSpec

\* A result is accepted only while the authority has the Case's lease active.
THEOREM ResultsAreFencedThm == RuntimeSpec => ResultsAreFenced
<1>1. [RuntimeNext]_runtimeVars => [\A c \in accepted' \ accepted : c \in Leased]_runtimeVars
  <2> SUFFICES ASSUME RuntimeNext PROVE \A c \in accepted' \ accepted : c \in Leased
    OBVIOUS
  <2>1. ASSUME NEW c \in CaseRun, JudgeResult(c)
        PROVE  \A d \in accepted' \ accepted : d \in Leased
    BY <2>1 DEF JudgeResult, GuardIsCurrent, Leased
  <2>2. ASSUME NEW c \in CaseRun, \/ AcquireCase(c) \/ StartLeaseGuard(c) \/ CloseGuard(c)
                                  \/ ReleaseCase(c) \/ HeartbeatStep(c) \/ LeaseRunsOut(c)
        PROVE  accepted' = accepted
    BY <2>2 DEF AcquireCase, StartLeaseGuard, CloseGuard, ReleaseCase, HeartbeatStep, GuardBeat,
                BeatAnswered, LeaseRunsOut
  <2>3. ASSUME NEW k \in ControlRef, \/ CreateControl(k) \/ IssueControl(k) \/ RetireRow(k)
                                     \/ ForgetRef(k) \/ CloseRetires(k)
        PROVE  accepted' = accepted
    BY <2>3 DEF CreateControl, IssueControl, RetireRow, ForgetRef, CloseRetires, guardVars
  <2>4. CloseRuntimeL0 \/ CloseReturns => accepted' = accepted
    BY DEF CloseRuntimeL0, CloseReturns, guardVars
  <2> QED BY <2>1, <2>2, <2>3, <2>4 DEF RuntimeNext, RunnerStep
<1> QED BY <1>1, PTL DEF RuntimeSpec, ResultsAreFenced

-----------------------------------------------------------------------------
(* Cancellation rows: what an operation may make of a row.                 *)

\* A step of a row that is not a retirement: while the row lives, a request
\* stays, and retirement stays without more time left.
RowStep(r, s) ==
    /\ s \in Row
    /\ s.retired => r.retired
    /\ r.here /\ r.left # 0 /\ s.here =>
          /\ r.requested => s.requested
          /\ r.retired => s.retired /\ s.left <= r.left

PurgedRow(r) == IF r.left = 0 THEN NoRow ELSE r
AgedRow(r) == IF r.left > 0 THEN [r EXCEPT !.left = @ - 1] ELSE r

\* What an operation other than retire may make of a row, and what a tick may.
Touches(r) ==
    {r, PurgedRow(r), Extended(r), Extended(PurgedRow(r)), Marked(PurgedRow(r)),
     Created(PurgedRow(r)), Extended(Created(PurgedRow(r)))}
        \cup (IF PurgedRow(r).here THEN {} ELSE {NewRow})
Agings(r) == {AgedRow(r), PurgedRow(AgedRow(r))}

\* The lifetimes of rows.
LEMMA Lifetimes ==
    /\ Lifetime(TTL) \in Nat \cup {NoExpiry} /\ TTL \in Nat \cup {NoExpiry}
    /\ Retention \in Nat \cup {NoExpiry}
BY ControlConstants DEF Lifetime, NoExpiry

\* Fresh rows are rows and are not retired.
LEMMA FreshRows == NoRow \in Row /\ ~NoRow.retired /\ ~NoRow.here /\ NewRow \in Row /\ ~NewRow.retired
BY Lifetimes DEF NoRow, NewRow, Row

\* touch keeps what was requested and leaves a retired row alone.
LEMMA ExtendedRow ==
    ASSUME NEW r \in Row
    PROVE  /\ Extended(r) \in Row
           /\ Extended(r).here <=> r.here
           /\ Extended(r).requested <=> r.requested
           /\ Extended(r).retired <=> r.retired
           /\ r.retired => Extended(r) = r
<1>1. CASE r.here /\ ~r.retired /\ TTL > 0
  <2>1. Extended(r) = [r EXCEPT !.left = TTL]
    BY <1>1 DEF Extended
  <2>2. [r EXCEPT !.left = TTL] \in Row
    BY Lifetimes DEF Row
  <2>3. /\ [r EXCEPT !.left = TTL].here = r.here
        /\ [r EXCEPT !.left = TTL].requested = r.requested
        /\ [r EXCEPT !.left = TTL].retired = r.retired
    BY DEF Row
  <2> QED BY <1>1, <2>1, <2>2, <2>3
<1>2. CASE ~(r.here /\ ~r.retired /\ TTL > 0)
  BY <1>2 DEF Extended
<1> QED BY <1>1, <1>2

\* The write of a request keeps the rest of the row.
LEMMA MarkedRow ==
    ASSUME NEW r \in Row
    PROVE  /\ Marked(r) \in Row
           /\ Marked(r).here <=> r.here
           /\ r.requested => Marked(r).requested
           /\ Marked(r).retired <=> r.retired
           /\ r.retired => Marked(r) = r
<1>0. PICK m : m = Mark(r)
  OBVIOUS
<1>1. m \in Row /\ m.here = r.here /\ m.requested = TRUE /\ m.retired = r.retired
  BY <1>0 DEF Mark, Row
<1>2. PICK e : e = [m EXCEPT !.left = Lifetime(TTL)]
  OBVIOUS
<1>3. e \in Row /\ e.here = m.here /\ e.requested = m.requested /\ e.retired = m.retired
  BY <1>1, <1>2, Lifetimes DEF Row
<1>4. Marked(r) = r \/ (~r.retired /\ (Marked(r) = m \/ Marked(r) = e))
  BY <1>0, <1>2 DEF Marked, Touchable
<1> QED BY <1>1, <1>3, <1>4

\* What each operation makes of a row is a step of the row.
LEMMA RowSteps ==
    ASSUME NEW r \in Row, NEW s \in Touches(r) \cup Agings(r)
    PROVE  RowStep(r, s)
<1>0. r.left \in Nat \cup {NoExpiry} /\ NoExpiry = -1
  BY DEF Row, NoExpiry
<1>1. RowStep(r, r)
  BY <1>0 DEF RowStep
<1>2. PurgedRow(r) \in Row /\ (r.left # 0 => PurgedRow(r) = r) /\ (r.left = 0 => PurgedRow(r) = NoRow)
  BY FreshRows DEF PurgedRow
<1>3. RowStep(r, PurgedRow(r))
  BY <1>1, <1>2, FreshRows DEF RowStep
<1>4. RowStep(r, Extended(r)) /\ RowStep(r, Marked(r))
  BY <1>0, ExtendedRow, MarkedRow DEF RowStep
<1>5. RowStep(r, Extended(PurgedRow(r))) /\ RowStep(r, Marked(PurgedRow(r)))
  BY <1>2, <1>4, FreshRows, ExtendedRow, MarkedRow DEF RowStep
<1>6. PICK n : n = Created(PurgedRow(r))
  OBVIOUS
<1>7. n \in Row /\ RowStep(r, n) /\ (r.left # 0 /\ r.here => n = Extended(r))
      /\ (~(r.left # 0 /\ r.here) => n = NewRow)
  BY <1>2, <1>4, <1>6, FreshRows, ExtendedRow DEF RowStep, Created
<1>8. RowStep(r, Extended(n))
  <2>1. /\ Extended(n) \in Row /\ (Extended(n).here <=> n.here)
        /\ (Extended(n).requested <=> n.requested) /\ (Extended(n).retired <=> n.retired)
        /\ n.retired => Extended(n) = n
    BY <1>7, ExtendedRow
  <2> QED BY <1>7, <2>1 DEF RowStep
<1>9. PICK a : a = AgedRow(r)
  OBVIOUS
<1>10. a \in Row /\ a.here = r.here /\ a.requested = r.requested /\ a.retired = r.retired
       /\ a.left <= r.left
  <2>1. CASE r.left > 0
    <3>1. a = [r EXCEPT !.left = r.left - 1] /\ r.left - 1 \in Nat
      BY <1>0, <1>9, <2>1 DEF AgedRow
    <3>2. r.left - 1 \in Nat \cup {NoExpiry} /\ r.left - 1 <= r.left
      BY <1>0, <3>1
    <3>3. a \in Row
      BY <3>1, <3>2 DEF Row
    <3>4. a.here = r.here /\ a.requested = r.requested /\ a.retired = r.retired
          /\ a.left = r.left - 1
      BY <3>1 DEF Row
    <3> QED BY <3>2, <3>3, <3>4
  <2>2. CASE ~(r.left > 0)
    BY <1>0, <1>9, <2>2 DEF AgedRow
  <2> QED BY <2>1, <2>2
<1>11. RowStep(r, a)
  BY <1>10 DEF RowStep
<1>12. RowStep(r, PurgedRow(a))
  BY <1>10, <1>11, FreshRows DEF RowStep, PurgedRow
<1>13. ~PurgedRow(r).here => RowStep(r, NewRow)
  BY <1>2, FreshRows DEF RowStep
<1> QED BY <1>1, <1>3, <1>4, <1>5, <1>6, <1>7, <1>8, <1>9, <1>11, <1>12, <1>13
        DEF Touches, Agings

\* Rows are retired with the execution that owned them, and that is once.
ControlInv ==
    /\ rows \in [Control -> Row] /\ phase \in [Control -> ControlPhases]
    /\ \A c \in Control : rows[c].retired => phase[c] = "ended"

\* Every row is touched or left alone, or all of them age; who has ended stays so.
RowsStep ==
    /\ rows' \in [Control -> Row] /\ phase' \in [Control -> ControlPhases]
    /\ \A e \in Control : phase[e] = "ended" => phase'[e] = "ended"
RowsTouched == RowsStep /\ \A e \in Control : rows'[e] \in Touches(rows[e])
RowsAged == RowsStep /\ \A e \in Control : rows'[e] \in Agings(rows[e])

\* What an update of one purged row makes of all of them.
LEMMA OneRow ==
    ASSUME rows \in [Control -> Row], NEW c \in Control, NEW s \in Touches(rows[c]),
           rows' = [Purge(rows) EXCEPT ![c] = s]
    PROVE  rows' \in [Control -> Row] /\ \A e \in Control : rows'[e] \in Touches(rows[e])
<1>1. \A e \in Control : PurgedRow(rows[e]) \in Touches(rows[e])
  BY DEF Touches
<1>2. Purge(rows) = [e \in Control |-> PurgedRow(rows[e])]
  BY DEF Purge, PurgedRow
<1>3. \A e \in Control : rows'[e] = IF e = c THEN s ELSE PurgedRow(rows[e])
  BY <1>2
<1>4. \A e \in Control : rows'[e] \in Touches(rows[e])
  BY <1>1, <1>3
<1>5. \A e \in Control : rows'[e] \in Row
  BY <1>4, RowSteps DEF RowStep
<1>6. rows' = [e \in Control |-> rows'[e]]
  BY <1>2
<1> QED BY <1>4, <1>5, <1>6

\* Creating a control, and its owner's heartbeat.
LEMMA OwnerSteps ==
    ASSUME ControlInv, NEW c \in Control,
           \/ Create(c) \/ StartHeartbeat(c) \/ Beat(c) \/ Stall(c) \/ Crash(c) \/ Return(c)
    PROVE  RowsTouched
<1> USE DEF ControlInv, InState
<1>0. PICK r : r = rows[c]
  OBVIOUS
<1>1. r \in Row /\ Purge(rows)[c] = PurgedRow(r) /\ Purge(rows) \in [Control -> Row]
  BY <1>0, FreshRows DEF Purge, PurgedRow
<1>2. /\ phase' \in [Control -> ControlPhases]
      /\ \A e \in Control : phase[e] = "ended" => phase'[e] = "ended"
  BY DEF Create, StartHeartbeat, Beat, Stall, Crash, Return, ControlPhases
<1>3. CASE Create(c)
  <2>1. rows' = [Purge(rows) EXCEPT ![c] = Created(PurgedRow(r))]
    BY <1>1, <1>3 DEF Create
  <2>2. Created(PurgedRow(r)) \in Touches(r)
    BY DEF Touches
  <2> QED BY <1>0, <1>2, <2>1, <2>2, OneRow DEF RowsTouched, RowsStep
<1>4. CASE StartHeartbeat(c)
  <2>1. rows' = [Purge(rows) EXCEPT ![c] = Extended(Created(PurgedRow(r)))]
    BY <1>1, <1>4 DEF StartHeartbeat
  <2>2. Extended(Created(PurgedRow(r))) \in Touches(r)
    BY DEF Touches
  <2> QED BY <1>0, <1>2, <2>1, <2>2, OneRow DEF RowsTouched, RowsStep
<1>5. CASE Beat(c)
  <2>1. rows' = [Purge(rows) EXCEPT ![c] = Extended(PurgedRow(r))]
    BY <1>1, <1>5 DEF Beat
  <2>2. Extended(PurgedRow(r)) \in Touches(r)
    BY DEF Touches
  <2> QED BY <1>0, <1>2, <2>1, <2>2, OneRow DEF RowsTouched, RowsStep
<1>6. CASE rows' = rows
  BY <1>2, <1>6 DEF RowsTouched, RowsStep, Touches
<1> QED BY <1>3, <1>4, <1>5, <1>6 DEF Stall, Crash, Return

\* Polls and requests.
LEMMA OtherSteps ==
    ASSUME ControlInv,
           \/ \E c \in Control : Read(c) \/ BeginRead(c) \/ ReadKey(c)
           \/ \E c \in Control : Request(c) \/ MarkRequested(c)
    PROVE  RowsTouched
<1> USE DEF ControlInv
<1>1. phase' = phase
  BY DEF Read, BeginRead, ReadKey, Request, MarkRequested
<1>2. Purge(rows) = [e \in Control |-> PurgedRow(rows[e])]
  BY DEF Purge, PurgedRow
<1>3. ASSUME NEW f, rows' = [e \in Control |-> f[e]],
             \A e \in Control : f[e] \in Touches(rows[e])
      PROVE  RowsTouched
  <2>1. \A e \in Control : f[e] \in Row /\ rows'[e] = f[e]
    BY <1>3, RowSteps DEF RowStep
  <2> QED BY <1>1, <1>3, <2>1 DEF RowsTouched, RowsStep
<1>4. ASSUME NEW c \in Control, Read(c) PROVE RowsTouched
  <2>1. PICK V : rows' = [e \in Control |-> IF e \in V THEN Extended(Purge(rows)[e])
                                             ELSE Purge(rows)[e]]
    BY <1>4 DEF Read
  <2> DEFINE f == [e \in Control |-> IF e \in V THEN Extended(PurgedRow(rows[e]))
                                     ELSE PurgedRow(rows[e])]
  <2>2. rows' = [e \in Control |-> f[e]]
    BY <1>2, <2>1
  <2>3. \A e \in Control : f[e] \in Touches(rows[e])
    BY DEF Touches
  <2> QED BY <1>3, <2>2, <2>3
<1>5. ASSUME NEW c \in Control, BeginRead(c) PROVE RowsTouched
  BY <1>1, <1>5 DEF BeginRead, RowsTouched, RowsStep, Touches
<1>6. ASSUME NEW c \in Control, ReadKey(c) PROVE RowsTouched
  <2>1. PICK d : rows' = [rows EXCEPT ![d] = Extended(rows[d])]
    BY <1>6 DEF ReadKey
  <2> DEFINE f == [e \in Control |-> IF e = d THEN Extended(rows[e]) ELSE rows[e]]
  <2>2. rows' = [e \in Control |-> f[e]]
    BY <2>1
  <2>3. \A e \in Control : f[e] \in Touches(rows[e])
    BY DEF Touches
  <2> QED BY <1>3, <2>2, <2>3
<1>7. ASSUME NEW c \in Control, Request(c) PROVE RowsTouched
  <2>1. rows' = [Purge(rows) EXCEPT ![c] = Created(PurgedRow(rows[c]))]
    BY <1>2, <1>7 DEF Request
  <2>2. Created(PurgedRow(rows[c])) \in Touches(rows[c])
    BY DEF Touches
  <2> QED BY <1>1, <2>1, <2>2, OneRow DEF RowsTouched, RowsStep
<1>8. ASSUME NEW c \in Control, MarkRequested(c) PROVE RowsTouched
  <2>1. PICK s \in Touches(rows[c]) : rows' = [Purge(rows) EXCEPT ![c] = s]
    <3>1. Purge(rows)[c] = PurgedRow(rows[c])
      BY <1>2
    <3>2. CASE store = "redis" /\ ~PurgedRow(rows[c]).here
      <4>1. rows' = [Purge(rows) EXCEPT ![c] = NewRow] /\ NewRow \in Touches(rows[c])
        BY <1>8, <3>1, <3>2 DEF MarkRequested, Touches
      <4> QED BY <4>1
    <3>3. CASE ~(store = "redis" /\ ~PurgedRow(rows[c]).here)
      <4>1. rows' = [Purge(rows) EXCEPT ![c] = Marked(PurgedRow(rows[c]))]
        BY <1>8, <3>1, <3>3 DEF MarkRequested
      <4>2. Marked(PurgedRow(rows[c])) \in Touches(rows[c])
        BY DEF Touches
      <4> QED BY <4>1, <4>2
    <3> QED BY <3>2, <3>3
  <2> QED BY <1>1, <2>1, OneRow DEF RowsTouched, RowsStep
<1> QED BY <1>4, <1>5, <1>6, <1>7, <1>8

\* Time.
LEMMA TickStep ==
    ASSUME ControlInv, Tick
    PROVE  RowsAged
<1> USE DEF ControlInv
<1> DEFINE aged == [e \in Control |-> AgedRow(rows[e])]
           gone == [e \in Control |-> PurgedRow(AgedRow(rows[e]))]
<1>1. rows' = aged \/ rows' = gone
  <2>1. aged = [c \in Control |-> IF rows[c].left > 0 THEN [rows[c] EXCEPT !.left = @ - 1]
                                  ELSE rows[c]]
    BY DEF AgedRow
  <2>2. Purge(aged) = gone
    BY DEF Purge, PurgedRow
  <2>3. rows' = aged \/ rows' = Purge(aged)
    BY <2>1 DEF Tick
  <2> QED BY <2>2, <2>3
<1>2. \A e \in Control : rows'[e] \in Agings(rows[e])
  BY <1>1 DEF Agings
<1>3. \A e \in Control : rows'[e] \in Row
  BY <1>2, RowSteps DEF RowStep
<1>4. rows' = [e \in Control |-> rows'[e]]
  BY <1>1
<1> QED BY <1>2, <1>3, <1>4 DEF Tick, RowsAged, RowsStep

\* Retiring: a row that is retired already is not retired again.
LEMMA RetireStep ==
    ASSUME ControlInv, NEW c \in Control, Retire(c)
    PROVE  /\ ControlInv'
           /\ \A e \in Control : e # c => rows'[e] = rows[e]
           /\ ~rows[c].retired
           /\ rows'[c].here => (rows[c].requested => rows'[c].requested)
<1> USE DEF ControlInv, Retire, InState
<1>0. PICK r, s : r = rows[c] /\ s = [r EXCEPT !.retired = TRUE, !.left = Retention]
  OBVIOUS
<1>1. r \in Row /\ ~r.retired
  BY <1>0
<1>2. s \in Row /\ s.requested = r.requested
  BY <1>0, <1>1, Lifetimes DEF Row
<1>3. rows' = [rows EXCEPT ![c] = s] \/ rows' = [rows EXCEPT ![c] = NoRow]
  BY <1>0
<1>4. /\ phase' \in [Control -> ControlPhases] /\ phase'[c] = "ended"
      /\ \A e \in Control : e # c => phase'[e] = phase[e]
  BY DEF ControlPhases
<1> QED BY <1>0, <1>1, <1>2, <1>3, <1>4, FreshRows

\* As long as a row lives, in either store, a request made on it stays, and a
\* retired row is neither brought back nor made to last longer.
THEOREM RowsOnlyAdvanceThm == ControlSpec => RowsOnlyAdvance
<1> DEFINE A == \A c \in Control : Live(c) /\ rows'[c].here =>
                   /\ rows[c].requested => rows'[c].requested
                   /\ rows[c].retired => rows'[c].retired /\ rows'[c].left <= rows[c].left
<1>1. ControlInit => ControlInv
  BY FreshRows DEF ControlInit, ControlInv, ControlPhases
<1>2. ControlInv /\ (RowsTouched \/ RowsAged) => ControlInv' /\ A
  <2>1. ControlInv /\ (RowsTouched \/ RowsAged) => \A e \in Control : RowStep(rows[e], rows'[e])
    BY RowSteps DEF ControlInv, RowsTouched, RowsAged
  <2> QED BY <2>1 DEF ControlInv, RowsTouched, RowsAged, RowsStep, RowStep, Live
<1>3. ControlInv /\ [ControlNext]_controlVars => ControlInv' /\ [A]_controlVars
  <2> SUFFICES ASSUME ControlInv, [ControlNext]_controlVars
               PROVE  ControlInv' /\ [A]_controlVars
    OBVIOUS
  <2>1. CASE UNCHANGED controlVars
    BY <2>1 DEF controlVars, ControlInv
  <2>2. ASSUME NEW c \in Control, Retire(c) PROVE ControlInv' /\ A
    <3>1. /\ ControlInv' /\ ~rows[c].retired
          /\ \A e \in Control : e # c => rows'[e] = rows[e]
          /\ rows'[c].here => (rows[c].requested => rows'[c].requested)
      BY <2>2, RetireStep
    <3>2. \A e \in Control : rows[e].left \in Int
      BY DEF ControlInv, Row, NoExpiry
    <3> QED BY <3>1, <3>2
  <2>3. ASSUME NEW c \in Control, \/ Create(c) \/ StartHeartbeat(c) \/ Beat(c) \/ Stall(c)
                                  \/ Crash(c) \/ Return(c)
        PROVE  ControlInv' /\ A
    BY <1>2, <2>3, OwnerSteps
  <2>4. CASE \/ \E c \in Control : Read(c) \/ BeginRead(c) \/ ReadKey(c)
             \/ \E c \in Control : Request(c) \/ MarkRequested(c)
             \/ Tick
    BY <1>2, <2>4, OtherSteps, TickStep
  <2> HIDE DEF A
  <2> QED BY <2>1, <2>2, <2>3, <2>4 DEF ControlNext
<1> QED BY <1>1, <1>3, PTL DEF ControlSpec, RowsOnlyAdvance

-----------------------------------------------------------------------------
(* Cancellation is heard: the walk of a read, the rows of owners that beat *)
(* in time, and what a read owes that is under way.                        *)

\* A walk holds its start, goes on where next says, and is the least such set.
LEMMA WalkIsLeast ==
    ASSUME NEW next, \A e \in Control : next[e] \in Control \cup {NoControl}, NEW c \in Control
    PROVE  /\ Walk(c, next) \subseteq Control /\ c \in Walk(c, next)
           /\ \A e \in Walk(c, next) : next[e] \in Walk(c, next) \cup {NoControl}
           /\ \A S \in SUBSET Control :
                 c \in S /\ (\A e \in S : next[e] \in S \cup {NoControl}) => Walk(c, next) \subseteq S
<1>1. Walk(c, next) \subseteq Control /\ c \in Walk(c, next)
  BY DEF Walk
<1>2. ASSUME NEW e \in Walk(c, next), next[e] # NoControl
      PROVE  next[e] \in Walk(c, next)
  <2>1. next[e] \in Control
    BY <1>1, <1>2
  <2>2. ASSUME NEW S \in SUBSET Control, c \in S, \A d \in S : next[d] \in S \cup {NoControl}
        PROVE  next[e] \in S
    BY <1>2, <2>2 DEF Walk
  <2> QED  BY <2>1, <2>2 DEF Walk
<1>3. ASSUME NEW S \in SUBSET Control, c \in S, \A d \in S : next[d] \in S \cup {NoControl}
      PROVE  Walk(c, next) \subseteq S
  BY <1>3 DEF Walk
<1> QED  BY <1>1, <1>2, <1>3

\* The path of a control leads on to its parent's.
LEMMA PathLeadsOn ==
    ASSUME NEW c \in Control
    PROVE  /\ Path[c] \subseteq Control /\ c \in Path[c]
           /\ \A e \in Path[c] : Parent[e] \in Path[c] \cup {NoControl}
           /\ \A S \in SUBSET Control :
                 c \in S /\ (\A e \in S : Parent[e] \in S \cup {NoControl}) => Path[c] \subseteq S
           /\ Parent[c] = NoControl => Path[c] = {c}
           /\ Parent[c] # NoControl => Path[c] \subseteq {c} \cup Path[Parent[c]]
<1>1. \A d \in Control : Path[d] = Walk(d, Parent) /\ Parent[d] \in Control \cup {NoControl}
  BY ControlConstants DEF Path
<1>2. \A d \in Control :
         /\ Path[d] \subseteq Control /\ d \in Path[d]
         /\ \A e \in Path[d] : Parent[e] \in Path[d] \cup {NoControl}
         /\ \A S \in SUBSET Control :
               d \in S /\ (\A e \in S : Parent[e] \in S \cup {NoControl}) => Path[d] \subseteq S
  <2> SUFFICES ASSUME NEW d \in Control
               PROVE  /\ Path[d] \subseteq Control /\ d \in Path[d]
                      /\ \A e \in Path[d] : Parent[e] \in Path[d] \cup {NoControl}
                      /\ \A S \in SUBSET Control :
                            d \in S /\ (\A e \in S : Parent[e] \in S \cup {NoControl})
                               => Path[d] \subseteq S
    OBVIOUS
  <2>1. /\ Walk(d, Parent) \subseteq Control /\ d \in Walk(d, Parent)
        /\ \A e \in Walk(d, Parent) : Parent[e] \in Walk(d, Parent) \cup {NoControl}
        /\ \A S \in SUBSET Control :
              d \in S /\ (\A e \in S : Parent[e] \in S \cup {NoControl}) => Walk(d, Parent) \subseteq S
    BY <1>1, WalkIsLeast
  <2> QED  BY <1>1, <2>1
<1>3. Parent[c] = NoControl => Path[c] = {c}
  <2> PICK S : S = {c}
    OBVIOUS
  <2>1. Parent[c] = NoControl => Path[c] \subseteq S
    BY <1>2
  <2> QED  BY <1>2, <2>1
<1>4. ASSUME Parent[c] # NoControl
      PROVE  Path[c] \subseteq {c} \cup Path[Parent[c]]
  <2>1. Parent[c] \in Control
    BY <1>1, <1>4
  <2> PICK S : S = {c} \cup Path[Parent[c]]
    OBVIOUS
  <2>2. S \in SUBSET Control /\ c \in S /\ \A e \in S : Parent[e] \in S \cup {NoControl}
    BY <1>2, <2>1
  <2> QED  BY <1>2, <2>2
<1> QED  BY <1>2, <1>3, <1>4

\* A read of a path whose rows are all there, and that comes by no request, has
\* been all the way to the root.
LEMMA NothingMissed ==
    ASSUME NEW R, NEW c \in Control,
           \A d \in Visited(c, R) : ~R[d].requested
    PROVE  Requested(c, R) = {}
<1> SUFFICES ASSUME \A d \in Path[c] : R[d].here
             PROVE  \A d \in Path[c] : ~R[d].requested
  BY DEF Requested
<1> DEFINE next == [d \in Control |-> Onward(c, d, R[d])]
<1>1. \A e \in Control : /\ Parent[e] \in Control \cup {NoControl}
                         /\ next[e] = IF R[e].here /\ ~R[e].requested THEN Parent[e] ELSE NoControl
  BY ControlConstants DEF Onward
<1>2. Visited(c, R) = Walk(c, next)
  BY DEF Visited
<1> HIDE DEF next
<1>3. \A e \in Control : next[e] \in Control \cup {NoControl}
  BY <1>1
<1> PICK V : V = Walk(c, next)
  OBVIOUS
<1>4. /\ V \subseteq Control /\ c \in V /\ \A e \in V : next[e] \in V \cup {NoControl}
      /\ \A S \in SUBSET Control :
            c \in S /\ (\A e \in S : next[e] \in S \cup {NoControl}) => V \subseteq S
  BY <1>3, WalkIsLeast
<1>5. V \subseteq Path[c]
  BY <1>1, <1>4, PathLeadsOn
<1>6. \A e \in V : Parent[e] \in V \cup {NoControl}
  BY <1>1, <1>2, <1>4, <1>5
<1>7. Path[c] \subseteq V
  BY <1>4, <1>6, PathLeadsOn
<1> QED  BY <1>2, <1>7

\* A row without a lifetime does not expire; a missing one is empty.
GoodRow(r) ==
    /\ r \in Row
    /\ ~r.here => r = NoRow
    /\ TTL = 0 /\ r.here /\ ~r.retired => r.left = NoExpiry

\* The row of an owner whose last heartbeat was n ago.
Alive(r, n) ==
    /\ r.here /\ ~r.retired
    /\ IF TTL = 0 THEN r.left = NoExpiry ELSE r.left >= TTL - n

\* Extending a row, in both cases.
LEMMA ExtendedFields ==
    ASSUME NEW r \in Row
    PROVE  /\ ~(r.here /\ ~r.retired /\ TTL > 0) => Extended(r) = r
           /\ r.here /\ ~r.retired /\ TTL > 0 => Extended(r).left = TTL
BY DEF Extended, Row

\* Good rows stay good.
LEMMA GoodStaysGood ==
    ASSUME NEW r, GoodRow(r), NEW s \in Touches(r) \cup Agings(r)
    PROVE  GoodRow(s)
<1>0. r \in Row /\ TTL \in Nat /\ NoExpiry = -1 /\ r.left \in Int
  BY ControlConstants DEF GoodRow, NoExpiry, Row
<1>1. GoodRow(NoRow) /\ GoodRow(NewRow)
  BY FreshRows, ControlConstants DEF GoodRow, NoRow, NewRow, Lifetime, NoExpiry
<1>2. ASSUME NEW t, GoodRow(t) PROVE GoodRow(PurgedRow(t))
  BY <1>1, <1>2 DEF PurgedRow
<1>3. ASSUME NEW t, GoodRow(t) PROVE GoodRow(Extended(t))
  BY <1>0, <1>3, ExtendedRow, ExtendedFields DEF GoodRow
<1>4. ASSUME NEW t, GoodRow(t) PROVE GoodRow(Created(t))
  BY <1>1, <1>3, <1>4 DEF Created
<1>5. ASSUME NEW t, GoodRow(t) PROVE GoodRow(Marked(t))
  <2>1. CASE ~t.here
    BY <1>5, <2>1 DEF Marked, Touchable
  <2>2. CASE t.here
    <3>1. t \in Row /\ Marked(t) \in Row /\ Marked(t).here /\ (Marked(t).retired <=> t.retired)
      BY <1>5, <2>2, MarkedRow DEF GoodRow
    <3>2. Marked(t).left \in {t.left, Lifetime(TTL)}
      BY <3>1 DEF Marked, Mark, Row
    <3>3. TTL = 0 => Lifetime(TTL) = NoExpiry
      BY DEF Lifetime
    <3> QED  BY <1>5, <2>2, <3>1, <3>2, <3>3 DEF GoodRow
  <2> QED  BY <2>1, <2>2
<1>6. GoodRow(AgedRow(r))
  <2>1. AgedRow(r) \in Row
    BY <1>0, RowSteps DEF RowStep, Agings
  <2>2. CASE r.left > 0
    <3>1. r.here
      BY <2>2 DEF GoodRow, NoRow
    <3>2. AgedRow(r).here /\ (AgedRow(r).retired <=> r.retired)
      BY <1>0, <2>2, <3>1 DEF AgedRow, Row
    <3>3. r.left # NoExpiry
      BY <1>0, <2>2
    <3> QED  BY <2>1, <3>1, <3>2, <3>3 DEF GoodRow
  <2>3. CASE ~(r.left > 0)
    BY <2>3 DEF AgedRow
  <2> QED  BY <2>2, <2>3
<1>7. GoodRow(PurgedRow(r)) /\ GoodRow(PurgedRow(AgedRow(r)))
  BY <1>2, <1>6
<1> QED  BY <1>1, <1>2, <1>3, <1>4, <1>5, <1>6, <1>7 DEF Touches, Agings

\* The row of an owner that beats in time is not purged and not out of time.
LEMMA AliveLasts ==
    ASSUME NEW r \in Row, NEW n \in 0 .. Heartbeat, Alive(r, n)
    PROVE  /\ r.left # 0 /\ PurgedRow(r) = r
           /\ Alive(Extended(r), 0) /\ Alive(Extended(r), n)
           /\ \A s \in Touches(r) : Alive(s, n)
           /\ TTL > 0 /\ n < Heartbeat => \A s \in Agings(r) : Alive(s, n + 1)
<1>0. /\ TTL \in Nat /\ Heartbeat \in Nat /\ NoExpiry = -1 /\ r.left \in Int /\ n \in Nat
      /\ n <= Heartbeat /\ TTL > 0 => Heartbeat > 0 /\ 2 * Heartbeat <= TTL
  BY ControlConstants DEF NoExpiry, Row
<1>1. r.left # 0
  BY <1>0 DEF Alive
<1>2. PurgedRow(r) = r
  BY <1>1 DEF PurgedRow
<1>3. /\ Extended(r).here /\ ~Extended(r).retired
      /\ Extended(r).left = IF TTL > 0 THEN TTL ELSE r.left
  BY <1>0, ExtendedRow, ExtendedFields DEF Alive
<1>4. Alive(Extended(r), 0) /\ Alive(Extended(r), n)
  BY <1>0, <1>3 DEF Alive
<1>5. Alive(Marked(r), n)
  <2>1. Marked(r).here /\ ~Marked(r).retired
    BY MarkedRow DEF Alive
  <2>2. Marked(r).left \in {r.left, Lifetime(TTL)}
    BY DEF Marked, Mark, Row
  <2>3. Lifetime(TTL) = IF TTL = 0 THEN NoExpiry ELSE TTL
    BY DEF Lifetime
  <2> QED  BY <1>0, <2>1, <2>2, <2>3 DEF Alive
<1>6. Created(r) = Extended(r)
  BY DEF Created, Alive
<1>7. Alive(Extended(Extended(r)), n)
  <2>1. Extended(r) \in Row
    BY ExtendedRow
  <2>2. /\ Extended(Extended(r)).here /\ ~Extended(Extended(r)).retired
        /\ Extended(Extended(r)).left = IF TTL > 0 THEN TTL ELSE Extended(r).left
    BY <1>0, <1>3, <2>1, ExtendedRow, ExtendedFields
  <2> QED  BY <1>0, <1>3, <2>2 DEF Alive
<1>8. \A s \in Touches(r) : Alive(s, n)
  <2>1. Touches(r) = {r, Extended(r), Marked(r), Extended(Extended(r))}
    BY <1>2, <1>6 DEF Touches, Alive
  <2> QED  BY <1>4, <1>5, <1>7, <2>1
<1>9. ASSUME TTL > 0, n < Heartbeat
      PROVE  \A s \in Agings(r) : Alive(s, n + 1)
  <2>1. r.left > 0 /\ r.left - 1 >= TTL - (n + 1) /\ r.left - 1 > 0
    BY <1>0, <1>9 DEF Alive
  <2> PICK a : a = AgedRow(r)
    OBVIOUS
  <2>2. a.here /\ ~a.retired /\ a.left = r.left - 1
    BY <2>1 DEF AgedRow, Row, Alive
  <2>3. PurgedRow(a) = a
    BY <2>1, <2>2 DEF PurgedRow
  <2>4. Alive(a, n + 1)
    BY <1>0, <1>9, <2>1, <2>2 DEF Alive
  <2> QED  BY <2>3, <2>4 DEF Agings
<1> QED  BY <1>1, <1>2, <1>4, <1>8, <1>9

\* An owner that starts its heartbeat has a row that lives.
LEMMA StartedAlive ==
    ASSUME NEW r, GoodRow(r), ~r.retired
    PROVE  Alive(Extended(Created(PurgedRow(r))), 0)
<1>0. TTL \in Nat
  BY ControlConstants
<1> PICK n : n = Created(PurgedRow(r))
  OBVIOUS
<1>1. PurgedRow(r) \in Row /\ ~PurgedRow(r).retired
  BY FreshRows DEF PurgedRow, GoodRow
<1>2. GoodRow(n)
  BY GoodStaysGood DEF Touches
<1>3. n.here /\ ~n.retired
  BY <1>1, ExtendedRow DEF Created, NewRow
<1>4. n \in Row /\ (TTL = 0 => n.left = NoExpiry)
  BY <1>2, <1>3 DEF GoodRow
<1>5. Extended(n).here /\ ~Extended(n).retired
  BY <1>3, <1>4, ExtendedRow
<1>6. TTL > 0 => Extended(n).left = TTL
  BY <1>3, <1>4, ExtendedFields
<1>7. TTL = 0 => Extended(n) = n
  BY <1>4, ExtendedFields
<1> QED  BY <1>0, <1>4, <1>5, <1>6, <1>7 DEF Alive
-----------------------------------------------------------------------------

\* Owners that beat in time have rows that live; nobody's parent is younger.
HeldInv ==
    /\ \A c \in Control : GoodRow(rows[c])
    /\ since \in [Control -> 0 .. Heartbeat]
    /\ \A c \in Control : phase[c] = "running" => Alive(rows[c], since[c])
    /\ \A c \in Control : phase[c] # "none" /\ Parent[c] # NoControl =>
                             phase[Parent[c]] \notin {"none", "created"}

\* What is still owed to a read lies ahead of it, as long as everybody on the
\* path beats in time.
OnTime(c) == \A d \in Path[c] : phase[d] = "running"

Owing(p, c, R) ==
    /\ \A d \in p.owed : d \in Path[c] /\ R[d].requested
    /\ p.at = NoControl => p.owed = {}
    /\ p.at # NoControl => p.owed \subseteq Path[p.at]

PollGood(c) ==
    /\ phase[c] \in {"none", "created"} => poll[c] = NoPoll
    /\ poll[c].at # NoControl => poll[c].at \in Path[c] /\ poll[c].answer = "none"
    /\ OnTime(c) /\ poll[c].answer # "yes" => Owing(poll[c], c, rows)

PollInv == poll \in [Control -> Poll] /\ \A c \in Control : PollGood(c)

HearingInv == ControlInv /\ HeldInv /\ PollInv /\ store \in Stores /\ asking \subseteq Control

\* A step that touches rows, and moves one owner on.
LEMMA HeldStep ==
    ASSUME ControlInv, HeldInv, NEW c \in Control,
           \A e \in Control : rows'[e] \in Touches(rows[e]),
           \A e \in Control \ {c} : phase'[e] = phase[e] /\ since'[e] = since[e],
           phase'[c] = "running" => Alive(rows'[c], since'[c]),
           phase'[c] \in {"none", "created"} => phase[c] \in {"none", "created"},
           phase[c] = "none" /\ phase'[c] # "none" /\ Parent[c] # NoControl =>
              phase[Parent[c]] \notin {"none", "created"},
           since' \in [Control -> 0 .. Heartbeat]
    PROVE  HeldInv'
<1>1. ASSUME NEW e \in Control PROVE GoodRow(rows'[e])
  BY GoodStaysGood DEF HeldInv
<1>2. ASSUME NEW e \in Control, phase'[e] = "running" PROVE Alive(rows'[e], since'[e])
  <2>1. CASE e = c
    BY <1>2, <2>1
  <2>2. CASE e # c
    <3>1. /\ phase[e] = "running" /\ since'[e] = since[e] /\ since[e] \in 0 .. Heartbeat
          /\ rows[e] \in Row /\ Alive(rows[e], since[e])
      BY <1>2, <2>2 DEF HeldInv, ControlInv
    <3> QED  BY <3>1, AliveLasts
  <2> QED  BY <2>1, <2>2
<1>3. ASSUME NEW e \in Control, phase'[e] # "none", Parent[e] # NoControl
      PROVE  phase'[Parent[e]] \notin {"none", "created"}
  <2>1. Parent[e] \in Control
    BY <1>3, ControlConstants
  <2>2. phase[Parent[e]] \notin {"none", "created"}
    BY <1>3 DEF HeldInv
  <2> QED  BY <2>1, <2>2
<1> QED  BY <1>1, <1>2, <1>3 DEF HeldInv

\* Owners at work keep their rows.
LEMMA OwnerHeld ==
    ASSUME ControlInv, HeldInv, NEW c \in Control,
           \/ Create(c) \/ StartHeartbeat(c) \/ Beat(c) \/ Stall(c) \/ Crash(c) \/ Return(c)
    PROVE  HeldInv'
<1> USE DEF ControlInv, HeldInv, InState
<1>1. \A e \in Control : rows'[e] \in Touches(rows[e])
  BY OwnerSteps DEF RowsTouched
<1>2. /\ \A e \in Control \ {c} : phase'[e] = phase[e] /\ since'[e] = since[e]
      /\ since' = since \/ since' = [since EXCEPT ![c] = 0]
  BY DEF Create, StartHeartbeat, Beat, Stall, Crash, Return
<1>3. since' \in [Control -> 0 .. Heartbeat]
  BY <1>2, ControlConstants
<1>4. phase'[c] \in {"none", "created"} => phase[c] \in {"none", "created"}
  BY DEF Create, StartHeartbeat, Beat, Stall, Crash, Return
<1>5. phase[c] = "none" /\ phase'[c] # "none" /\ Parent[c] # NoControl =>
         phase[Parent[c]] \notin {"none", "created"}
  BY DEF Create, StartHeartbeat, Beat, Stall, Crash, Return
<1> PICK r : r = rows[c]
  OBVIOUS
<1>6. r \in Row /\ GoodRow(r) /\ Purge(rows) \in [Control -> Row] /\ Purge(rows)[c] = PurgedRow(r)
  BY FreshRows DEF Purge, PurgedRow
<1>7. phase'[c] = "running" => Alive(rows'[c], since'[c])
  <2>1. CASE StartHeartbeat(c)
    <3>1. rows'[c] = Extended(Created(PurgedRow(r))) /\ since'[c] = 0 /\ ~r.retired
      BY <1>6, <2>1 DEF StartHeartbeat
    <3> QED  BY <1>6, <3>1, StartedAlive
  <2>2. CASE Beat(c)
    <3> SUFFICES ASSUME phase'[c] = "running"
                 PROVE  Alive(rows'[c], since'[c])
      OBVIOUS
    <3>1. phase[c] = "running" /\ rows'[c] = Extended(PurgedRow(r)) /\ since'[c] = 0
      BY <1>6, <2>2 DEF Beat
    <3>2. Alive(r, since[c]) /\ since[c] \in 0 .. Heartbeat
      BY <3>1
    <3> QED  BY <1>6, <3>1, <3>2, AliveLasts
  <2>3. CASE Create(c) \/ Stall(c) \/ Crash(c) \/ Return(c)
    <3>1. phase'[c] # "running"
      BY <2>3 DEF Create, Stall, Crash, Return
    <3> QED  BY <3>1
  <2> QED  BY <2>1, <2>2, <2>3
<1> QED  BY <1>1, <1>2, <1>3, <1>4, <1>5, <1>7, HeldStep

\* So do reads and requests.
LEMMA OthersHeld ==
    ASSUME ControlInv, HeldInv, NEW c \in Control,
           \/ Read(c) \/ BeginRead(c) \/ ReadKey(c) \/ Request(c) \/ MarkRequested(c)
    PROVE  HeldInv'
<1>1. \A e \in Control : rows'[e] \in Touches(rows[e])
  BY OtherSteps DEF RowsTouched
<1>2. phase' = phase /\ since' = since
  BY DEF Read, BeginRead, ReadKey, Request, MarkRequested
<1>3. phase[c] = "running" => Alive(rows'[c], since'[c])
  <2> SUFFICES ASSUME phase[c] = "running"
               PROVE  Alive(rows'[c], since[c])
    BY <1>2
  <2>1. rows[c] \in Row /\ since[c] \in 0 .. Heartbeat /\ Alive(rows[c], since[c])
    BY DEF ControlInv, HeldInv
  <2> QED  BY <1>1, <2>1, AliveLasts
<1> QED  BY <1>1, <1>2, <1>3, HeldStep DEF HeldInv

\* Time, and a control that is retired.
LEMMA TickHeld ==
    ASSUME ControlInv, HeldInv, Tick
    PROVE  HeldInv'
<1>1. \A e \in Control : rows'[e] \in Agings(rows[e])
  BY TickStep DEF RowsAged
<1>2. /\ TTL > 0 /\ phase' = phase
      /\ \A e \in Control : since'[e] = IF phase[e] = "running" THEN since[e] + 1 ELSE 0
      /\ \A e \in Control : phase[e] = "running" => since[e] < Heartbeat
      /\ since' = [e \in Control |-> since'[e]]
  BY DEF Tick, InState
<1>3. \A e \in Control : GoodRow(rows'[e])
  BY <1>1, GoodStaysGood DEF HeldInv
<1>4. since' \in [Control -> 0 .. Heartbeat]
  <2>1. \A e \in Control : since'[e] \in 0 .. Heartbeat
    BY <1>2, ControlConstants DEF HeldInv
  <2> QED  BY <1>2, <2>1
<1>5. ASSUME NEW e \in Control, phase[e] = "running" PROVE Alive(rows'[e], since'[e])
  <2>1. /\ rows[e] \in Row /\ since[e] \in 0 .. Heartbeat /\ Alive(rows[e], since[e])
        /\ since[e] < Heartbeat /\ since'[e] = since[e] + 1
    BY <1>2, <1>5 DEF ControlInv, HeldInv
  <2> QED  BY <1>1, <1>2, <2>1, AliveLasts
<1> QED  BY <1>2, <1>3, <1>4, <1>5 DEF HeldInv

\* A control is only retired by its owner, who then no longer beats.
LEMMA RetireHeld ==
    ASSUME ControlInv, HeldInv, NEW c \in Control, Retire(c)
    PROVE  HeldInv'
<1> USE DEF ControlInv, HeldInv, InState
<1> PICK r, s : r = rows[c] /\ s = [r EXCEPT !.retired = TRUE, !.left = Retention]
  OBVIOUS
<1>1. r.here => s \in Row /\ s.here /\ s.retired
  BY Lifetimes DEF Row
<1>2. rows' = [rows EXCEPT ![c] = IF r.here /\ Retention > 0 THEN s ELSE NoRow]
  BY DEF Retire
<1>3. GoodRow(NoRow) /\ (r.here => GoodRow(s))
  BY <1>1, FreshRows DEF GoodRow, NoRow
<1>4. \A e \in Control : GoodRow(rows'[e])
  BY <1>2, <1>3
<1>5. /\ since' = since /\ phase'[c] = "ended" /\ phase[c] \notin {"none", "created"}
      /\ \A e \in Control \ {c} : phase'[e] = phase[e] /\ rows'[e] = rows[e]
  BY <1>2 DEF Retire
<1>6. ASSUME NEW e \in Control, phase'[e] # "none", Parent[e] # NoControl
      PROVE  phase'[Parent[e]] \notin {"none", "created"}
  <2>1. Parent[e] \in Control
    BY <1>6, ControlConstants
  <2>2. phase[e] # "none"
    BY <1>5, <1>6
  <2> QED  BY <1>5, <1>6, <2>1, <2>2
<1>7. \A e \in Control : phase'[e] = "running" => Alive(rows'[e], since'[e])
  BY <1>5
<1> QED  BY <1>4, <1>5, <1>6, <1>7

\* What was asked of an owner that beats in time is not forgotten.
AskedStays ==
    \A e \in Control : phase[e] = "running" /\ phase'[e] = "running" /\ rows[e].requested =>
                          rows'[e].requested

\* A step that changes rows only as RowStep allows forgets nothing of the kind.
LEMMA RunningKept ==
    ASSUME ControlInv, HeldInv, HeldInv',
           \A e \in Control : RowStep(rows[e], rows'[e]) \/ rows'[e] = rows[e]
                              \/ phase'[e] # "running"
    PROVE  AskedStays
<1> SUFFICES ASSUME NEW e \in Control, phase[e] = "running", phase'[e] = "running",
                    rows[e].requested
             PROVE  rows'[e].requested
  BY DEF AskedStays
<1>1. rows[e] \in Row /\ since[e] \in 0 .. Heartbeat /\ Alive(rows[e], since[e])
  BY DEF ControlInv, HeldInv
<1>2. rows[e].here /\ rows[e].left # 0
  BY <1>1, AliveLasts DEF Alive
<1>3. rows'[e].here
  BY DEF HeldInv, Alive
<1> QED  BY <1>2, <1>3 DEF RowStep

\* A poll that a step leaves alone or ends stays good.
LEMMA PollKept ==
    ASSUME ControlInv, HeldInv, AskedStays, NEW c \in Control, PollGood(c),
           poll'[c] \in {poll[c], NoPoll},
           \A e \in Control : phase'[e] = "running" => phase[e] \in {"created", "running"},
           \A e \in Control : phase'[e] \in {"none", "created"} => phase[e] \in {"none", "created"}
    PROVE  PollGood(c)'
<1>1. CASE poll'[c] = NoPoll
  BY <1>1 DEF PollGood, NoPoll, Owing
<1>2. CASE poll'[c] = poll[c] /\ phase[c] \in {"none", "created"}
  BY <1>1, <1>2 DEF PollGood
<1>3. CASE poll'[c] = poll[c] /\ phase[c] \notin {"none", "created"}
  <2> SUFFICES ASSUME \A d \in Path[c] : phase'[d] = "running", poll[c].answer # "yes"
               PROVE  Owing(poll[c], c, rows')
    BY <1>3 DEF PollGood, OnTime
  <2> PICK S : S = {e \in Control : phase[e] \notin {"none", "created"}}
    OBVIOUS
  <2>1. S \in SUBSET Control /\ c \in S /\ \A e \in S : Parent[e] \in S \cup {NoControl}
    <3>1. ASSUME NEW e \in S, Parent[e] # NoControl PROVE Parent[e] \in S
      <4>1. Parent[e] \in Control
        BY <3>1, ControlConstants
      <4> QED  BY <3>1, <4>1 DEF HeldInv
    <3> QED  BY <1>3, <3>1
  <2>2. Path[c] \subseteq S
    BY <2>1, PathLeadsOn
  <2>3. \A d \in Path[c] : d \in Control /\ phase[d] = "running" /\ phase'[d] = "running"
    BY <2>2
  <2>4. Owing(poll[c], c, rows)
    BY <2>3 DEF PollGood, OnTime
  <2> QED  BY <2>3, <2>4 DEF Owing, AskedStays
<1> QED  BY <1>1, <1>2, <1>3

\* A read in SQLite answers "no" only when nothing was asked on its path.
LEMMA ReadGood ==
    ASSUME NEW c \in Control, poll \in [Control -> Poll], Read(c)
    PROVE  /\ poll' \in [Control -> Poll] /\ PollGood(c)'
           /\ \A e \in Control \ {c} : poll'[e] = poll[e]
<1> PICK R : R = Purge(rows)
  OBVIOUS
<1> PICK p : p = [at |-> NoControl, owed |-> Requested(c, R),
                  answer |-> Answer(\E d \in Visited(c, R) : R[d].requested)]
  OBVIOUS
<1>1. poll' = [poll EXCEPT ![c] = p] /\ phase' = phase /\ phase[c] \notin {"none", "created"}
  BY DEF Read, Polling, InState
<1>2. p.owed \subseteq Control
  BY PathLeadsOn DEF Requested
<1>3. p.answer = Answer(\E d \in Visited(c, R) : R[d].requested) /\ p.answer \in {"yes", "no"}
  BY DEF Answer
<1>4. p \in Poll
  BY <1>2, <1>3 DEF Poll
<1>5. p.answer # "yes" => p.owed = {}
  BY <1>3, NothingMissed DEF Answer
<1> QED  BY <1>1, <1>4, <1>5 DEF PollGood, Owing

\* A read in Redis begins with everything that was asked.
LEMMA BeginReadGood ==
    ASSUME NEW c \in Control, poll \in [Control -> Poll], BeginRead(c)
    PROVE  /\ poll' \in [Control -> Poll] /\ PollGood(c)'
           /\ \A e \in Control \ {c} : poll'[e] = poll[e]
<1> PICK p : p = [at |-> c, owed |-> Requested(c, rows), answer |-> "none"]
  OBVIOUS
<1>1. /\ poll' = [poll EXCEPT ![c] = p] /\ rows' = rows
      /\ phase' = phase /\ phase[c] \notin {"none", "created"}
  BY DEF BeginRead, Polling, InState
<1>2. p.owed \subseteq Path[c] /\ \A d \in p.owed : rows[d].requested
  BY DEF Requested
<1>3. p \in Poll /\ Path[c] \subseteq Control /\ c \in Path[c]
  BY <1>2, PathLeadsOn DEF Poll
<1>4. Owing(p, c, rows)
  BY <1>2, ControlConstants DEF Owing
<1> QED  BY <1>1, <1>3, <1>4 DEF PollGood

\* A read that moves on owes the same.
LEMMA PollMoved ==
    ASSUME NEW q \in Poll, NEW n, NEW a
    PROVE  [[q EXCEPT !.at = n] EXCEPT !.answer = a] = [at |-> n, owed |-> q.owed, answer |-> a]
<1>1. PICK x, y, z : q = [at |-> x, owed |-> y, answer |-> z]
  BY DEF Poll
<1>2. PICK u : u = [q EXCEPT !.at = n]
  OBVIOUS
<1>3. u = [at |-> n, owed |-> y, answer |-> z] /\ q.owed = y
  BY <1>1, <1>2
<1>4. [u EXCEPT !.answer = a] = [at |-> n, owed |-> q.owed, answer |-> a]
  BY <1>3
<1> QED  BY <1>2, <1>4

\* One key further, the read still has before it what it owes: the row it
\* passed was there, because its owner beats in time, and was not asked to stop.
LEMMA ReadKeyGood ==
    ASSUME ControlInv, HeldInv, AskedStays, NEW c \in Control, poll \in [Control -> Poll],
           PollGood(c), ReadKey(c)
    PROVE  /\ poll' \in [Control -> Poll] /\ PollGood(c)'
           /\ \A e \in Control \ {c} : poll'[e] = poll[e]
<1> PICK d : d = poll[c].at
  OBVIOUS
<1> PICK n : n = Onward(c, d, rows[d])
  OBVIOUS
<1> PICK a : a = IF n # NoControl THEN "none" ELSE Answer(rows[d].requested)
  OBVIOUS
<1> PICK p : p = [at |-> n, owed |-> poll[c].owed, answer |-> a]
  OBVIOUS
<1>1. /\ d # NoControl /\ d \in Path[c] /\ poll[c].answer = "none" /\ d \in Control
      /\ phase' = phase /\ phase[c] \notin {"none", "created"}
  BY PathLeadsOn DEF ReadKey, InState, PollGood
<1>2. poll' = [poll EXCEPT ![c] = p]
  <2>1. poll[c] \in Poll
    OBVIOUS
  <2>2. PICK q : q = poll[c]
    OBVIOUS
  <2>3. [[q EXCEPT !.at = n] EXCEPT !.answer = a] = p
    BY <2>1, <2>2, PollMoved
  <2>4. poll' = [[poll EXCEPT ![c].at = n] EXCEPT ![c].answer = a]
    BY DEF ReadKey
  <2>5. poll' = [poll EXCEPT ![c] = [[q EXCEPT !.at = n] EXCEPT !.answer = a]]
    BY <2>2, <2>4
  <2> QED  BY <2>3, <2>5
<1>3. n # NoControl => n = Parent[d] /\ n \in Path[c] /\ n \in Control
  BY <1>1, PathLeadsOn DEF Onward
<1>4. a \in {"none", "no", "yes"} /\ (n # NoControl => a = "none")
  BY DEF Answer
<1>5. p \in Poll
  BY <1>3, <1>4 DEF Poll
<1>6. ASSUME OnTime(c), a # "yes"
      PROVE  Owing(p, c, rows')
  <2>1. Owing(poll[c], c, rows) /\ phase[d] = "running"
    BY <1>1, <1>6 DEF PollGood, OnTime
  <2>2. rows[d].here
    BY <1>1, <2>1 DEF HeldInv, Alive
  <2>3. ~rows[d].requested
    BY <1>6 DEF Onward, Answer
  <2>4. n = Parent[d]
    BY <2>2, <2>3 DEF Onward
  <2>5. p.owed \subseteq Path[d] \ {d}
    BY <1>1, <2>1, <2>3 DEF Owing
  <2>6. /\ n = NoControl => p.owed = {}
        /\ n # NoControl => p.owed \subseteq Path[n]
    BY <1>1, <2>4, <2>5, PathLeadsOn
  <2>7. \A e \in p.owed : e \in Path[c] /\ rows'[e].requested
    <3> SUFFICES ASSUME NEW e \in p.owed
                 PROVE  e \in Path[c] /\ rows'[e].requested
      OBVIOUS
    <3>1. e \in Path[c] /\ rows[e].requested
      BY <2>1 DEF Owing
    <3>2. e \in Control /\ phase[e] = "running" /\ phase'[e] = "running"
      BY <1>1, <1>6, <3>1, PathLeadsOn DEF OnTime
    <3> QED  BY <3>1, <3>2 DEF AskedStays
  <2> QED  BY <2>6, <2>7 DEF Owing
<1>7. OnTime(c)' => OnTime(c)
  BY <1>1 DEF OnTime
<1>8. poll'[c] = p
  BY <1>2
<1>9. /\ phase'[c] \notin {"none", "created"}
      /\ p.at # NoControl => p.at \in Path[c] /\ p.answer = "none"
      /\ OnTime(c) /\ p.answer # "yes" => Owing(p, c, rows')
  BY <1>1, <1>3, <1>4, <1>6
<1> QED  BY <1>2, <1>5, <1>7, <1>8, <1>9 DEF PollGood

\* Every step keeps what reads are owed.
LEMMA HearingStep == HearingInv /\ [ControlNext]_controlVars => HearingInv'
<1> SUFFICES ASSUME HearingInv, [ControlNext]_controlVars
             PROVE  HearingInv'
  OBVIOUS
<1> USE DEF HearingInv, PollInv
<1>1. ASSUME HeldInv', ControlInv', AskedStays, store' = store, asking' \subseteq Control,
             \A e \in Control : poll'[e] \in {poll[e], NoPoll},
             poll' \in [Control -> Poll],
             \A e \in Control : phase'[e] = "running" => phase[e] \in {"created", "running"},
             \A e \in Control :
                phase'[e] \in {"none", "created"} => phase[e] \in {"none", "created"}
      PROVE  HearingInv'
  BY <1>1, PollKept
<1>2. NoPoll \in Poll
  BY DEF NoPoll, Poll
<1>3. ASSUME NEW c \in Control,
             \/ Create(c) \/ StartHeartbeat(c) \/ Beat(c) \/ Stall(c) \/ Crash(c) \/ Return(c)
      PROVE  HearingInv'
  <2>1. RowsTouched /\ HeldInv'
    BY <1>3, OwnerSteps, OwnerHeld
  <2>2. \A e \in Control : RowStep(rows[e], rows'[e])
    BY <2>1, RowSteps DEF RowsTouched, ControlInv
  <2>3. AskedStays
    BY <2>1, <2>2, RunningKept
  <2>4. ControlInv'
    BY <2>1, <2>2 DEF RowsTouched, RowsStep, ControlInv, RowStep
  <2>5. poll' = poll \/ poll' = [poll EXCEPT ![c] = NoPoll]
    BY <1>3 DEF Create, StartHeartbeat, Beat, Stall, Crash, Return
  <2>6. /\ \A e \in Control : poll'[e] \in {poll[e], NoPoll}
        /\ poll' \in [Control -> Poll]
    BY <1>2, <2>5
  <2>7. /\ \A e \in Control : phase'[e] = "running" => phase[e] \in {"created", "running"}
        /\ \A e \in Control :
              phase'[e] \in {"none", "created"} => phase[e] \in {"none", "created"}
    BY <1>3 DEF Create, StartHeartbeat, Beat, Stall, Crash, Return, InState, ControlInv
  <2>8. store' = store /\ asking' = asking
    BY <1>3 DEF Create, StartHeartbeat, Beat, Stall, Crash, Return
  <2> QED  BY <1>1, <2>1, <2>3, <2>4, <2>6, <2>7, <2>8
<1>4. ASSUME NEW c \in Control, Retire(c)
      PROVE  HearingInv'
  <2>1. ControlInv' /\ HeldInv' /\ (\A e \in Control : e # c => rows'[e] = rows[e])
    BY <1>4, RetireStep, RetireHeld
  <2>2. /\ phase' = [phase EXCEPT ![c] = "ended"] /\ UNCHANGED <<store, asking, poll>>
        /\ phase[c] \in {"returned", "crashed"}
    BY <1>4 DEF Retire, InState
  <2>3. AskedStays
    BY <2>1, <2>2, RunningKept DEF ControlInv
  <2> QED  BY <1>1, <2>1, <2>2, <2>3 DEF ControlInv
<1>5. CASE Tick
  <2>1. RowsAged /\ HeldInv'
    BY <1>5, TickStep, TickHeld
  <2>2. \A e \in Control : RowStep(rows[e], rows'[e])
    BY <2>1, RowSteps DEF RowsAged, ControlInv
  <2>3. AskedStays
    BY <2>1, <2>2, RunningKept
  <2>4. ControlInv'
    BY <2>1, <2>2 DEF RowsAged, RowsStep, ControlInv, RowStep
  <2> QED  BY <1>1, <1>5, <2>1, <2>3, <2>4 DEF Tick
<1>6. ASSUME NEW c \in Control, \/ Read(c) \/ BeginRead(c) \/ ReadKey(c)
                                \/ Request(c) \/ MarkRequested(c)
      PROVE  HearingInv'
  <2>1. RowsTouched /\ HeldInv'
    BY <1>6, OtherSteps, OthersHeld
  <2>2. \A e \in Control : RowStep(rows[e], rows'[e])
    BY <2>1, RowSteps DEF RowsTouched, ControlInv
  <2>3. AskedStays
    BY <2>1, <2>2, RunningKept
  <2>4. ControlInv'
    BY <2>1, <2>2 DEF RowsTouched, RowsStep, ControlInv, RowStep
  <2>5. phase' = phase /\ store' = store /\ asking' \subseteq Control
    BY <1>6 DEF Read, BeginRead, ReadKey, Request, MarkRequested
  <2>6. CASE Request(c) \/ MarkRequested(c)
    BY <1>1, <2>1, <2>3, <2>4, <2>5, <2>6 DEF Request, MarkRequested
  <2>7. CASE Read(c) \/ BeginRead(c) \/ ReadKey(c)
    <3>1. /\ poll' \in [Control -> Poll] /\ PollGood(c)'
          /\ \A e \in Control \ {c} : poll'[e] = poll[e]
      BY <2>3, <2>7, ReadGood, BeginReadGood, ReadKeyGood
    <3>2. \A e \in Control \ {c} : PollGood(e)'
      BY <2>3, <2>5, <3>1, PollKept
    <3> QED  BY <2>1, <2>4, <2>5, <3>1, <3>2
  <2> QED  BY <1>6, <2>6, <2>7
<1>7. CASE UNCHANGED controlVars
  BY <1>7 DEF controlVars, ControlInv, HeldInv, PollGood, OnTime
<1> QED  BY <1>3, <1>4, <1>5, <1>6, <1>7 DEF ControlNext

\* The invariant, from a store without rows on.
LEMMA HearingInvariant == ControlSpec => []HearingInv
<1>1. ControlInit => HearingInv
  <2> SUFFICES ASSUME ControlInit
               PROVE  HearingInv
    OBVIOUS
  <2>1. GoodRow(NoRow) /\ NoPoll \in Poll
    BY FreshRows DEF GoodRow, NoRow, NoPoll, Poll
  <2>2. ControlInv
    BY FreshRows DEF ControlInit, ControlInv, ControlPhases
  <2>3. HeldInv
    BY <2>1, ControlConstants DEF ControlInit, HeldInv
  <2>4. PollInv
    BY <2>1 DEF ControlInit, PollInv, PollGood, NoPoll, Owing
  <2> QED  BY <2>2, <2>3, <2>4 DEF HearingInv, ControlInit
<1> QED  BY <1>1, HearingStep, PTL DEF ControlSpec

\* In either store, for any tree of controls, any lifetimes, and owners and
\* requesters that come, stall and die at any time: a read whose path beats in
\* time misses no request that was there when it began.
THEOREM CancelHeardThm == ControlSpec => []CancelHeard
<1>1. HearingInv => CancelHeard
  BY DEF HearingInv, PollInv, PollGood, OnTime, Owing, CancelHeard, InState
<1> QED  BY <1>1, HearingInvariant, PTL

\* Rows, phases, heartbeats and polls keep their shapes.
THEOREM ControlTypes == ControlSpec => []ControlTypeOK
<1>1. HearingInv => ControlTypeOK
  BY DEF HearingInv, ControlInv, HeldInv, PollInv, GoodRow, ControlTypeOK
<1> QED  BY <1>1, HearingInvariant, PTL
=============================================================================
