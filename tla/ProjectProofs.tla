---------------------------- MODULE ProjectProofs ----------------------------
(***************************************************************************)
(* TLAPS proofs about ProjectRun, for every set of Cases, every group of   *)
(* serial, parallel, external and DAG stages and every number of runs.     *)
(*                                                                         *)
(* RunInv relates the coordinator's results, the manifest and the working  *)
(* registry; it is preserved because every step of the coordinator         *)
(* "Retains" what was retained before. ResumeInv adds what a finished run  *)
(* leaves behind; a step that retains preserves it if it "Stands".         *)
(***************************************************************************)
EXTENDS ProjectRun, SumTheorems, TLAPS

-----------------------------------------------------------------------------
(* The invariants.                                                         *)

\* What a Case can have as its result.
Outcome == {"none", "succeeded", "resumed", "failed", "skipped"}

\* The coordinator's results, the records of a manifest, and a manifest.
ResultType == [status : Outcome, ref : Ref]
CaseRecord == [status : Status, ref : Ref, task : 0..MaxRuns]
ManifestType == [cases : [Case -> CaseRecord], registry : [Key -> Ref],
                 status : {"absent", "running", "ok", "failed"}]

\* Everything has its shape, and the group is one that execute_project accepts.
RunTypes ==
    /\ plan \in Plans /\ PlanAccepted(plan)
    /\ runs \in 0..MaxRuns /\ at \in 1..(Len(plan) + 1)
    /\ pc \in {"idle", "stage", "serial", "parallel", "record", "dag", "finish"}
    /\ prior \in [RunId -> 0..MaxRuns]
    /\ results \in [Case -> ResultType]
    /\ registry \in [Key -> Ref]
    /\ prepared \subseteq Case /\ wave \subseteq Case /\ running \subseteq Case
    /\ holds \in [Case -> 0..MaxRuns] /\ awaits \in [Case -> 0..MaxRuns]
    /\ manifests \in [RunId -> ManifestType]
    /\ leases \subseteq RunId \X Case

\* A run resumes an earlier one, and its number is taken; later runs have no records.
RunOrder ==
    /\ pc # "idle" => runs # 0
    /\ \A r \in RunId : prior[r] < r
    /\ \A r \in RunId : r > runs => /\ manifests[r].cases = [c \in Case |-> NoRecord]
                                    /\ manifests[r].status = "absent"

\* A success has an artifact of its Case, nothing else has one.
Credited(c, rec) == IF rec.status \in Ok THEN rec.ref \in RunId \X {c} ELSE rec.ref = None
\* ... in the coordinator's results and in every manifest.
CreditsRight ==
    \A c \in Case : Credited(c, results[c]) /\ \A r \in RunId : Credited(c, manifests[r].cases[c])

\* A success in the manifest is one of the coordinator's results.
RecordsHeld ==
    pc # "idle" => \A c \in Case : Manifest.cases[c].status \in Ok =>
        results[c].status = Manifest.cases[c].status /\ results[c].ref = Manifest.cases[c].ref

\* Where the coordinator is inside of a stage.
InStage == {"serial", "parallel", "record", "dag"}

\* Stages run in order: what lies ahead has no result.
StagesAhead ==
    /\ pc \in InStage => at <= Len(plan)
    /\ pc # "idle" => \A i \in 1..Len(plan) : i > at \/ (i = at /\ pc = "stage") =>
          \A c \in ToSet(plan[i].cases) : results[c].status = "none"

\* What is prepared or running is of the stage, and has no result yet.
WorkRight ==
    /\ pc \in {"stage", "dag", "finish"} => prepared = {} /\ running = {}
    /\ pc = "dag" => Stage.policy = "dag"
    /\ pc = "serial" =>
          /\ Stage.policy = "serial" /\ prepared \subseteq StageCases
          /\ running = {} \/ (prepared # {} /\ running = {Current} /\ Current \notin Resumed)
    /\ pc = "record" => Stage.policy = "external"
    /\ pc \in {"parallel", "record"} =>
          /\ Stage.policy \in {"parallel", "external", "dag"}
          /\ prepared \cap running = {} /\ prepared \cup running \subseteq wave
          /\ wave \subseteq StageCases \ Resumed
          /\ Stage.policy = "external" => \A c \in running : awaits[c] \in RunId
    /\ pc # "idle" => \A c \in prepared \cup running : results[c].status = "none"

\* The results of a wave of a DAG stage are recorded when it ends ...
InWave(c) == pc = "parallel" /\ Stage.policy = "dag" /\ c \in wave

\* ... and its Cases run after what they depend on is recorded.
WavesRight ==
    /\ pc \in {"parallel", "dag"} /\ Stage.policy = "dag" =>
          \A d \in StageCases \ Resumed :
              results[d].status \in Ok =>
                  /\ results[d].status = "succeeded"
                  /\ InWave(d) \/ Manifest.cases[d].status = "succeeded"
    /\ pc = "parallel" /\ Stage.policy = "dag" =>
          \A c \in wave : \A d \in Dependencies(Stage)[c] :
              d \in Resumed \/ Manifest.cases[d].status = "succeeded"

\* The inductive invariant that CasesRunOnBackedInputs rests on.
RunInv ==
    /\ RunTypes /\ RunOrder /\ CreditsRight /\ RecordsHeld /\ StagesAhead /\ WorkRight
    /\ WavesRight /\ RegistryBacked

-----------------------------------------------------------------------------
(* The invariant about what a run leaves behind.                           *)

\* Every result is in the manifest, but for those of a wave that is not over.
RecordsComplete ==
    pc # "idle" => \A c \in Case :
        IF results[c].status = "none" THEN Manifest.cases[c].status \in {"none", "submitted"}
        ELSE \/ pc = "parallel" /\ Stage.policy = "dag" /\ c \in wave
             \/ /\ Manifest.cases[c].status = results[c].status
                /\ Manifest.cases[c].ref = results[c].ref

\* A Case that is resumed keeps what it had published.
ResumedKept ==
    pc # "idle" => \A c \in Resumed : results[c].status # "none" =>
        results[c].status = "resumed" /\ results[c].ref = manifests[prior[runs]].cases[c].ref

\* The stages behind have all their results, and a fail_fast stage behind only successes.
StagesBehind ==
    pc # "idle" =>
        /\ \A c \in Case : results[c].status # "none" => c \in Planned
        /\ \A i \in 1..Len(plan) : i < at => \A c \in ToSet(plan[i].cases) :
              /\ results[c].status # "none"
              /\ plan[i].failFast /\ pc # "finish" => results[c].status \in Ok

\* What the current stage no longer has to run has its result.
StageHeld ==
    /\ pc = "serial" => \A c \in StageCases \ prepared :
          results[c].status # "none" /\ (Stage.failFast => results[c].status \in Ok)
    /\ pc \in {"parallel", "record"} =>
          /\ \A c \in wave \ (prepared \cup running) : results[c].status # "none"
          /\ Stage.policy # "dag" => wave = StageCases \ Resumed

\* A failure shows in the exit code; what fail_fast leaves out had not been reached
\* by the run resumed from either.
FailureShown ==
    /\ pc # "idle" /\ exitCode = 0 => \A c \in Case : ~Failed(c)
    /\ pc = "finish" => exitCode # 0 /\ \A c \in Resumed : results[c].status # "none"

\* What stands after a fail_fast stage, or later in a serial one, is reached past successes only.
Reached(i, c) ==
    /\ plan[i].failFast
    /\ \/ \E j \in (i + 1)..Len(plan) : c \in ToSet(plan[j].cases)
       \/ plan[i].policy = "serial" /\ c \in ToSet(plan[i].cases)
\* d stands before c, in a stage or in the order of one.
Past(i, c, d) ==
    /\ d \in ToSet(plan[i].cases)
    /\ c \in ToSet(plan[i].cases) => Position(plan[i], d) < Position(plan[i], c)
\* A run that is past such a stage has its successes, now ...
ReachedNow ==
    pc # "idle" => \A i \in 1..Len(plan) : \A c, d \in Case : Reached(i, c) /\ Past(i, c, d) =>
        (results[c].status # "none" => results[d].status \in Ok)
\* ... and in every manifest, whose successes are Cases of the plan.
ReachedBefore ==
    \A r \in RunId :
        /\ \A i \in 1..Len(plan) : \A c, d \in Case : Reached(i, c) /\ Past(i, c, d) =>
              (c \in Successful(r) => d \in Successful(r))
        /\ Successful(r) \subseteq Planned

\* Leases of this run are those of running items.
LeasesHeld ==
    /\ \A e \in leases : e[1] <= runs
    /\ pc # "idle" => \A c \in Case : <<runs, c>> \in leases => c \in running /\ holds[c] = runs

\* No two Cases publish under one name.
DistinctNames == \A c, d \in Case : ArtifactOf[c] = ArtifactOf[d] => c = d

\* The registry of the manifest, when no two Cases publish under one name.
Published(c) ==
    IF c \in Resumed THEN manifests[prior[runs]].cases[c].ref
    ELSE IF Manifest.cases[c].status \in Ok THEN Manifest.cases[c].ref ELSE None
\* ... which is that of every artifact of this run and of the one it resumes.
NamesRight ==
    DistinctNames /\ pc # "idle" => \A c \in Case :
        Manifest.registry[c] = Published(c) /\ Manifest.registry[ArtifactOf[c]] = Published(c)

\* The current run is not finished.
Unfinished == pc # "idle" => manifests[runs].status = "running"

\* The inductive invariant that FinishedResumable rests on, on top of RunInv.
ResumeInv ==
    /\ RecordsComplete /\ ResumedKept /\ StagesBehind /\ StageHeld /\ FailureShown
    /\ ReachedNow /\ ReachedBefore /\ LeasesHeld /\ Unfinished /\ NamesRight
    /\ Accounted /\ (DistinctNames => FinishedResumable)

-----------------------------------------------------------------------------
(* The order of the Cases of a stage.                                      *)

\* What the assumption and the check of a group say of a stage of the plan.
LEMMA StageFacts ==
    ASSUME RunTypes, NEW i \in 1..Len(plan)
    PROVE  /\ Len(plan) \in Nat
           /\ Len(plan[i].cases) \in Nat /\ DOMAIN plan[i].cases = 1..Len(plan[i].cases)
           /\ ToSet(plan[i].cases) \subseteq Case
           /\ \A j \in 1..Len(plan) : i # j => ToSet(plan[i].cases) \cap ToSet(plan[j].cases) = {}
           /\ IsInjective(plan[i].cases)
           /\ plan[i].policy \in {"serial", "parallel", "external", "dag"}
           /\ plan[i].policy = "dag" => DagAccepted(plan[i])
<1>1. plan \in Plans /\ PlanAccepted(plan)
  BY DEF RunTypes
<1>2. Len(plan) \in Nat /\ DOMAIN plan = 1..Len(plan)
  BY <1>1, ProjectAssumption
<1>3. i \in DOMAIN plan
  BY <1>2
<1>4. /\ Len(plan[i].cases) \in Nat /\ DOMAIN plan[i].cases = 1..Len(plan[i].cases)
      /\ ToSet(plan[i].cases) \subseteq Case
      /\ \A j \in DOMAIN plan : i # j => ToSet(plan[i].cases) \cap ToSet(plan[j].cases) = {}
  BY <1>1, <1>3, ProjectAssumption
<1>5. /\ IsInjective(plan[i].cases)
      /\ plan[i].policy \in {"serial", "parallel", "external", "dag"}
      /\ plan[i].policy = "dag" => DagAccepted(plan[i])
  BY <1>1, <1>3 DEF PlanAccepted
<1> QED
  BY <1>2, <1>4, <1>5

\* Every Case of a stage has one place in it.
LEMMA PositionIsPlace ==
    ASSUME RunTypes, NEW i \in 1..Len(plan), NEW c \in ToSet(plan[i].cases)
    PROVE  /\ Position(plan[i], c) \in 1..Len(plan[i].cases)
           /\ plan[i].cases[Position(plan[i], c)] = c
<1>1. DOMAIN plan[i].cases = 1..Len(plan[i].cases)
  BY StageFacts
<1>2. \E p \in DOMAIN plan[i].cases : plan[i].cases[p] = c
  BY DEF ToSet
<1> QED
  BY <1>1, <1>2 DEF Position

\* Two Cases of a stage have two places.
LEMMA PositionsDiffer ==
    ASSUME RunTypes, NEW i \in 1..Len(plan), NEW c \in ToSet(plan[i].cases),
           NEW d \in ToSet(plan[i].cases), c # d
    PROVE  Position(plan[i], c) # Position(plan[i], d)
  BY PositionIsPlace

\* A set of Cases of one stage has a Case to which a function gives the least number.
LEMMA LeastCase ==
    ASSUME NEW C, C # {}, NEW n \in Nat, NEW f, \A c \in C : f[c] \in 1..n
    PROVE  \E c \in C : \A d \in C : f[c] <= f[d]
<1> DEFINE F == {f[c] : c \in C}
<1>1. IsFiniteSet(1..n)
  BY FS_Interval
<1>2. F \subseteq 1..n
  OBVIOUS
<1>3. IsFiniteSet(F) /\ F \subseteq Int /\ F # {}
  BY <1>1, <1>2, FS_Subset
<1>4. PICK m \in F : \A t \in F : m <= t
  BY <1>3, SmallestExists
<1>5. PICK c \in C : f[c] = m
  BY <1>4
<1>6. \A d \in C : f[d] \in F
  OBVIOUS
<1> QED
  BY <1>4, <1>5, <1>6

\* The places of the Cases of a stage, as a function.
Places1(stage) == [c \in ToSet(stage.cases) |-> Position(stage, c)]

\* In the declared order, and in the order of the launches, a set of Cases has a first one.
LEMMA FirstDeclared ==
    ASSUME RunTypes, at <= Len(plan), NEW C, C \subseteq StageCases, C # {}
    PROVE  /\ First(DeclaredOrder, C) \in C
           /\ \A d \in C \ {First(DeclaredOrder, C)} : <<First(DeclaredOrder, C), d>> \in DeclaredOrder
<1>1. at \in 1..Len(plan)
  BY StageFacts DEF RunTypes
<1> DEFINE n == Len(plan[at].cases)
           f == Places1(plan[at])
<1>2. n \in Nat
  BY <1>1, StageFacts
<1>3. \A c \in C : c \in ToSet(plan[at].cases) /\ f[c] = Position(plan[at], c)
  BY DEF Places1, StageCases, Stage
<1>4. \A c \in C : f[c] \in 1..n
  BY <1>1, <1>3, PositionIsPlace
<1> HIDE DEF f, n
<1>5. PICK c \in C : \A d \in C : f[c] <= f[d]
  BY <1>2, <1>4, LeastCase
<1>6. ASSUME NEW d \in C \ {c} PROVE <<c, d>> \in DeclaredOrder
  <2>1. Position(plan[at], c) # Position(plan[at], d)
    BY <1>1, <1>3, PositionsDiffer
  <2>2. Position(plan[at], c) < Position(plan[at], d)
    BY <1>2, <1>3, <1>4, <1>5, <2>1
  <2> QED
    BY <2>2, <1>3 DEF DeclaredOrder, StageCases, Stage
<1>7. \A d \in C \ {c} : <<c, d>> \in DeclaredOrder
  BY <1>6
<1> QED
  BY <1>7 DEF First

\* The layers of an accepted graph.
LEMMA LayersExist ==
    ASSUME RunTypes, NEW i \in 1..Len(plan), plan[i].policy = "dag"
    PROVE  /\ Layer(plan[i]) \in [ToSet(plan[i].cases) -> 1..Len(plan[i].cases)]
           /\ \A c \in ToSet(plan[i].cases) : \A d \in Dependencies(plan[i])[c] :
                 Layer(plan[i])[d] < Layer(plan[i])[c]
           /\ \A c \in ToSet(plan[i].cases) : Dependencies(plan[i])[c] \subseteq ToSet(plan[i].cases)
<1>1. DagAccepted(plan[i])
  BY StageFacts
<1>2. Layer(plan[i]) \in Layerings(plan[i])
  BY <1>1 DEF DagAccepted, Layer
<1>3. ASSUME NEW c \in ToSet(plan[i].cases)
      PROVE  Dependencies(plan[i])[c] \subseteq ToSet(plan[i].cases)
  <2>1. plan[i].deps[c] \subseteq ToSet(plan[i].cases)
    BY <1>1 DEF DagAccepted
  <2> QED
    BY <2>1 DEF Dependencies
<1> QED
  BY <1>2, <1>3 DEF Layerings

\* The order of the launches has a first Case, too: the first of the lowest layer.
LEMMA FirstLaunched ==
    ASSUME RunTypes, at <= Len(plan), NEW C, C \subseteq StageCases, C # {}
    PROVE  /\ First(LaunchOrder, C) \in C
           /\ \A d \in C \ {First(LaunchOrder, C)} : <<First(LaunchOrder, C), d>> \in LaunchOrder
<1>1. CASE Stage.policy # "dag"
  <2>1. LaunchOrder = DeclaredOrder
    BY <1>1 DEF LaunchOrder
  <2> QED
    BY <2>1, FirstDeclared
<1>2. CASE Stage.policy = "dag"
  <2>1. at \in 1..Len(plan)
    BY StageFacts DEF RunTypes
  <2> DEFINE L == Layer(Stage)
             n == Len(plan[at].cases)
  <2>2. n \in Nat
    BY <2>1, StageFacts
  <2>3. \A c \in C : L[c] \in 1..n
    BY <1>2, <2>1, LayersExist DEF Stage, StageCases
  <2>4. LaunchOrder = {e \in StageCases \X StageCases :
                          L[e[1]] < L[e[2]] \/ (L[e[1]] = L[e[2]] /\ e \in DeclaredOrder)}
    BY <1>2 DEF LaunchOrder
  <2> HIDE DEF L, n
  <2>5. PICK b \in C : \A d \in C : L[b] <= L[d]
    BY <2>2, <2>3, LeastCase
  <2> DEFINE B == {c \in C : L[c] = L[b]}
  <2>6. B # {} /\ B \subseteq StageCases
    OBVIOUS
  <2>7. PICK c \in B : \A d \in B \ {c} : <<c, d>> \in DeclaredOrder
    BY <2>6, FirstDeclared
  <2>8. ASSUME NEW d \in C \ {c} PROVE <<c, d>> \in LaunchOrder
    <3>1. c \in StageCases /\ d \in StageCases /\ <<c, d>> \in StageCases \X StageCases
      BY <2>7
    <3>2. CASE L[d] = L[b]
      BY <3>1, <3>2, <2>4, <2>7
    <3>3. CASE L[d] # L[b]
      <4>1. L[c] < L[d]
        BY <3>3, <2>3, <2>5, <2>7
      <4> QED
        BY <3>1, <4>1, <2>4
    <3> QED
      BY <3>2, <3>3
  <2>9. c \in C /\ \A d \in C \ {c} : <<c, d>> \in LaunchOrder
    BY <2>7, <2>8
  <2> QED
    BY <2>9 DEF First
<1> QED
  BY <1>1, <1>2

\* The first of a set of one.
LEMMA FirstOfOne == ASSUME NEW c, NEW order PROVE First(order, {c}) = c
  BY DEF First

-----------------------------------------------------------------------------
(* Registration and records.                                               *)

\* A registration leaves an entry or takes the artifact of a Case of that name.
LEMMA RegisterFacts ==
    ASSUME NEW reg \in [Key -> Ref], NEW c \in Case, NEW ref \in Ref
    PROVE  /\ Register(reg, c, ref) \in [Key -> Ref]
           /\ \A k \in Key : \/ Register(reg, c, ref)[k] = reg[k]
                             \/ ref # None /\ k \in {c, ArtifactOf[c]} /\ Register(reg, c, ref)[k] = ref
  BY DEF Register, Key

\* The registry changes only to artifacts of Cases of C, under their names.
Registered(new, old, C, refs) ==
    \A k \in Key : \/ new[k] = old[k]
                   \/ \E c \in C : /\ refs[c] # None /\ k \in {c, ArtifactOf[c]}
                                   /\ new[k] = refs[c]

\* So does the registration of several Cases of the stage.
LEMMA RegisterAllFacts ==
    ASSUME RunTypes, at <= Len(plan), NEW reg \in [Key -> Ref], NEW C, C \subseteq StageCases,
           NEW order, order \in {DeclaredOrder, LaunchOrder}, NEW refs \in [Case -> Ref]
    PROVE  /\ RegisterAll(reg, C, order, refs) \in [Key -> Ref]
           /\ Registered(RegisterAll(reg, C, order, refs), reg, C, refs)
<1> DEFINE known(k) == {c \in C : refs[c] # None /\ k \in {c, ArtifactOf[c]}}
           all == [k \in Key |-> IF known(k) = {} \/ (k \notin Case /\ reg[k] # None) THEN reg[k]
                                 ELSE refs[First(order, known(k))]]
<1>1. RegisterAll(reg, C, order, refs) = all
  BY DEF RegisterAll
<1>2. C \subseteq Case
  <2>1. at \in 1..Len(plan)
    BY StageFacts DEF RunTypes
  <2> QED
    BY <2>1, StageFacts DEF StageCases, Stage
<1>3. ASSUME NEW k \in Key, known(k) # {} PROVE First(order, known(k)) \in known(k)
  <2>1. known(k) \subseteq StageCases
    OBVIOUS
  <2> HIDE DEF known
  <2> QED
    BY <1>3, <2>1, FirstDeclared, FirstLaunched
<1>4. ASSUME NEW k \in Key
      PROVE  /\ all[k] \in Ref
             /\ \/ all[k] = reg[k]
                \/ \E c \in C : refs[c] # None /\ k \in {c, ArtifactOf[c]} /\ all[k] = refs[c]
  <2>1. CASE known(k) = {} \/ (k \notin Case /\ reg[k] # None)
    BY <2>1
  <2>2. CASE ~(known(k) = {} \/ (k \notin Case /\ reg[k] # None))
    <3>1. First(order, known(k)) \in known(k)
      BY <2>2, <1>3
    <3>2. all[k] = refs[First(order, known(k))]
      BY <2>2
    <3> QED
      BY <3>1, <3>2, <1>2
  <2> QED
    BY <2>1, <2>2
<1> HIDE DEF all
<1>5. all = [k \in Key |-> all[k]]
  BY DEF all
<1> QED
  BY <1>1, <1>4, <1>5 DEF Registered

\* A manifest with other records and another registry.
Revised(m, x, y) == [m EXCEPT !.cases = x, !.registry = y]

\* It is a manifest.
LEMMA ManifestRevised ==
    ASSUME NEW m \in ManifestType, NEW x \in [Case -> CaseRecord], NEW y \in [Key -> Ref]
    PROVE  /\ Revised(m, x, y) \in ManifestType
           /\ Revised(m, x, y).cases = x
           /\ Revised(m, x, y).registry = y
           /\ Revised(m, x, y).status = m.status
<1>1. Revised(m, x, y) \in ManifestType
  BY DEF ManifestType, Revised
<1>2. /\ Revised(m, x, y).cases = x /\ Revised(m, x, y).registry = y
      /\ Revised(m, x, y).status = m.status
  BY DEF ManifestType, Revised
<1> QED
  BY <1>1, <1>2

\* What one record says afterwards.
LEMMA RecordFacts ==
    ASSUME NEW m \in ManifestType, NEW c \in Case, NEW res \in ResultType
    PROVE  /\ RecordCase(m, c, res) \in ManifestType
           /\ RecordCase(m, c, res).status = m.status
           /\ RecordCase(m, c, res).cases[c].status = res.status
           /\ RecordCase(m, c, res).cases[c].ref = res.ref
           /\ \A d \in Case \ {c} : RecordCase(m, c, res).cases[d] = m.cases[d]
           /\ RecordCase(m, c, res).registry =
                 IF res.status \in Ok THEN Register(m.registry, c, res.ref) ELSE m.registry
<1>1. res.status \in Status /\ res.ref \in Ref
  BY DEF ResultType, Outcome, Status
<1>2. m.registry \in [Key -> Ref] /\ m.cases \in [Case -> CaseRecord] /\ m.cases[c].task \in 0..MaxRuns
  BY DEF ManifestType, CaseRecord
<1>3. Register(m.registry, c, res.ref) \in [Key -> Ref]
  BY <1>1, <1>2, RegisterFacts
<1>4. [status |-> res.status, ref |-> res.ref, task |-> m.cases[c].task] \in CaseRecord
  BY <1>1, <1>2 DEF CaseRecord
<1> DEFINE x == [m.cases EXCEPT ![c] = [status |-> res.status, ref |-> res.ref,
                                        task |-> m.cases[c].task]]
           y == IF res.status \in Ok THEN Register(m.registry, c, res.ref) ELSE m.registry
<1>5. RecordCase(m, c, res) = [m EXCEPT !.cases = x, !.registry = y]
  <2>1. m = [cases |-> m.cases, registry |-> m.registry, status |-> m.status]
    BY DEF ManifestType
  <2> QED
    BY <2>1 DEF RecordCase
<1>6. /\ x \in [Case -> CaseRecord] /\ x[c].status = res.status /\ x[c].ref = res.ref
      /\ \A d \in Case \ {c} : x[d] = m.cases[d]
  BY <1>2, <1>4
<1>7. /\ y \in [Key -> Ref]
      /\ y = IF res.status \in Ok THEN Register(m.registry, c, res.ref) ELSE m.registry
  BY <1>2, <1>3
<1> HIDE DEF x, y
<1>8. /\ Revised(m, x, y) \in ManifestType /\ Revised(m, x, y).cases = x
       /\ Revised(m, x, y).registry = y /\ Revised(m, x, y).status = m.status
  BY <1>6, <1>7, ManifestRevised
<1>9. RecordCase(m, c, res) = Revised(m, x, y)
  BY <1>5 DEF Revised
<1> QED
  BY <1>6, <1>7, <1>8, <1>9

\* The artifacts that results bring into a registry.
Refs(res) == [c \in Case |-> IF res[c].status \in Ok THEN res[c].ref ELSE None]

\* The Cases of C have the records of the results res, the others those of m.
Recorded(n, m, C, res) ==
    /\ \A c \in C : n.cases[c].status = res[c].status /\ n.cases[c].ref = res[c].ref
    /\ \A c \in Case \ C : n.cases[c] = m.cases[c]

\* What several records say afterwards.
LEMMA RecordAllFacts ==
    ASSUME RunTypes, at <= Len(plan), NEW m \in ManifestType, NEW C, C \subseteq StageCases,
           NEW order, order \in {DeclaredOrder, LaunchOrder}, NEW res \in [Case -> ResultType]
    PROVE  /\ RecordAll(m, C, order, res) \in ManifestType
           /\ RecordAll(m, C, order, res).status = m.status
           /\ Recorded(RecordAll(m, C, order, res), m, C, res)
           /\ RecordAll(m, C, order, res).registry = RegisterAll(m.registry, C, order, Refs(res))
<1>1. at \in 1..Len(plan)
  BY StageFacts DEF RunTypes
<1>2. C \subseteq Case
  BY <1>1, StageFacts DEF StageCases, Stage
<1>3. Refs(res) \in [Case -> Ref]
  BY DEF Refs, ResultType, Ref
<1>4. m.registry \in [Key -> Ref] /\ m.cases \in [Case -> CaseRecord]
  BY DEF ManifestType
<1>5. RegisterAll(m.registry, C, order, Refs(res)) \in [Key -> Ref]
  BY <1>3, <1>4, RegisterAllFacts
<1> DEFINE x == [c \in Case |-> IF c \in C THEN RecordCase(m, c, res[c]).cases[c] ELSE m.cases[c]]
           y == RegisterAll(m.registry, C, order, Refs(res))
<1>6. RecordAll(m, C, order, res) = [m EXCEPT !.cases = x, !.registry = y]
  <2>1. m = [cases |-> m.cases, registry |-> m.registry, status |-> m.status]
    BY DEF ManifestType
  <2> QED
    BY <2>1 DEF RecordAll, Refs
<1>7. ASSUME NEW c \in C
      PROVE  /\ RecordCase(m, c, res[c]).cases[c] \in CaseRecord
             /\ RecordCase(m, c, res[c]).cases[c].status = res[c].status
             /\ RecordCase(m, c, res[c]).cases[c].ref = res[c].ref
  <2>1. c \in Case /\ res[c] \in ResultType
    BY <1>2
  <2>2. RecordCase(m, c, res[c]) \in ManifestType
    BY <2>1, RecordFacts
  <2>3. RecordCase(m, c, res[c]).cases \in [Case -> CaseRecord]
    BY <2>2 DEF ManifestType
  <2> QED
    BY <2>1, <2>3, RecordFacts
<1>8. /\ x \in [Case -> CaseRecord]
      /\ \A c \in C : x[c].status = res[c].status /\ x[c].ref = res[c].ref
      /\ \A c \in Case \ C : x[c] = m.cases[c]
  BY <1>2, <1>4, <1>7
<1> HIDE DEF x, y
<1>9. y \in [Key -> Ref] /\ y = RegisterAll(m.registry, C, order, Refs(res))
  BY <1>5 DEF y
<1>10. /\ Revised(m, x, y) \in ManifestType /\ Revised(m, x, y).cases = x
       /\ Revised(m, x, y).registry = y /\ Revised(m, x, y).status = m.status
  BY <1>8, <1>9, ManifestRevised
<1>11. RecordAll(m, C, order, res) = Revised(m, x, y)
  BY <1>6 DEF Revised
<1> QED
  BY <1>8, <1>9, <1>10, <1>11 DEF Recorded

\* What the link to a broker task says afterwards.
LEMMA SubmitFacts ==
    ASSUME NEW m \in ManifestType, NEW c \in Case, NEW t \in 0..MaxRuns
    PROVE  /\ RecordExternalTask(m, c, t) \in ManifestType
           /\ RecordExternalTask(m, c, t).status = m.status
           /\ RecordExternalTask(m, c, t).cases[c].status = "submitted"
           /\ RecordExternalTask(m, c, t).cases[c].ref = None
           /\ \A d \in Case \ {c} : RecordExternalTask(m, c, t).cases[d] = m.cases[d]
           /\ RecordExternalTask(m, c, t).registry = m.registry
<1>1. [status |-> "submitted", ref |-> None, task |-> t] \in CaseRecord
  BY DEF CaseRecord, Status, Ref
<1> QED
  BY <1>1 DEF RecordExternalTask, ManifestType

-----------------------------------------------------------------------------
(* What the coordinator retains in a step.                                 *)

\* What a step may do to the record of a Case: leave it ...
RecordKept(c) ==
    /\ manifests'[runs].cases[c].status = Manifest.cases[c].status
    /\ manifests'[runs].cases[c].ref = Manifest.cases[c].ref
\* ... make it that of the Case's result ...
RecordMatches(c) ==
    /\ manifests'[runs].cases[c].status = results'[c].status
    /\ manifests'[runs].cases[c].ref = results'[c].ref
\* ... or link a Case without a result to its broker task.
RecordSubmits(c) ==
    /\ manifests'[runs].cases[c].status = "submitted"
    /\ manifests'[runs].cases[c].ref = None
    /\ results[c].status = "none"

\* Results are added to Cases of the stage that have none, a resumed Case gets
\* the one it had; records follow the results and the registry the records.
ResultsGrow ==
    \A c \in Case :
        /\ Credited(c, results'[c])
        /\ results'[c] # results[c] =>
              /\ results[c].status = "none" /\ at <= Len(plan) /\ c \in StageCases
              /\ c \in Resumed =>
                    /\ results'[c].status = "resumed"
                    /\ results'[c].ref = manifests[prior[runs]].cases[c].ref
\* Records change only to those of results, unless a wave is going on.
RecordsFollow ==
    /\ \A r \in RunId : r # runs => manifests'[r] = manifests[r]
    /\ manifests'[runs].status = Manifest.status
    /\ \A c \in Case :
          \/ RecordMatches(c)
          \/ RecordSubmits(c) /\ results'[c] = results[c]
          \/ RecordKept(c) /\ (InWave(c)' \/ (results'[c] = results[c] /\ ~InWave(c)))
\* The registry changes only to artifacts of recorded results.
RegistryFollows ==
    \A k \in Key :
        \/ registry'[k] = registry[k]
        \/ \E c \in Case : /\ k \in {c, ArtifactOf[c]} /\ registry'[k] = results'[c].ref
                           /\ results'[c].status \in Ok /\ RecordMatches(c)
\* So does the registry in the manifest, under distinct names.
NamesFollow ==
    LET old == Manifest.registry
        new == manifests'[runs].registry
    IN  DistinctNames => \A c \in Case :
          \/ /\ new[c] = old[c] /\ new[ArtifactOf[c]] = old[ArtifactOf[c]]
             /\ manifests'[runs].cases[c].status \in Ok => RecordKept(c)
          \/ /\ results'[c].status \in Ok /\ RecordMatches(c) /\ new[c] = results'[c].ref
             /\ new[ArtifactOf[c]] = IF old[ArtifactOf[c]] = None THEN results'[c].ref
                                     ELSE old[ArtifactOf[c]]
\* The coordinator goes on, in its stage or to the next one.
Onward ==
    /\ pc # "idle" /\ pc' # "idle" /\ plan' = plan /\ runs' = runs /\ prior' = prior
    /\ \/ at' = at /\ pc' # "stage"
       \/ at' = at + 1 /\ pc' \in {"stage", "finish"}
    /\ pc' \in InStage => at' <= Len(plan)

\* What every step of the coordinator keeps of what it has retained.
Retains == Onward /\ ResultsGrow /\ RecordsFollow /\ RegistryFollows /\ NamesFollow

\* The part of the invariant that this is enough for.
BaseInv == RunTypes /\ RunOrder /\ CreditsRight /\ RecordsHeld /\ StagesAhead /\ RegistryBacked

\* The run resumed from stays what it is.
LEMMA ResumedSame ==
    ASSUME RunTypes, RunOrder, pc # "idle", runs' = runs, prior' = prior,
           \A r \in RunId : r # runs => manifests'[r] = manifests[r]
    PROVE  /\ prior[runs] # 0 => prior[runs] \in RunId /\ manifests'[prior[runs]] = manifests[prior[runs]]
           /\ runs \in RunId
           /\ \A c \in Case : c \in Resumed => prior[runs] # 0
           /\ Resumed' = Resumed
<1>1. runs \in RunId
  BY ProjectAssumption DEF RunTypes, RunOrder, RunId
<1>2. prior[runs] \in 0..MaxRuns /\ prior[runs] < runs
  BY <1>1 DEF RunTypes, RunOrder
<1>3. prior[runs] # 0 => prior[runs] \in RunId /\ prior[runs] # runs
  BY <1>1, <1>2, ProjectAssumption DEF RunId
<1>4. prior[runs] # 0 => manifests'[prior[runs]] = manifests[prior[runs]]
  BY <1>3
<1> QED
  BY <1>1, <1>3, <1>4 DEF Resumed, Successful

\* Retaining preserves that part.
LEMMA RetainsBase ==
    ASSUME BaseInv, Retains
    PROVE  /\ RunOrder' /\ CreditsRight' /\ RecordsHeld' /\ StagesAhead' /\ RegistryBacked'
           /\ Resumed' = Resumed
<1> USE DEF BaseInv, Retains
<1>0. /\ prior[runs] # 0 => prior[runs] \in RunId /\ manifests'[prior[runs]] = manifests[prior[runs]]
      /\ runs \in RunId
      /\ \A c \in Case : c \in Resumed => prior[runs] # 0
      /\ Resumed' = Resumed
  BY ResumedSame DEF Onward, RecordsFollow
<1>1. RunOrder'
  <2>1. ASSUME NEW r \in RunId, r > runs PROVE manifests'[r] = manifests[r]
    BY <1>0, <2>1 DEF RecordsFollow, RunId
  <2> QED
    BY <2>1 DEF RunOrder, Onward
<1>2. CreditsRight'
  <2>1. ASSUME NEW c \in Case PROVE Credited(c, manifests'[runs].cases[c])
    <3>1. Credited(c, manifests[runs].cases[c]) /\ Credited(c, results'[c])
      BY <1>0 DEF CreditsRight, ResultsGrow
    <3>2. RecordKept(c) \/ RecordMatches(c) \/ RecordSubmits(c)
      BY DEF RecordsFollow
    <3> QED
      BY <3>1, <3>2 DEF Credited, RecordKept, RecordMatches, RecordSubmits, Manifest, Ok
  <2>2. ASSUME NEW c \in Case, NEW r \in RunId PROVE Credited(c, manifests'[r].cases[c])
    <3>1. CASE r = runs
      BY <3>1, <2>1
    <3>2. CASE r # runs
      BY <3>2 DEF RecordsFollow, CreditsRight
    <3> QED
      BY <3>1, <3>2
  <2> QED
    BY <2>2 DEF CreditsRight, ResultsGrow
<1>3. ASSUME NEW c \in Case, Manifest.cases[c].status \in Ok
      PROVE  /\ results[c].status = Manifest.cases[c].status /\ results[c].ref = Manifest.cases[c].ref
             /\ results'[c] = results[c] /\ ~RecordSubmits(c)
  <2>1. results[c].status = Manifest.cases[c].status /\ results[c].ref = Manifest.cases[c].ref
    BY <1>3 DEF RecordsHeld, Onward
  <2>2. results[c].status # "none"
    BY <1>3, <2>1 DEF Ok
  <2> QED
    BY <2>1, <2>2 DEF ResultsGrow, RecordSubmits
<1>4. RecordsHeld'
  <2> SUFFICES ASSUME NEW c \in Case, manifests'[runs].cases[c].status \in Ok
               PROVE  /\ results'[c].status = manifests'[runs].cases[c].status
                      /\ results'[c].ref = manifests'[runs].cases[c].ref
    BY DEF RecordsHeld, Manifest, Onward
  <2>1. CASE RecordKept(c)
    BY <2>1, <1>3 DEF RecordKept
  <2>2. CASE RecordMatches(c)
    BY <2>2 DEF RecordMatches
  <2>3. ~RecordSubmits(c)
    BY DEF RecordSubmits, Ok
  <2> QED
    BY <2>1, <2>2, <2>3 DEF RecordsFollow
<1>5. StagesAhead'
  <2>1. ASSUME NEW i \in 1..Len(plan), i > at' \/ (i = at' /\ pc' = "stage"),
               NEW c \in ToSet(plan[i].cases)
        PROVE  results'[c].status = "none"
    <3>0. Len(plan) \in Nat /\ at \in 1..(Len(plan) + 1) /\ i \in Int
      BY StageFacts DEF RunTypes
    <3>1. i > at
      BY <2>1, <3>0 DEF Onward
    <3>2. results[c].status = "none"
      BY <3>1 DEF StagesAhead, Onward
    <3>3. CASE results'[c] = results[c]
      BY <3>2, <3>3
    <3>4. CASE results'[c] # results[c]
      <4>1. c \in Case
        BY StageFacts
      <4>2. c \in StageCases /\ at \in 1..Len(plan)
        BY <3>0, <3>4, <4>1 DEF ResultsGrow
      <4>3. ToSet(plan[i].cases) \cap ToSet(plan[at].cases) = {}
        <5>1. \A j \in 1..Len(plan) : i # j =>
                 ToSet(plan[i].cases) \cap ToSet(plan[j].cases) = {}
          BY StageFacts
        <5>2. i # at
          BY <3>0, <3>1
        <5> QED
          BY <5>1, <5>2, <4>2
      <4> QED
        BY <4>2, <4>3 DEF StageCases, Stage
    <3> QED
      BY <3>3, <3>4
  <2> QED
    BY <2>1 DEF StagesAhead, Onward
<1>6. RegistryBacked'
  <2> SUFFICES ASSUME NEW k \in Key, registry'[k] # None
               PROVE  /\ k \in {registry'[k][2], ArtifactOf[registry'[k][2]]}
                      /\ \/ /\ registry'[k][2] \in Resumed
                            /\ manifests'[prior[runs]].cases[registry'[k][2]].ref = registry'[k]
                         \/ /\ manifests'[runs].cases[registry'[k][2]].status \in Ok
                            /\ manifests'[runs].cases[registry'[k][2]].ref = registry'[k]
    BY <1>0 DEF RegistryBacked, Manifest, Onward
  <2>1. CASE registry'[k] = registry[k]
    <3> DEFINE c == registry[k][2]
    <3>1. /\ k \in {c, ArtifactOf[c]}
          /\ \/ c \in Resumed /\ manifests[prior[runs]].cases[c].ref = registry[k]
             \/ Manifest.cases[c].status \in Ok /\ Manifest.cases[c].ref = registry[k]
      BY <2>1 DEF RegistryBacked, Onward
    <3>2. c \in Case
      <4>1. registry[k] \in RunId \X Case
        BY <2>1 DEF RunTypes, Ref
      <4> QED
        BY <4>1
    <3> HIDE DEF c
    <3>3. CASE c \in Resumed /\ manifests[prior[runs]].cases[c].ref = registry[k]
      BY <3>1, <3>2, <3>3, <2>1, <1>0 DEF c
    <3>4. CASE Manifest.cases[c].status \in Ok /\ Manifest.cases[c].ref = registry[k]
      <4>1. /\ results[c].status = Manifest.cases[c].status /\ results[c].ref = Manifest.cases[c].ref
            /\ results'[c] = results[c] /\ ~RecordSubmits(c)
        BY <3>2, <3>4, <1>3
      <4>2. RecordKept(c) \/ RecordMatches(c)
        BY <3>2, <4>1 DEF RecordsFollow
      <4>3. manifests'[runs].cases[c].status \in Ok /\ manifests'[runs].cases[c].ref = registry[k]
        BY <3>4, <4>1, <4>2 DEF RecordKept, RecordMatches
      <4> QED
        BY <3>1, <4>3, <2>1 DEF c
    <3> QED
      BY <3>1, <3>3, <3>4
  <2>2. CASE registry'[k] # registry[k]
    <3>1. PICK c \in Case : /\ k \in {c, ArtifactOf[c]} /\ registry'[k] = results'[c].ref
                            /\ results'[c].status \in Ok /\ RecordMatches(c)
      BY <2>2 DEF RegistryFollows
    <3>2. results'[c].ref \in RunId \X {c}
      BY <3>1 DEF ResultsGrow, Credited
    <3>3. registry'[k][2] = c
      BY <3>1, <3>2
    <3> QED
      BY <3>1, <3>3 DEF RecordMatches
  <2> QED
    BY <2>1, <2>2
<1> QED
  BY <1>0, <1>1, <1>2, <1>4, <1>5, <1>6

-----------------------------------------------------------------------------
(* Registration under distinct names touches the entries of its Cases.     *)

\* c has its artifact ref under its names, the bare one if it was free.
Entered(old, new, c, ref) ==
    /\ new[c] = ref
    /\ new[ArtifactOf[c]] = IF old[ArtifactOf[c]] = None THEN ref ELSE old[ArtifactOf[c]]
\* The names of c stand for what they stood for.
Untouched(old, new, c) == new[c] = old[c] /\ new[ArtifactOf[c]] = old[ArtifactOf[c]]

\* A bare name is no qualified one.
LEMMA KeysDiffer ==
    ASSUME NEW c \in Case
    PROVE  /\ c \in Key /\ ArtifactOf[c] \in Key /\ ArtifactOf[c] \notin Case
           /\ \A d \in Case : ArtifactOf[c] # d
  BY ProjectAssumption DEF Key

\* The registration of one Case leaves the names of the others alone ...
LEMMA RegisterDistinct ==
    ASSUME DistinctNames, NEW reg \in [Key -> Ref], NEW c \in Case, NEW ref \in Ref, NEW d \in Case
    PROVE  IF d = c /\ ref # None THEN Entered(reg, Register(reg, c, ref), c, ref)
                                  ELSE Untouched(reg, Register(reg, c, ref), d)
<1>1. /\ d \in Key /\ ArtifactOf[d] \in Key /\ ArtifactOf[d] \notin Case
      /\ c \in Key /\ ArtifactOf[c] \in Key /\ ArtifactOf[c] \notin Case
  BY KeysDiffer
<1>2. d # c => ArtifactOf[c] # ArtifactOf[d]
  BY DEF DistinctNames
<1> QED
  BY <1>1, <1>2 DEF Register, Entered, Untouched

\* ... and so does that of several.
LEMMA RegisterAllDistinct ==
    ASSUME DistinctNames, NEW reg \in [Key -> Ref], NEW C, NEW order, NEW refs, C \subseteq Case,
           NEW d \in Case
    PROVE  IF d \in C /\ refs[d] # None
           THEN Entered(reg, RegisterAll(reg, C, order, refs), d, refs[d])
           ELSE Untouched(reg, RegisterAll(reg, C, order, refs), d)
<1> DEFINE known(k) == {c \in C : refs[c] # None /\ k \in {c, ArtifactOf[c]}}
           all == [k \in Key |-> IF known(k) = {} \/ (k \notin Case /\ reg[k] # None) THEN reg[k]
                                 ELSE refs[First(order, known(k))]]
<1>1. RegisterAll(reg, C, order, refs) = all
  BY DEF RegisterAll
<1>2. d \in Key /\ ArtifactOf[d] \in Key /\ ArtifactOf[d] \notin Case
  BY KeysDiffer
<1>3. \A c \in C : c \in Case /\ ArtifactOf[c] \notin Case /\ (ArtifactOf[c] = ArtifactOf[d] => c = d)
  BY KeysDiffer DEF DistinctNames
<1>4. CASE d \in C /\ refs[d] # None
  <2>1. known(d) = {d}
    BY <1>3, <1>4, <1>2
  <2>2. known(ArtifactOf[d]) = {d}
    BY <1>3, <1>4, <1>2
  <2>3. First(order, {d}) = d
    BY FirstOfOne
  <2>4. all[d] = refs[d]
    <3> HIDE DEF known
    <3> QED
      BY <1>2, <2>1, <2>3
  <2>5. all[ArtifactOf[d]] = IF reg[ArtifactOf[d]] = None THEN refs[d] ELSE reg[ArtifactOf[d]]
    <3> HIDE DEF known
    <3> QED
      BY <1>2, <2>2, <2>3
  <2> QED
    BY <1>1, <1>4, <2>4, <2>5 DEF Entered
<1>5. CASE ~(d \in C /\ refs[d] # None)
  <2>1. known(d) = {}
    BY <1>3, <1>5, <1>2
  <2>2. known(ArtifactOf[d]) = {}
    BY <1>3, <1>5, <1>2
  <2> HIDE DEF known
  <2>3. all[d] = reg[d] /\ all[ArtifactOf[d]] = reg[ArtifactOf[d]]
    BY <1>2, <2>1, <2>2
  <2> QED
    BY <1>1, <1>5, <2>3 DEF Untouched
<1> QED
  BY <1>4, <1>5

-----------------------------------------------------------------------------
(* The kinds of steps that retain results.                                 *)

\* The current run and its manifest.
LEMMA HereFacts ==
    ASSUME BaseInv, pc # "idle"
    PROVE  /\ runs \in RunId /\ Manifest \in ManifestType
           /\ results \in [Case -> ResultType] /\ registry \in [Key -> Ref]
<1>1. runs \in RunId
  BY ResumedSame DEF BaseInv, RunTypes, RunOrder, RunId
<1>2. Manifest \in ManifestType /\ results \in [Case -> ResultType] /\ registry \in [Key -> Ref]
  BY <1>1 DEF BaseInv, RunTypes, ManifestType, ResultType, Manifest
<1> QED
  BY <1>1, <1>2

\* The current stage is one of the plan.
LEMMA StageHere ==
    ASSUME RunTypes, at <= Len(plan)
    PROVE  at \in 1..Len(plan) /\ StageCases \subseteq Case
<1>1. plan \in Plans /\ at \in 1..(Len(plan) + 1)
  BY DEF RunTypes
<1>2. Len(plan) \in Nat
  BY <1>1, ProjectAssumption
<1>3. at \in 1..Len(plan)
  BY <1>1, <1>2
<1> QED
  BY <1>3, StageFacts DEF StageCases, Stage

\* A step that retains nothing.
LEMMA QuietRetains ==
    ASSUME BaseInv, pc # "idle", UNCHANGED <<results, registry, manifests>>,
           \A c \in Case : RecordKept(c) => (InWave(c)' \/ ~InWave(c))
    PROVE  ResultsGrow /\ RecordsFollow /\ RegistryFollows /\ NamesFollow
<1>1. \A c \in Case : RecordKept(c)
  BY DEF RecordKept, Manifest
<1>2. \A c \in Case : Credited(c, results'[c])
  BY DEF BaseInv, CreditsRight
<1> QED
  BY <1>1, <1>2 DEF ResultsGrow, RecordsFollow, RegistryFollows, NamesFollow, Manifest

\* A step that links a broker task to a Case without a result.
LEMMA LinkRetains ==
    ASSUME BaseInv, pc # "idle", UNCHANGED <<results, registry>>, Stage.policy # "dag",
           NEW c \in Case, results[c].status = "none", NEW t \in 0..MaxRuns,
           manifests' = [manifests EXCEPT ![runs] = RecordExternalTask(Manifest, c, t)]
    PROVE  ResultsGrow /\ RecordsFollow /\ RegistryFollows /\ NamesFollow
<1>1. runs \in RunId /\ Manifest \in ManifestType
  BY HereFacts
<1> DEFINE m == RecordExternalTask(Manifest, c, t)
<1>2. /\ m.status = Manifest.status /\ m.cases[c].status = "submitted" /\ m.cases[c].ref = None
      /\ \A d \in Case \ {c} : m.cases[d] = Manifest.cases[d]
      /\ m.registry = Manifest.registry
  BY <1>1, SubmitFacts
<1> HIDE DEF m
<1>3. manifests'[runs] = m /\ \A r \in RunId : r # runs => manifests'[r] = manifests[r]
  BY <1>1 DEF BaseInv, RunTypes, m
<1>4. RecordSubmits(c)
  BY <1>2, <1>3 DEF RecordSubmits
<1>5. \A d \in Case \ {c} : RecordKept(d)
  BY <1>2, <1>3 DEF RecordKept
<1>6. \A d \in Case : ~InWave(d) /\ results'[d] = results[d]
  BY DEF InWave
<1>7. \A d \in Case : Credited(d, results'[d])
  BY DEF BaseInv, CreditsRight
<1>8. NamesFollow
  BY <1>2, <1>3, <1>5 DEF NamesFollow, Ok
<1>9. RecordsFollow
  BY <1>2, <1>3, <1>4, <1>5, <1>6 DEF RecordsFollow
<1> QED
  BY <1>6, <1>7, <1>8, <1>9 DEF ResultsGrow, RegistryFollows

\* A result that may be given to a Case of the stage.
MayGet(c, res) ==
    /\ res \in ResultType /\ Credited(c, res) /\ res.status # "none"
    /\ c \in StageCases /\ results[c].status = "none"
    /\ c \in Resumed => res.status = "resumed" /\ res.ref = manifests[prior[runs]].cases[c].ref

\* One result that may be given.
LEMMA OneGrows ==
    ASSUME BaseInv, pc # "idle", at <= Len(plan), NEW c \in Case, NEW res, MayGet(c, res),
           results' = [results EXCEPT ![c] = res]
    PROVE  ResultsGrow /\ results'[c] = res /\ results' \in [Case -> ResultType]
<1>1. results \in [Case -> ResultType]
  BY HereFacts
<1>2. results'[c] = res /\ \A d \in Case \ {c} : results'[d] = results[d]
  BY <1>1
<1>3. \A d \in Case : Credited(d, results'[d])
  BY <1>2 DEF MayGet, BaseInv, CreditsRight
<1>4. ResultsGrow
  BY <1>2, <1>3 DEF ResultsGrow, MayGet
<1> QED
  BY <1>1, <1>2, <1>4 DEF MayGet

\* One result with its record, and the registration of its artifact or none.
LEMMA OneRetains ==
    ASSUME BaseInv, pc # "idle", at <= Len(plan), Stage.policy # "dag",
           NEW c \in Case, NEW res, MayGet(c, res), NEW m \in ManifestType,
           m.status = Manifest.status, m.registry = Manifest.registry,
           \A d \in Case \ {c} : m.cases[d] = Manifest.cases[d],
           results' = [results EXCEPT ![c] = res],
           manifests' = [manifests EXCEPT ![runs] = RecordCase(m, c, res)],
           registry' = registry \/ registry' = Register(registry, c, res.ref)
    PROVE  ResultsGrow /\ RecordsFollow /\ RegistryFollows /\ NamesFollow
<1>1. /\ runs \in RunId /\ Manifest \in ManifestType /\ results \in [Case -> ResultType]
      /\ registry \in [Key -> Ref]
  BY HereFacts
<1>2. ResultsGrow /\ results'[c] = res
  BY OneGrows
<1>3. res \in ResultType /\ Credited(c, res)
  BY DEF MayGet
<1> DEFINE n == RecordCase(m, c, res)
<1>4. /\ n.status = m.status /\ n.cases[c].status = res.status /\ n.cases[c].ref = res.ref
      /\ \A d \in Case \ {c} : n.cases[d] = m.cases[d]
      /\ n.registry = IF res.status \in Ok THEN Register(m.registry, c, res.ref) ELSE m.registry
  BY <1>3, RecordFacts
<1> HIDE DEF n
<1>5. manifests'[runs] = n /\ \A r \in RunId : r # runs => manifests'[r] = manifests[r]
  BY <1>1 DEF BaseInv, RunTypes, n
<1>6. RecordMatches(c)
  BY <1>2, <1>4, <1>5 DEF RecordMatches
<1>7. \A d \in Case \ {c} : RecordKept(d)
  BY <1>4, <1>5 DEF RecordKept
<1>8. \A d \in Case \ {c} : ~InWave(d) /\ results'[d] = results[d]
  BY <1>1 DEF InWave
<1>9. RecordsFollow
  BY <1>4, <1>5, <1>6, <1>7, <1>8 DEF RecordsFollow
<1>10. RegistryFollows
  <2>1. CASE registry' = registry
    BY <2>1 DEF RegistryFollows
  <2>2. CASE registry' = Register(registry, c, res.ref)
    <3>1. ASSUME NEW k \in Key, registry'[k] # registry[k]
          PROVE  res.ref # None /\ k \in {c, ArtifactOf[c]} /\ registry'[k] = res.ref
      BY <1>1, <1>3, <2>2, <3>1, RegisterFacts DEF ResultType
    <3>2. res.ref # None => res.status \in Ok
      BY <1>3 DEF Credited
    <3> QED
      BY <3>1, <3>2, <1>2, <1>6 DEF RegistryFollows
  <2> QED
    BY <2>1, <2>2
<1>11. NamesFollow
  <2> SUFFICES ASSUME DistinctNames, NEW d \in Case
               PROVE  \/ /\ Untouched(Manifest.registry, n.registry, d)
                         /\ n.cases[d].status \in Ok => RecordKept(d)
                      \/ /\ results'[d].status \in Ok /\ RecordMatches(d)
                         /\ Entered(Manifest.registry, n.registry, d, results'[d].ref)
    BY <1>5 DEF NamesFollow, Untouched, Entered
  <2>1. Manifest.registry \in [Key -> Ref] /\ res.ref \in Ref
    BY <1>1, <1>3 DEF ManifestType, ResultType
  <2>2. CASE res.status \notin Ok
    BY <2>2, <1>4, <1>7 DEF Untouched
  <2>3. CASE res.status \in Ok
    <3>1. n.registry = Register(Manifest.registry, c, res.ref)
      BY <1>4, <2>3
    <3>2. res.ref # None
      BY <2>3, <1>3, ProjectAssumption DEF Credited, RunId
    <3>3. CASE d = c
      <4>1. Entered(Manifest.registry, n.registry, c, res.ref)
        BY <2>1, <3>1, <3>2, RegisterDistinct
      <4> QED
        BY <4>1, <3>3, <2>3, <1>2, <1>6
    <3>4. CASE d # c
      <4>1. Untouched(Manifest.registry, n.registry, d)
        BY <2>1, <3>1, <3>4, RegisterDistinct
      <4> QED
        BY <4>1, <3>4, <1>7
    <3> QED
      BY <3>3, <3>4
  <2> QED
    BY <2>2, <2>3
<1> QED
  BY <1>2, <1>9, <1>10, <1>11

\* The records of several Cases, and the registration of their artifacts or none.
LEMMA ManyRetain ==
    ASSUME BaseInv, pc # "idle", at <= Len(plan), NEW C, C \subseteq StageCases,
           NEW order, order \in {DeclaredOrder, LaunchOrder}, NEW refs \in [Case -> Ref],
           results' \in [Case -> ResultType], ResultsGrow,
           \A c \in Case \ C : results'[c] = results[c] /\ ~InWave(c),
           manifests' = [manifests EXCEPT ![runs] = RecordAll(Manifest, C, order, results')],
           \/ registry' = registry
           \/ registry' = RegisterAll(registry, C, order, refs),
           \A c \in C : refs[c] # None => results'[c].status \in Ok /\ results'[c].ref = refs[c]
    PROVE  RecordsFollow /\ RegistryFollows /\ NamesFollow
<1>1. /\ runs \in RunId /\ Manifest \in ManifestType /\ registry \in [Key -> Ref]
      /\ StageCases \subseteq Case /\ RunTypes
  BY HereFacts, StageHere DEF BaseInv
<1>2. C \subseteq Case
  BY <1>1
<1> DEFINE n == RecordAll(Manifest, C, order, results')
<1>3. /\ n.status = Manifest.status
      /\ \A c \in C : n.cases[c].status = results'[c].status /\ n.cases[c].ref = results'[c].ref
      /\ \A c \in Case \ C : n.cases[c] = Manifest.cases[c]
      /\ n.registry = RegisterAll(Manifest.registry, C, order, Refs(results'))
  <2> DEFINE res == results'
  <2> HIDE DEF res
  <2>1. res \in [Case -> ResultType]
    BY DEF res
  <2>2. LET k == RecordAll(Manifest, C, order, res)
        IN  /\ k.status = Manifest.status
            /\ Recorded(k, Manifest, C, res)
            /\ k.registry = RegisterAll(Manifest.registry, C, order, Refs(res))
    BY <1>1, <2>1, RecordAllFacts
  <2> QED
    BY <2>2 DEF res, Recorded
<1> HIDE DEF n
<1>4. manifests'[runs] = n /\ \A r \in RunId : r # runs => manifests'[r] = manifests[r]
  BY <1>1 DEF RunTypes, n
<1>5. \A c \in C : RecordMatches(c)
  BY <1>3, <1>4 DEF RecordMatches
<1>6. \A c \in Case \ C : RecordKept(c)
  BY <1>3, <1>4 DEF RecordKept
<1>7. RecordsFollow
  BY <1>3, <1>4, <1>5, <1>6 DEF RecordsFollow
<1>8. RegistryFollows
  <2>1. CASE registry' = registry
    BY <2>1 DEF RegistryFollows
  <2>2. CASE registry' = RegisterAll(registry, C, order, refs)
    <3>1. Registered(RegisterAll(registry, C, order, refs), registry, C, refs)
      BY <1>1, RegisterAllFacts
    <3> QED
      BY <3>1, <2>2, <1>2, <1>5 DEF RegistryFollows, Registered
  <2> QED
    BY <2>1, <2>2
<1>9. NamesFollow
  <2> SUFFICES ASSUME DistinctNames, NEW d \in Case
               PROVE  \/ /\ Untouched(Manifest.registry, n.registry, d)
                         /\ n.cases[d].status \in Ok => RecordKept(d)
                      \/ /\ results'[d].status \in Ok /\ RecordMatches(d)
                         /\ Entered(Manifest.registry, n.registry, d, results'[d].ref)
    BY <1>4 DEF NamesFollow, Untouched, Entered
  <2>1. Manifest.registry \in [Key -> Ref]
    BY <1>1 DEF ManifestType
  <2>2. Refs(results')[d] = IF results'[d].status \in Ok THEN results'[d].ref ELSE None
    BY DEF Refs
  <2>3. results'[d].status \in Ok => results'[d].ref # None
    BY ProjectAssumption DEF ResultsGrow, Credited, RunId
  <2>4. CASE d \in C /\ results'[d].status \in Ok
    <3>1. Entered(Manifest.registry, n.registry, d, Refs(results')[d])
      BY <1>2, <1>3, <2>1, <2>2, <2>3, <2>4, RegisterAllDistinct
    <3> QED
      BY <3>1, <2>2, <2>4, <1>5
  <2>5. CASE ~(d \in C /\ results'[d].status \in Ok)
    <3>1. ~(d \in C /\ Refs(results')[d] # None)
      BY <2>2, <2>5
    <3>2. Untouched(Manifest.registry, n.registry, d)
      BY <1>2, <1>3, <2>1, <3>1, RegisterAllDistinct
    <3> QED
      BY <3>2, <2>5, <1>3, <1>6
  <2> QED
    BY <2>4, <2>5
<1> QED
  BY <1>7, <1>8, <1>9

\* Results of a wave of a DAG stage that is still going on.
LEMMA WaveRetains ==
    ASSUME BaseInv, pc # "idle", ResultsGrow, UNCHANGED <<registry, manifests>>,
           \A c \in Case : InWave(c)' \/ (results'[c] = results[c] /\ ~InWave(c))
    PROVE  RecordsFollow /\ RegistryFollows /\ NamesFollow
<1>1. \A c \in Case : RecordKept(c)
  BY DEF RecordKept, Manifest
<1> QED
  BY <1>1 DEF RecordsFollow, RegistryFollows, NamesFollow, Manifest

-----------------------------------------------------------------------------
(* What the steps of the coordinator need to know.                         *)

\* RunInv has that part.
LEMMA InvBase == ASSUME RunInv PROVE BaseInv
  BY DEF RunInv, BaseInv

\* Writing a manifest gives manifests.
LEMMA ManifestWritten ==
    ASSUME RunTypes, runs \in RunId, NEW m \in ManifestType
    PROVE  [manifests EXCEPT ![runs] = m] \in [RunId -> ManifestType]
  BY DEF RunTypes

\* The next Case of a stage is prepared and has no result.
LEMMA CurrentFacts ==
    ASSUME RunInv, pc \in {"serial", "parallel"}, prepared # {}
    PROVE  /\ at <= Len(plan) /\ at \in 1..Len(plan) /\ StageCases \subseteq Case
           /\ prepared \subseteq StageCases
           /\ Current \in prepared /\ Current \in StageCases /\ Current \in Case
           /\ results[Current].status = "none"
           /\ pc = "parallel" => Current \notin running /\ Current \in wave /\ Current \notin Resumed
<1>1. at <= Len(plan)
  BY DEF RunInv, StagesAhead, InStage
<1>2. RunTypes /\ WorkRight
  BY DEF RunInv
<1>3. at \in 1..Len(plan) /\ StageCases \subseteq Case
  BY <1>1, <1>2, StageHere
<1>4. prepared \subseteq StageCases
  BY <1>2 DEF WorkRight
<1>5. Current \in prepared
  BY <1>1, <1>2, <1>4, FirstLaunched DEF Current
<1>6. results[Current].status = "none"
  BY <1>2, <1>5 DEF WorkRight
<1> QED
  BY <1>1, <1>2, <1>3, <1>4, <1>5, <1>6 DEF WorkRight

\* What is running in a parallel stage.
LEMMA RunningFacts ==
    ASSUME RunInv, pc \in {"parallel", "record"}, NEW c \in running
    PROVE  /\ at <= Len(plan) /\ c \in StageCases /\ c \in Case /\ c \notin Resumed /\ c \in wave
           /\ results[c].status = "none" /\ c \notin prepared
           /\ External => awaits[c] \in RunId
<1>1. at <= Len(plan)
  BY DEF RunInv, StagesAhead, InStage
<1>2. RunTypes /\ WorkRight
  BY DEF RunInv
<1>3. c \in StageCases /\ c \in wave /\ c \notin Resumed /\ c \notin prepared
  BY <1>2 DEF WorkRight
<1>4. c \in Case
  BY <1>2 DEF RunTypes
<1> QED
  BY <1>1, <1>2, <1>3, <1>4 DEF WorkRight, External

\* The order of the launches is that of the stage.
LEMMA SameCurrent ==
    ASSUME plan' = plan, at' = at, prepared' = prepared
    PROVE  Current' = Current
  BY DEF Current, First, LaunchOrder, DeclaredOrder, StageCases, Stage, Layer, Layerings,
         Dependencies, Position

\* The broker task of the run resumed from.
LEMMA PriorTaskFacts ==
    ASSUME RunInv, pc # "idle", NEW c \in Case
    PROVE  PriorTask(c) \in 0..MaxRuns /\ (PriorStatus(c) # "none" => PriorTask(c) \in RunId)
<1>1. RunTypes /\ RunOrder
  BY DEF RunInv
<1>2. runs \in RunId
  BY <1>1, ResumedSame DEF RunTypes, RunOrder, RunId
<1> DEFINE m == prior[runs]
<1>3. m \in 0..MaxRuns
  BY <1>1, <1>2 DEF RunTypes
<1>4. MaxRuns \in Nat
  BY ProjectAssumption
<1> HIDE DEF m
<1>5. m # 0 => manifests[m].cases[c].task \in 0..MaxRuns
  BY <1>1, <1>3, <1>4 DEF RunTypes, RunId, ManifestType, CaseRecord
<1>6. PriorTask(c) \in 0..MaxRuns
  BY <1>3, <1>4, <1>5 DEF PriorTask, m
<1>7. PriorStatus(c) # "none" => PriorTask(c) # 0
  BY DEF PriorStatus
<1> QED
  BY <1>4, <1>6, <1>7 DEF RunId

\* A resumed Case has an artifact of its own.
LEMMA ResumedCredited ==
    ASSUME RunInv, pc # "idle", NEW c \in Case, c \in Resumed
    PROVE  manifests[prior[runs]].cases[c].ref \in RunId \X {c}
<1>1. RunTypes /\ RunOrder /\ CreditsRight
  BY DEF RunInv
<1>2. prior[runs] \in RunId /\ manifests[prior[runs]].cases[c].status \in Ok
  <2>1. runs \in RunId
    BY <1>1, ProjectAssumption DEF RunTypes, RunOrder, RunId
  <2>2. prior[runs] \in 0..MaxRuns
    BY <1>1, <2>1 DEF RunTypes
  <2>3. prior[runs] # 0 /\ manifests[prior[runs]].cases[c].status \in Ok
    BY DEF Resumed, Successful
  <2> QED
    BY <2>2, <2>3, ProjectAssumption DEF RunId
<1> QED
  BY <1>1, <1>2 DEF CreditsRight, Credited

\* The whole invariant, once a step is known to retain results.
LEMMA RetainsAll ==
    ASSUME RunInv, Retains, RunTypes', WorkRight', WavesRight'
    PROVE  RunInv'
<1>1. /\ RunOrder' /\ CreditsRight' /\ RecordsHeld' /\ StagesAhead' /\ RegistryBacked'
  BY InvBase, RetainsBase
<1> QED
  BY <1>1 DEF RunInv

\* Steps outside of the coordinator's own state.
LEMMA OutsideKept ==
    ASSUME RunInv, UNCHANGED <<plan, runs, prior, manifests, processVars>>,
           leases' \subseteq RunId \X Case
    PROVE  RunInv'
<1> USE DEF processVars
<1>1. RunTypes'
  BY DEF RunInv, RunTypes
<1>2. RunOrder' /\ CreditsRight'
  BY DEF RunInv, RunOrder, CreditsRight, Credited
<1>3. Resumed' = Resumed /\ Manifest' = Manifest /\ Stage' = Stage /\ StageCases' = StageCases
  BY DEF Resumed, Successful, Manifest, Stage, StageCases
<1>4. RecordsHeld' /\ RegistryBacked' /\ StagesAhead'
  BY <1>3 DEF RunInv, RecordsHeld, RegistryBacked, StagesAhead
<1>5. Current' = Current
  BY SameCurrent
<1>6. WorkRight'
  BY <1>3, <1>5 DEF RunInv, WorkRight
<1>7. WavesRight'
  BY <1>3 DEF RunInv, WavesRight, InWave, Dependencies
<1> QED
  BY <1>1, <1>2, <1>4, <1>6, <1>7 DEF RunInv

\* A step inside of a stage leaves the stage.
LEMMA SameStage ==
    ASSUME plan' = plan, at' = at
    PROVE  /\ Stage' = Stage /\ StageCases' = StageCases /\ External' = External
           /\ Dependencies(Stage)' = Dependencies(Stage)
  BY DEF Stage, StageCases, External, Dependencies

\* Stages other than DAGs have no waves.
LEMMA WavesElsewhere ==
    ASSUME plan' = plan, at' = at, Stage.policy # "dag"
    PROVE  WavesRight' /\ \A c \in Case : ~InWave(c) /\ ~InWave(c)'
  BY SameStage DEF WavesRight, InWave

-----------------------------------------------------------------------------
(* A serial stage.                                                         *)

\* What holds in a serial stage.
LEMMA SerialFacts ==
    ASSUME RunInv, pc = "serial"
    PROVE  /\ at <= Len(plan) /\ Stage.policy = "serial" /\ pc # "idle" /\ pc # "stage"
           /\ running \subseteq prepared /\ RunTypes /\ WorkRight
           /\ running # {} => prepared # {} /\ Current \notin Resumed
<1>1. at <= Len(plan)
  BY DEF RunInv, StagesAhead, InStage
<1>2. RunTypes /\ WorkRight
  BY DEF RunInv
<1>3. running = {} \/ (prepared # {} /\ running = {Current} /\ Current \notin Resumed)
  BY <1>2 DEF WorkRight
<1>4. running \subseteq prepared
  BY <1>3, CurrentFacts
<1> QED
  BY <1>1, <1>2, <1>3, <1>4 DEF WorkRight

\* A step of a serial stage that gives the current Case its result.
LEMMA SerialRecords ==
    ASSUME RunInv, pc = "serial", prepared # {}, NEW res, MayGet(Current, res),
           results' = [results EXCEPT ![Current] = res],
           Write(RecordCase(Manifest, Current, res)),
           registry' = registry \/ registry' = Register(registry, Current, res.ref),
           prepared' \subseteq prepared \ {Current}, running' = {},
           pc' = "serial" \/ (pc' = "finish" /\ prepared' = {}), leases' \subseteq leases,
           holds' \in [Case -> 0..MaxRuns],
           UNCHANGED <<plan, runs, prior, at, wave, awaits>>
    PROVE  Retains /\ RunInv'
<1>1. /\ at <= Len(plan) /\ Stage.policy = "serial" /\ pc # "idle" /\ pc # "stage"
      /\ RunTypes /\ WorkRight
  BY SerialFacts
<1>2. BaseInv /\ Current \in Case /\ Manifest \in ManifestType /\ runs \in RunId
  BY <1>1, InvBase, CurrentFacts, HereFacts
<1>3. ResultsGrow /\ RecordsFollow /\ RegistryFollows /\ NamesFollow
  <2>1. manifests' = [manifests EXCEPT ![runs] = RecordCase(Manifest, Current, res)]
    BY DEF Write
  <2> QED
    BY <1>1, <1>2, <2>1, OneRetains
<1>4. Onward
  BY <1>1 DEF Onward, InStage
<1>5. Retains
  BY <1>3, <1>4 DEF Retains
<1>6. RunTypes'
  <2>1. results' \in [Case -> ResultType]
    BY <1>1, <1>2, OneGrows
  <2>2. res \in ResultType
    BY DEF MayGet
  <2>3. RecordCase(Manifest, Current, res) \in ManifestType
    BY <1>2, <2>2, RecordFacts
  <2>4. manifests' \in [RunId -> ManifestType]
    BY <1>1, <1>2, <2>3, ManifestWritten DEF Write
  <2>5. registry' \in [Key -> Ref]
    <3>1. registry \in [Key -> Ref] /\ res.ref \in Ref
      BY <1>1, <2>2 DEF RunTypes, ResultType
    <3>2. Register(registry, Current, res.ref) \in [Key -> Ref]
      BY <1>2, <3>1, RegisterFacts
    <3> QED
      BY <3>1, <3>2
  <2> QED
    BY <1>1, <2>1, <2>4, <2>5 DEF RunTypes
<1>7. Stage' = Stage /\ StageCases' = StageCases
  BY SameStage
<1>8. Resumed' = Resumed
  BY <1>2, <1>5, RetainsBase
<1>9. WorkRight'
  <2>1. \A c \in prepared' : results'[c].status = "none"
    <3>1. \A c \in prepared' : c \in Case /\ results'[c] = results[c]
      BY <1>1 DEF RunTypes
    <3> QED
      BY <1>1, <3>1 DEF WorkRight
  <2> QED
    BY <1>1, <1>7, <2>1 DEF WorkRight
<1>10. WavesRight'
  BY <1>1, WavesElsewhere
<1> QED
  BY <1>5, <1>6, <1>9, <1>10, RetainsAll

\* A Case of an earlier run is taken over.
LEMMA SerialResumedKeeps == ASSUME RunInv, SerialResumed PROVE Retains /\ RunInv'
<1> USE DEF SerialResumed
<1> DEFINE res == Result("resumed", manifests[prior[runs]].cases[Current].ref)
<1>1. /\ Current \in Case /\ Current \in StageCases /\ Current \in prepared
      /\ results[Current].status = "none"
  BY CurrentFacts
<1>2. res.ref \in RunId \X {Current}
  BY <1>1, ResumedCredited DEF Result
<1>3. MayGet(Current, res)
  BY <1>1, <1>2 DEF MayGet, Result, ResultType, Outcome, Ref, Credited, Ok
<1>4. RunTypes
  BY DEF RunInv
<1> HIDE DEF res
<1>5. /\ results' = [results EXCEPT ![Current] = res]
      /\ Write(RecordCase(Manifest, Current, res))
  BY DEF res
<1> QED
  BY <1>3, <1>4, <1>5, SerialRecords DEF RunTypes

\* retain() of a serial Case, with a success or a failure.
LEMMA SerialRetainKeeps ==
    ASSUME RunInv, pc = "serial", prepared # {}, Current \notin Resumed, NEW res,
           SerialRetain(res), res = Result("failed", None) \/ res = Result("succeeded", <<runs, Current>>)
    PROVE  Retains /\ RunInv'
<1>1. /\ Current \in Case /\ Current \in StageCases /\ Current \in prepared
      /\ results[Current].status = "none"
  BY CurrentFacts
<1>2. runs \in RunId /\ RunTypes
  BY InvBase, HereFacts DEF RunInv
<1>3. MayGet(Current, res)
  BY <1>1, <1>2 DEF MayGet, Result, ResultType, Outcome, Ref, Credited, Ok
<1>4. prepared' \subseteq prepared \ {Current} /\ (pc' = "serial" \/ (pc' = "finish" /\ prepared' = {}))
  BY DEF SerialRetain
<1>5. holds' \in [Case -> 0..MaxRuns]
  BY <1>1, <1>2, ProjectAssumption DEF SerialRetain, RunTypes
<1> QED
  BY <1>3, <1>4, <1>5, SerialRecords DEF SerialRetain

\* A Case without its inputs or its lease fails.
LEMMA SerialRefusedKeeps == ASSUME RunInv, SerialRefused PROVE Retains /\ RunInv'
  BY SerialRetainKeeps DEF SerialRefused

\* A Case returns.
LEMMA SerialDoneKeeps == ASSUME RunInv, SerialDone PROVE Retains /\ RunInv'
<1>1. pc = "serial" /\ prepared # {} /\ Current \notin Resumed
  BY SerialFacts DEF SerialDone
<1> QED
  BY <1>1, SerialRetainKeeps DEF SerialDone

\* A Case starts under its lease.
LEMMA SerialStartKeeps == ASSUME RunInv, SerialStart PROVE Retains /\ RunInv'
<1> USE DEF SerialStart
<1>1. /\ at <= Len(plan) /\ Stage.policy = "serial" /\ pc # "idle" /\ pc # "stage"
      /\ RunTypes /\ WorkRight /\ BaseInv
  BY SerialFacts, InvBase
<1>2. Current \in prepared /\ Current \in Case /\ runs \in RunId
  BY <1>1, CurrentFacts, HereFacts
<1>3. Retains
  <2>1. ResultsGrow /\ RecordsFollow /\ RegistryFollows /\ NamesFollow
    BY <1>1, WavesElsewhere, QuietRetains
  <2> QED
    BY <1>1, <2>1 DEF Retains, Onward, InStage
<1>4. RunTypes'
  <2>1. holds' \in [Case -> 0..MaxRuns]
    BY <1>1, <1>2, ProjectAssumption DEF RunTypes, RunId
  <2>2. leases' \subseteq RunId \X Case
    BY <1>1, <1>2 DEF RunTypes
  <2> QED
    BY <1>1, <1>2, <2>1, <2>2 DEF RunTypes
<1>5. Stage' = Stage /\ StageCases' = StageCases /\ Current' = Current /\ Resumed' = Resumed
  BY <1>1, <1>3, SameStage, SameCurrent, RetainsBase
<1>6. WorkRight'
  BY <1>1, <1>2, <1>5 DEF WorkRight
<1>7. WavesRight'
  BY <1>1, WavesElsewhere
<1> QED
  BY <1>3, <1>4, <1>6, <1>7, RetainsAll

\* The stage is over.
LEMMA SerialEndKeeps == ASSUME RunInv, SerialEnd PROVE Retains /\ RunInv'
<1> USE DEF SerialEnd
<1>1. /\ at <= Len(plan) /\ Stage.policy = "serial" /\ pc # "idle" /\ running = {}
      /\ RunTypes /\ WorkRight /\ BaseInv
  BY SerialFacts, InvBase
<1>2. Retains
  <2>1. \A c \in Case : ~InWave(c)
    BY DEF InWave
  <2>2. ResultsGrow /\ RecordsFollow /\ RegistryFollows /\ NamesFollow
    BY <1>1, <2>1, QuietRetains
  <2> QED
    BY <1>1, <2>2 DEF Retains, Onward, InStage
<1>3. RunTypes'
  <2>1. at' \in 1..(Len(plan) + 1)
    <3>1. at \in 1..Len(plan)
      BY <1>1, StageHere
    <3>2. Len(plan) \in Nat
      BY <3>1, <1>1, StageFacts
    <3> QED
      BY <3>1, <3>2
  <2> QED
    BY <1>1, <2>1 DEF RunTypes
<1>4. WorkRight' /\ WavesRight'
  BY <1>1 DEF WorkRight, WavesRight
<1> QED
  BY <1>2, <1>3, <1>4, RetainsAll

-----------------------------------------------------------------------------
(* A parallel, external or DAG stage.                                      *)

\* What holds while items are running.
LEMMA ParallelFacts ==
    ASSUME RunInv, pc \in {"parallel", "record"}
    PROVE  /\ at <= Len(plan) /\ Stage.policy \in {"parallel", "external", "dag"}
           /\ pc # "idle" /\ RunTypes /\ WorkRight /\ BaseInv
           /\ runs \in RunId /\ Manifest \in ManifestType
           /\ prepared \cup running \subseteq wave /\ wave \subseteq StageCases
           /\ StageCases \subseteq Case
<1>1. at <= Len(plan)
  BY DEF RunInv, StagesAhead, InStage
<1>2. RunTypes /\ WorkRight /\ BaseInv
  BY InvBase DEF RunInv
<1>3. runs \in RunId /\ Manifest \in ManifestType /\ StageCases \subseteq Case
  BY <1>1, <1>2, HereFacts, StageHere
<1> QED
  BY <1>1, <1>2, <1>3 DEF WorkRight

\* A wave goes on: its Cases get results, nothing is recorded.
LEMMA WaveGoesOn ==
    ASSUME RunInv, pc = "parallel", pc' = "parallel", Stage.policy = "dag", Resumed' = Resumed,
           UNCHANGED <<plan, at, manifests, wave, runs>>,
           \A c \in Case : results'[c] # results[c] =>
               c \in wave /\ results'[c].status \in {"succeeded", "failed", "skipped"}
    PROVE  WavesRight'
<1>1. /\ StageCases \subseteq Case
  BY ParallelFacts
<1>2. /\ Stage' = Stage /\ StageCases' = StageCases /\ Dependencies(Stage)' = Dependencies(Stage)
      /\ Manifest' = Manifest
  BY SameStage DEF Manifest
<1>3. WavesRight
  BY DEF RunInv
<1>4. \A d \in Case : InWave(d)' = InWave(d)
  BY <1>2 DEF InWave
<1>5. ASSUME NEW d \in StageCases \ Resumed, results'[d].status \in Ok
      PROVE  results'[d].status = "succeeded" /\ (InWave(d) \/ Manifest.cases[d].status = "succeeded")
  <2>1. CASE results'[d] = results[d]
    BY <2>1, <1>3, <1>5 DEF WavesRight
  <2>2. CASE results'[d] # results[d]
    BY <2>2, <1>1, <1>5 DEF InWave, Ok
  <2> QED
    BY <2>1, <2>2
<1>6. \A c \in wave : \A d \in Dependencies(Stage)[c] :
          d \in Resumed \/ Manifest.cases[d].status = "succeeded"
  BY <1>3 DEF WavesRight
<1> QED
  BY <1>1, <1>2, <1>4, <1>5, <1>6 DEF WavesRight

\* A launch, whichever it is.
LEMMA LaunchKeeps ==
    ASSUME RunInv, CanLaunch, NEW h \in 0..MaxRuns, NEW t \in 0..MaxRuns, Launched(h, t),
           External => t \in RunId, leases' \subseteq RunId \X Case,
           pc' = "parallel" \/ (pc' = "record" /\ External),
           \/ manifests' = manifests
           \/ External /\ Write(RecordExternalTask(Manifest, Current, t))
    PROVE  Retains /\ RunInv'
<1> USE DEF CanLaunch, Launched
<1>1. /\ at <= Len(plan) /\ Stage.policy \in {"parallel", "external", "dag"}
      /\ pc # "idle" /\ RunTypes /\ WorkRight /\ BaseInv
      /\ runs \in RunId /\ Manifest \in ManifestType
      /\ prepared \cup running \subseteq wave /\ wave \subseteq StageCases
      /\ StageCases \subseteq Case
  BY ParallelFacts
<1>2. /\ Current \in prepared /\ Current \in Case /\ results[Current].status = "none"
      /\ Current \notin running
  BY CurrentFacts
<1>3. Stage' = Stage /\ StageCases' = StageCases /\ External' = External
  BY SameStage
<1>4. \A c \in Case : InWave(c)' \/ ~InWave(c)
  BY <1>3 DEF InWave, External
<1>5. ResultsGrow /\ RecordsFollow /\ RegistryFollows /\ NamesFollow
  <2>1. CASE manifests' = manifests
    BY <2>1, <1>1, <1>4, QuietRetains
  <2>2. CASE External /\ Write(RecordExternalTask(Manifest, Current, t))
    BY <2>2, <1>1, <1>2, LinkRetains DEF Write, External
  <2> QED
    BY <2>1, <2>2
<1>6. Retains
  BY <1>1, <1>5 DEF Retains, Onward, InStage
<1>7. Resumed' = Resumed
  BY <1>1, <1>6, RetainsBase
<1>8. RunTypes'
  <2>1. holds' \in [Case -> 0..MaxRuns] /\ awaits' \in [Case -> 0..MaxRuns]
    BY <1>1 DEF RunTypes
  <2>2. manifests' \in [RunId -> ManifestType]
    <3>1. RecordExternalTask(Manifest, Current, t) \in ManifestType
      BY <1>1, <1>2, SubmitFacts
    <3> QED
      BY <1>1, <3>1, ManifestWritten DEF Write, RunTypes
  <2>3. running' \subseteq Case /\ prepared' \subseteq Case
    BY <1>1, <1>2
  <2> QED
    BY <1>1, <2>1, <2>2, <2>3 DEF RunTypes
<1>9. WorkRight'
  <2>1. External => \A c \in running' : awaits'[c] \in RunId
    <3>1. awaits \in [Case -> 0..MaxRuns]
      BY <1>1 DEF RunTypes
    <3>2. External => \A c \in running : awaits[c] \in RunId
      BY <1>1 DEF WorkRight, External
    <3> QED
      BY <1>1, <1>2, <3>1, <3>2
  <2>2. \A c \in prepared' \cup running' : results'[c].status = "none"
    BY <1>1, <1>2 DEF WorkRight
  <2>3. prepared' \cap running' = {} /\ prepared' \cup running' \subseteq wave'
    BY <1>1, <1>2 DEF WorkRight
  <2>4. wave' \subseteq StageCases \ Resumed
    BY <1>1 DEF WorkRight
  <2> QED
    BY <1>1, <1>3, <1>7, <2>1, <2>2, <2>3, <2>4 DEF WorkRight, External
<1>10. WavesRight'
  <2>1. CASE Stage.policy # "dag"
    BY <2>1, WavesElsewhere
  <2>2. CASE Stage.policy = "dag"
    BY <2>2, <1>7, WaveGoesOn DEF External
  <2> QED
    BY <2>1, <2>2
<1> QED
  BY <1>6, <1>8, <1>9, <1>10, RetainsAll

\* A worker process is started.
LEMMA LaunchProcessKeeps == ASSUME RunInv, LaunchProcess PROVE Retains /\ RunInv'
<1>1. runs \in RunId /\ Current \in Case /\ RunTypes
  BY CurrentFacts, ParallelFacts DEF LaunchProcess, CanLaunch
<1>2. leases' \subseteq RunId \X Case /\ runs \in 0..MaxRuns /\ 0 \in 0..MaxRuns
  BY <1>1, ProjectAssumption DEF LaunchProcess, RunTypes, RunId
<1> QED
  BY <1>2, LaunchKeeps DEF LaunchProcess, CanLaunch

\* A broker task is submitted.
LEMMA SubmitExternalKeeps == ASSUME RunInv, SubmitExternal PROVE Retains /\ RunInv'
<1>1. runs \in RunId /\ Current \in Case /\ RunTypes
  BY CurrentFacts, ParallelFacts DEF SubmitExternal, CanLaunch
<1>2. leases' \subseteq RunId \X Case /\ runs \in 0..MaxRuns
  BY <1>1, ProjectAssumption DEF SubmitExternal, RunTypes, RunId
<1> QED
  BY <1>1, <1>2, LaunchKeeps DEF SubmitExternal

\* A task of an earlier run is adopted.
LEMMA ReconcileAdoptsKeeps == ASSUME RunInv, ReconcileAdopts PROVE Retains /\ RunInv'
<1> USE DEF ReconcileAdopts
<1>1. Current \in Case /\ RunTypes /\ pc # "idle" /\ pc' = "parallel"
  BY CurrentFacts, ParallelFacts DEF CanLaunch
<1>2. PriorTask(Current) \in 0..MaxRuns /\ PriorTask(Current) \in RunId
  BY <1>1, PriorTaskFacts
<1> DEFINE h == IF PriorLeased(Current) THEN PriorTask(Current) ELSE 0
<1>3. h \in 0..MaxRuns
  BY <1>2, ProjectAssumption
<1>4. Launched(h, PriorTask(Current))
  OBVIOUS
<1>5. leases' \subseteq RunId \X Case
  BY <1>1 DEF RunTypes
<1> HIDE DEF h
<1> QED
  BY <1>1, <1>2, <1>3, <1>4, <1>5, LaunchKeeps

\* The manifest learns of a submitted task.
LEMMA RecordSubmittedKeeps == ASSUME RunInv, RecordSubmitted PROVE Retains /\ RunInv'
<1> USE DEF RecordSubmitted
<1>1. /\ at <= Len(plan) /\ pc # "idle" /\ RunTypes /\ WorkRight /\ BaseInv
      /\ runs \in RunId /\ Manifest \in ManifestType /\ Stage.policy = "external"
  BY ParallelFacts DEF WorkRight
<1>2. PICK c \in running : Write(RecordExternalTask(Manifest, c, runs))
  OBVIOUS
<1>3. c \in Case /\ results[c].status = "none" /\ runs \in 0..MaxRuns
  BY <1>1, RunningFacts, ProjectAssumption DEF RunId
<1>4. Stage' = Stage /\ StageCases' = StageCases
  BY SameStage
<1>5. Retains
  <2>1. ResultsGrow /\ RecordsFollow /\ RegistryFollows /\ NamesFollow
    BY <1>1, <1>2, <1>3, LinkRetains DEF Write
  <2> QED
    BY <1>1, <2>1 DEF Retains, Onward, InStage
<1>6. Resumed' = Resumed
  BY <1>1, <1>5, RetainsBase
<1>7. RunTypes'
  <2>1. RecordExternalTask(Manifest, c, runs) \in ManifestType
    BY <1>1, <1>3, SubmitFacts
  <2>2. manifests' \in [RunId -> ManifestType]
    BY <1>1, <1>2, <2>1, ManifestWritten DEF Write
  <2> QED
    BY <1>1, <2>2 DEF RunTypes
<1>8. WorkRight'
  BY <1>1, <1>4, <1>6 DEF WorkRight
<1>9. WavesRight'
  BY <1>1, WavesElsewhere
<1> QED
  BY <1>5, <1>7, <1>8, <1>9, RetainsAll

\* A Case of the stage gets its result, and is neither prepared nor running any more.
LEMMA WorkRecords ==
    ASSUME RunInv, pc = "parallel", pc' = "parallel", NEW c \in Case, NEW res, MayGet(c, res),
           c \in wave, Stage.policy = "dag" => res.status # "resumed", NEW m \in ManifestType,
           m.status = Manifest.status, m.registry = Manifest.registry,
           \A d \in Case \ {c} : m.cases[d] = Manifest.cases[d],
           results' = [results EXCEPT ![c] = res],
           manifests' = IF Stage.policy = "dag" THEN manifests
                        ELSE [manifests EXCEPT ![runs] = RecordCase(m, c, res)],
           prepared' = prepared \ {c}, running' = running \ {c}, leases' \subseteq leases,
           holds' \in [Case -> 0..MaxRuns],
           UNCHANGED <<plan, runs, prior, at, registry, wave, awaits>>
    PROVE  Retains /\ RunInv'
<1>1. /\ at <= Len(plan) /\ Stage.policy \in {"parallel", "external", "dag"}
      /\ pc # "idle" /\ RunTypes /\ WorkRight /\ BaseInv
      /\ runs \in RunId /\ Manifest \in ManifestType
      /\ prepared \cup running \subseteq wave /\ wave \subseteq StageCases
      /\ StageCases \subseteq Case
  BY ParallelFacts
<1>2. ResultsGrow /\ results'[c] = res /\ results' \in [Case -> ResultType]
  BY <1>1, OneGrows
<1>3. Stage' = Stage /\ StageCases' = StageCases
  BY SameStage
<1>4. \A d \in Case \ {c} : results'[d] = results[d]
  BY <1>1 DEF RunTypes
<1>5. RecordsFollow /\ RegistryFollows /\ NamesFollow
  <2>1. CASE Stage.policy # "dag"
    <3>1. manifests' = [manifests EXCEPT ![runs] = RecordCase(m, c, res)]
      BY <2>1
    <3> QED
      BY <2>1, <3>1, <1>1, OneRetains
  <2>2. CASE Stage.policy = "dag"
    <3>1. \A d \in Case : InWave(d)' = InWave(d)
      BY <1>3 DEF InWave
    <3>2. \A d \in Case : InWave(d)' \/ (results'[d] = results[d] /\ ~InWave(d))
      BY <2>2, <3>1, <1>4 DEF InWave
    <3> QED
      BY <2>2, <3>2, <1>1, <1>2, WaveRetains
  <2> QED
    BY <2>1, <2>2
<1>6. Retains
  BY <1>1, <1>2, <1>5 DEF Retains, Onward, InStage
<1>7. Resumed' = Resumed
  BY <1>1, <1>6, RetainsBase
<1>8. RunTypes'
  <2>1. RecordCase(m, c, res) \in ManifestType
    BY RecordFacts DEF MayGet
  <2>2. manifests' \in [RunId -> ManifestType]
    BY <1>1, <2>1, ManifestWritten DEF RunTypes
  <2> QED
    BY <1>1, <1>2, <2>2 DEF RunTypes
<1>9. WorkRight'
  <2>1. \A d \in prepared' \cup running' : results'[d].status = "none"
    BY <1>1, <1>4 DEF WorkRight
  <2> QED
    BY <1>1, <1>3, <1>7, <2>1 DEF WorkRight
<1>10. WavesRight'
  <2>1. CASE Stage.policy # "dag"
    BY <2>1, WavesElsewhere
  <2>2. CASE Stage.policy = "dag"
    <3>1. res.status \in {"succeeded", "failed", "skipped"}
      BY <2>2 DEF MayGet, ResultType, Outcome
    <3>2. \A d \in Case : results'[d] # results[d] =>
              d \in wave /\ results'[d].status \in {"succeeded", "failed", "skipped"}
      BY <3>1, <1>2, <1>4
    <3> QED
      BY <2>2, <3>2, <1>7, WaveGoesOn
  <2> QED
    BY <2>1, <2>2
<1> QED
  BY <1>6, <1>8, <1>9, <1>10, RetainsAll

\* The allocator refuses a lease while nothing is running.
LEMMA LaunchRefusedKeeps == ASSUME RunInv, LaunchRefused PROVE Retains /\ RunInv'
<1> USE DEF LaunchRefused, CanLaunch
<1> DEFINE res == Result("failed", None)
<1>1. /\ Current \in prepared /\ Current \in Case /\ Current \in StageCases /\ Current \in wave
      /\ results[Current].status = "none" /\ Current \notin Resumed /\ Current \notin running
  BY CurrentFacts
<1>2. RunTypes /\ Manifest \in ManifestType
  BY ParallelFacts
<1>3. MayGet(Current, res) /\ res.status # "resumed"
  BY <1>1 DEF MayGet, Result, ResultType, Outcome, Ref, Credited, Ok
<1>4. manifests' = IF Stage.policy = "dag" THEN manifests
                   ELSE [manifests EXCEPT ![runs] = RecordCase(Manifest, Current, res)]
  BY DEF Write
<1>5. running' = running \ {Current} /\ holds' \in [Case -> 0..MaxRuns] /\ leases' \subseteq leases
  BY <1>1, <1>2 DEF RunTypes
<1>6. results' = [results EXCEPT ![Current] = res]
  OBVIOUS
<1> HIDE DEF res
<1> QED
  BY <1>1, <1>2, <1>3, <1>4, <1>5, <1>6, WorkRecords

\* An item is collected, with a success or a failure.
LEMMA CollectedKeeps ==
    ASSUME RunInv, pc = "parallel", NEW c \in running, NEW res, NEW m \in ManifestType,
           m.status = Manifest.status, m.registry = Manifest.registry,
           \A d \in Case \ {c} : m.cases[d] = Manifest.cases[d],
           Stage.policy = "dag" => m = Manifest /\ res.status # "resumed",
           res \in ResultType, Credited(c, res), res.status # "none",
           Collected(c, res, m)
    PROVE  Retains /\ RunInv'
<1> USE DEF Collected
<1>1. /\ c \in Case /\ c \in StageCases /\ c \in wave /\ c \notin Resumed
      /\ results[c].status = "none" /\ c \notin prepared
  BY RunningFacts
<1>2. RunTypes /\ runs \in RunId
  BY ParallelFacts
<1>3. MayGet(c, res)
  BY <1>1 DEF MayGet
<1>4. manifests' = IF Stage.policy = "dag" THEN manifests
                   ELSE [manifests EXCEPT ![runs] = RecordCase(m, c, res)]
  <2>1. [manifests EXCEPT ![runs] = Manifest] = manifests
    BY <1>2 DEF RunTypes, Manifest
  <2> QED
    BY <2>1 DEF Write
<1>5. prepared' = prepared \ {c} /\ holds' \in [Case -> 0..MaxRuns] /\ leases' \subseteq leases
  BY <1>1, <1>2, ProjectAssumption DEF RunTypes
<1> QED
  BY <1>1, <1>3, <1>4, <1>5, WorkRecords

\* A worker process returns.
LEMMA CollectProcessKeeps ==
    ASSUME RunInv, NEW c \in running, CollectProcess(c) PROVE Retains /\ RunInv'
<1> USE DEF CollectProcess
<1>1. PICK res \in {Result("succeeded", <<runs, c>>), Result("failed", None)} :
          Collected(c, res, Manifest)
  OBVIOUS
<1>2. runs \in RunId /\ Manifest \in ManifestType /\ c \in Case
  BY ParallelFacts, RunningFacts
<1>3. /\ res \in ResultType /\ Credited(c, res) /\ res.status # "none" /\ res.status # "resumed"
  BY <1>2 DEF Result, ResultType, Outcome, Ref, Credited, Ok
<1> QED
  BY <1>1, <1>2, <1>3, CollectedKeeps

\* The broker answers.
LEMMA CollectExternalKeeps ==
    ASSUME RunInv, NEW c \in running, CollectExternal(c) PROVE Retains /\ RunInv'
<1> USE DEF CollectExternal
<1>1. PICK res \in {Result("succeeded", <<awaits[c], c>>), Result("resumed", <<awaits[c], c>>),
                    Result("failed", None)} :
          Collected(c, res, RecordExternalTask(Manifest, c, awaits[c]))
  OBVIOUS
<1>2. Manifest \in ManifestType /\ c \in Case /\ awaits[c] \in RunId /\ Stage.policy # "dag"
  BY ParallelFacts, RunningFacts DEF External
<1>3. res \in ResultType /\ Credited(c, res) /\ res.status # "none"
  BY <1>2 DEF Result, ResultType, Outcome, Ref, Credited, Ok
<1> DEFINE m == RecordExternalTask(Manifest, c, awaits[c])
<1>4. awaits[c] \in 0..MaxRuns
  BY <1>2, ProjectAssumption DEF RunId
<1>5. /\ m \in ManifestType /\ m.status = Manifest.status /\ m.registry = Manifest.registry
      /\ \A d \in Case \ {c} : m.cases[d] = Manifest.cases[d]
  BY <1>2, <1>4, SubmitFacts
<1> HIDE DEF m
<1>6. Collected(c, res, m)
  BY <1>1 DEF m
<1> QED
  BY <1>2, <1>3, <1>5, <1>6, CollectedKeeps

-----------------------------------------------------------------------------
(* Cases that are failed or skipped together.                              *)

\* A success that is recorded stays recorded.
LEMMA SuccessStays ==
    ASSUME BaseInv, Retains, NEW c \in Case, Manifest.cases[c].status \in Ok
    PROVE  /\ results'[c] = results[c]
           /\ manifests'[runs].cases[c].status = Manifest.cases[c].status
           /\ manifests'[runs].cases[c].ref = Manifest.cases[c].ref
<1>1. /\ results[c].status = Manifest.cases[c].status /\ results[c].ref = Manifest.cases[c].ref
  BY DEF BaseInv, RecordsHeld, Retains, Onward
<1>2. results[c].status # "none"
  BY <1>1 DEF Ok
<1>3. results'[c] = results[c] /\ ~RecordSubmits(c)
  BY <1>2 DEF Retains, ResultsGrow, RecordSubmits
<1>4. RecordKept(c) \/ RecordMatches(c)
  BY <1>3 DEF Retains, RecordsFollow
<1> QED
  BY <1>1, <1>3, <1>4 DEF RecordKept, RecordMatches

\* Some Cases of C, which have no result yet, are failed or skipped.
Withheld(C) ==
    /\ results' \in [Case -> ResultType]
    /\ \A c \in Case : results'[c] # results[c] =>
          /\ c \in C
          /\ results'[c].status \in {"failed", "skipped"} /\ results'[c].ref = None

\* What is withheld is retained, in the manifest or in the wave.
LEMMA WithheldRetains ==
    ASSUME RunInv, at <= Len(plan), NEW C, C \subseteq StageCases \ Resumed,
           \A c \in C : results[c].status = "none", Withheld(C), Onward, registry' = registry,
           NEW D, D \subseteq C,
           \/ /\ manifests' = manifests
              /\ \A c \in Case : InWave(c)' \/ (results'[c] = results[c] /\ ~InWave(c))
           \/ /\ Write(RecordAll(Manifest, D, DeclaredOrder, results'))
              /\ \A c \in Case \ D : results'[c] = results[c] /\ ~InWave(c)
    PROVE  Retains /\ manifests' \in [RunId -> ManifestType] /\ Resumed' = Resumed
<1>1. /\ BaseInv /\ pc # "idle" /\ RunTypes /\ runs \in RunId /\ Manifest \in ManifestType
      /\ StageCases \subseteq Case
  BY InvBase, HereFacts, StageHere DEF Onward, RunInv
<1>2. ResultsGrow
  <2>1. ASSUME NEW c \in Case PROVE Credited(c, results'[c])
    <3>1. Credited(c, results[c])
      BY <1>1 DEF BaseInv, CreditsRight
    <3> QED
      BY <3>1 DEF Withheld, Credited, Ok
  <2> QED
    BY <2>1 DEF ResultsGrow, Withheld
<1> DEFINE refs == [c \in Case |-> None]
<1>3. refs \in [Case -> Ref] /\ \A c \in D : refs[c] = None
  BY <1>1 DEF Ref
<1> HIDE DEF refs
<1>4. CASE /\ manifests' = manifests
           /\ \A c \in Case : InWave(c)' \/ (results'[c] = results[c] /\ ~InWave(c))
  <2>1. RecordsFollow /\ RegistryFollows /\ NamesFollow
    BY <1>1, <1>2, <1>4, WaveRetains
  <2>2. Retains
    BY <1>2, <2>1 DEF Retains
  <2> QED
    BY <1>1, <1>4, <2>2, RetainsBase DEF RunTypes
<1>5. CASE /\ Write(RecordAll(Manifest, D, DeclaredOrder, results'))
           /\ \A c \in Case \ D : results'[c] = results[c] /\ ~InWave(c)
  <2>1. /\ manifests' = [manifests EXCEPT ![runs] = RecordAll(Manifest, D, DeclaredOrder, results')]
        /\ D \subseteq StageCases /\ DeclaredOrder \in {DeclaredOrder, LaunchOrder}
        /\ results' \in [Case -> ResultType]
    BY <1>5 DEF Write, Withheld
  <2>2. RecordsFollow /\ RegistryFollows /\ NamesFollow
    BY <1>1, <1>2, <1>3, <1>5, <2>1, ManyRetain
  <2>3. Retains
    BY <1>2, <2>2 DEF Retains
  <2>4. RecordAll(Manifest, D, DeclaredOrder, results') \in ManifestType
    <3> DEFINE res == results'
    <3>1. res \in [Case -> ResultType]
      BY <2>1
    <3> HIDE DEF res
    <3>2. RecordAll(Manifest, D, DeclaredOrder, res) \in ManifestType
      BY <1>1, <2>1, <3>1, RecordAllFacts
    <3> QED
      BY <3>2 DEF res
  <2> QED
    BY <1>1, <2>1, <2>3, <2>4, ManifestWritten, RetainsBase
<1> QED
  BY <1>4, <1>5

\* fail_fast skips what it kept from starting.
LEMMA SkipLeftoversKeeps == ASSUME RunInv, SkipLeftovers PROVE Retains /\ RunInv'
<1> USE DEF SkipLeftovers
<1>1. /\ at <= Len(plan) /\ Stage.policy \in {"parallel", "external", "dag"}
      /\ pc # "idle" /\ RunTypes /\ WorkRight
      /\ prepared \subseteq wave /\ wave \subseteq StageCases \ Resumed
      /\ StageCases \subseteq Case
  BY ParallelFacts DEF WorkRight
<1>2. /\ results' = [c \in Case |-> IF c \in prepared THEN Result("skipped", None) ELSE results[c]]
      /\ pc' = "parallel"
  OBVIOUS
<1>3. /\ prepared \subseteq StageCases \ Resumed /\ \A c \in prepared : results[c].status = "none"
  BY <1>1 DEF WorkRight
<1>4. Withheld(prepared)
  <2>1. Result("skipped", None) \in ResultType
    BY DEF Result, ResultType, Outcome, Ref
  <2>2. results \in [Case -> ResultType]
    BY <1>1 DEF RunTypes
  <2>3. results' \in [Case -> ResultType]
    BY <1>2, <2>1, <2>2
  <2> QED
    BY <1>2, <2>3 DEF Withheld, Result
<1>5. Onward
  BY <1>1 DEF Onward, InStage
<1>6. Stage' = Stage /\ StageCases' = StageCases
  BY SameStage
<1>7. \/ /\ manifests' = manifests
         /\ \A c \in Case : InWave(c)' \/ (results'[c] = results[c] /\ ~InWave(c))
      \/ /\ Write(RecordAll(Manifest, prepared, DeclaredOrder, results'))
         /\ \A c \in Case \ prepared : results'[c] = results[c] /\ ~InWave(c)
  <2>1. CASE Stage.policy = "dag"
    BY <2>1, <1>1, <1>2, <1>6 DEF InWave
  <2>2. CASE Stage.policy # "dag"
    BY <2>2, <1>2 DEF InWave
  <2> QED
    BY <2>1, <2>2
<1>8. Retains /\ manifests' \in [RunId -> ManifestType] /\ Resumed' = Resumed
  <2> DEFINE C == prepared
  <2>1. /\ C \subseteq StageCases \ Resumed /\ \A c \in C : results[c].status = "none"
        /\ Withheld(C) /\ C \subseteq C
    BY <1>3, <1>4
  <2>2. \/ /\ manifests' = manifests
           /\ \A c \in Case : InWave(c)' \/ (results'[c] = results[c] /\ ~InWave(c))
        \/ /\ Write(RecordAll(Manifest, C, DeclaredOrder, results'))
           /\ \A c \in Case \ C : results'[c] = results[c] /\ ~InWave(c)
    BY <1>7
  <2> HIDE DEF C
  <2> QED
    BY <1>1, <1>5, <2>1, <2>2, WithheldRetains
<1>9. RunTypes'
  BY <1>1, <1>4, <1>8 DEF RunTypes, Withheld
<1>10. WorkRight'
  BY <1>1, <1>6, <1>8 DEF WorkRight
<1>11. WavesRight'
  <2>1. CASE Stage.policy # "dag"
    BY <2>1, WavesElsewhere
  <2>2. CASE Stage.policy = "dag"
    <3>1. \A c \in Case : results'[c] # results[c] =>
              c \in wave /\ results'[c].status \in {"succeeded", "failed", "skipped"}
      BY <1>1, <1>4 DEF Withheld
    <3> QED
      BY <2>2, <3>1, <1>8, WaveGoesOn
  <2> QED
    BY <2>1, <2>2
<1> QED
  BY <1>8, <1>9, <1>10, <1>11, RetainsAll

-----------------------------------------------------------------------------
(* The preparation of a wave.                                              *)

\* _execute_parallel_stage prepares the Cases of a stage or of a wave.
LEMMA PrepareKeeps ==
    ASSUME RunInv, at <= Len(plan), NEW C, C \subseteq StageCases \ Resumed,
           \A c \in C : results[c].status = "none", running = {}, Prepare(C),
           \/ pc = "stage" /\ Stage.policy \in {"parallel", "external"}
           \/ /\ pc = "dag" /\ Stage.policy = "dag"
              /\ \A c \in C : \A d \in Dependencies(Stage)[c] :
                    d \in Resumed \/ results[d].status \in Ok
    PROVE  Retains /\ RunInv'
<1>1. /\ RunTypes /\ BaseInv /\ pc # "idle" /\ StageCases \subseteq Case /\ at \in 1..Len(plan)
      /\ Stage.policy \in {"parallel", "external", "dag"}
  BY InvBase, StageHere DEF RunInv
<1> DEFINE bad == {c \in C : ~Preparable(c, registry)}
           late == {c \in C : Stage.failFast /\ \E b \in bad : <<b, c>> \in LaunchOrder}
           done == [c \in Case |-> IF c \in late THEN Result("skipped", None)
                                  ELSE IF c \in bad THEN Result("failed", None) ELSE results[c]]
           D == {c \in C : done[c].status # "none"}
<1>2. /\ results' = done /\ prepared' = C \ (bad \cup late) /\ wave' = C /\ pc' = "parallel"
      /\ IF Stage.policy = "dag" THEN UNCHANGED manifests
         ELSE Write(RecordAll(Manifest, D, DeclaredOrder, done))
      /\ UNCHANGED <<plan, runs, prior, at, registry, running, holds, awaits, leases, tasks>>
  BY DEF Prepare
<1>3. bad \subseteq C /\ late \subseteq C
  OBVIOUS
<1>4. \A c \in Case : /\ c \in late => done[c] = Result("skipped", None)
                      /\ c \in bad \ late => done[c] = Result("failed", None)
                      /\ c \notin bad \cup late => done[c] = results[c]
  OBVIOUS
<1>5. done \in [Case -> ResultType]
  <2>1. Result("skipped", None) \in ResultType /\ Result("failed", None) \in ResultType
    BY DEF Result, ResultType, Outcome, Ref
  <2>2. results \in [Case -> ResultType]
    BY <1>1 DEF RunTypes
  <2> QED
    BY <2>1, <2>2
<1>6. D \subseteq C /\ \A c \in C : c \in D <=> done[c].status # "none"
  OBVIOUS
<1> HIDE DEF bad, late, done, D
<1>7. Withheld(C)
  BY <1>2, <1>3, <1>4, <1>5 DEF Withheld, Result
<1>8. Onward
  BY <1>1, <1>2 DEF Onward, InStage
<1>9. Stage' = Stage /\ StageCases' = StageCases /\ Dependencies(Stage)' = Dependencies(Stage)
  BY <1>2, SameStage
<1>10. \A c \in Case : ~InWave(c)
  BY DEF InWave
<1>11. \/ /\ manifests' = manifests
          /\ \A c \in Case : InWave(c)' \/ (results'[c] = results[c] /\ ~InWave(c))
       \/ /\ Write(RecordAll(Manifest, D, DeclaredOrder, results'))
          /\ \A c \in Case \ D : results'[c] = results[c] /\ ~InWave(c)
  <2>1. CASE Stage.policy = "dag"
    BY <2>1, <1>2, <1>7, <1>9, <1>10 DEF InWave, Withheld
  <2>2. CASE Stage.policy # "dag"
    <3>1. \A c \in Case \ D : results'[c] = results[c]
      <4> TAKE c \in Case \ D
      <4>1. CASE c \in C
        BY <4>1, <1>6, <1>7, <1>2 DEF Withheld
      <4>2. CASE c \notin C
        BY <4>2, <1>7 DEF Withheld
      <4> QED
        BY <4>1, <4>2
    <3> QED
      BY <2>2, <3>1, <1>2, <1>10
  <2> QED
    BY <2>1, <2>2
<1>12. Retains /\ manifests' \in [RunId -> ManifestType] /\ Resumed' = Resumed
  BY <1>2, <1>6, <1>7, <1>8, <1>11, WithheldRetains
<1>13. RunTypes'
  BY <1>1, <1>2, <1>3, <1>7, <1>12 DEF RunTypes, Withheld
<1>14. WorkRight'
  <2>1. \A c \in prepared' : results'[c].status = "none"
    BY <1>1, <1>2, <1>3, <1>4
  <2> QED
    BY <1>1, <1>2, <1>3, <1>9, <1>12, <2>1 DEF WorkRight
<1>15. WavesRight'
  <2>1. CASE Stage.policy # "dag"
    BY <2>1, <1>2, WavesElsewhere
  <2>2. CASE pc = "dag" /\ Stage.policy = "dag"
    <3>1. \A d \in StageCases \ Resumed : results[d].status \in Ok =>
             results[d].status = "succeeded" /\ Manifest.cases[d].status = "succeeded"
      BY <2>2, <1>10, <1>1 DEF RunInv, WavesRight
    <3>2. ASSUME NEW d \in StageCases \ Resumed, results[d].status \in Ok
          PROVE  manifests'[runs].cases[d].status = "succeeded" /\ results'[d].status = "succeeded"
      <4>1. d \in Case /\ Manifest.cases[d].status = "succeeded" /\ results[d].status = "succeeded"
        BY <3>1, <3>2, <1>1
      <4> QED
        BY <4>1, <1>1, <1>12, SuccessStays DEF Ok
    <3>3. \A d \in Case : results'[d].status \in Ok => results'[d] = results[d]
      BY <1>7 DEF Withheld, Ok
    <3>4. ASSUME NEW c \in C, NEW d \in Dependencies(Stage)[c]
          PROVE  d \in Resumed \/ manifests'[runs].cases[d].status = "succeeded"
      <4>1. d \in StageCases
        BY <2>2, <1>1, LayersExist DEF StageCases, Stage
      <4>2. d \in Resumed \/ results[d].status \in Ok
        BY <2>2
      <4> QED
        BY <4>1, <4>2, <3>2
    <3> QED
      BY <1>1, <1>2, <1>9, <1>12, <3>2, <3>3, <3>4 DEF WavesRight, Manifest
  <2> QED
    BY <2>1, <2>2
<1> QED
  BY <1>12, <1>13, <1>14, <1>15, RetainsAll

\* A stage begins.
LEMMA EnterStageKeeps == ASSUME RunInv, EnterStage PROVE Retains /\ RunInv'
<1> USE DEF EnterStage
<1>1. /\ RunTypes /\ BaseInv /\ WorkRight /\ pc # "idle" /\ StageCases \subseteq Case
      /\ at \in 1..Len(plan) /\ prepared = {} /\ running = {}
  BY InvBase, StageHere DEF RunInv, WorkRight
<1>2. \A c \in StageCases : results[c].status = "none"
  BY <1>1 DEF BaseInv, StagesAhead, StageCases, Stage
<1>3. CASE Stage.policy \in {"parallel", "external"}
  <2>1. Prepare(StageCases \ Resumed)
    BY <1>3
  <2> DEFINE C == StageCases \ Resumed
  <2>2. C \subseteq StageCases \ Resumed /\ (\A c \in C : results[c].status = "none") /\ Prepare(C)
    BY <1>2, <2>1
  <2> HIDE DEF C
  <2> QED
    BY <1>1, <1>3, <2>2, PrepareKeeps
<1>4. CASE Stage.policy \in {"serial", "dag"}
  <2>1. /\ UNCHANGED <<plan, runs, prior, manifests, leases, at, results, registry,
                       wave, running, holds, awaits>>
        /\ \/ Stage.policy = "serial" /\ pc' = "serial" /\ prepared' = StageCases
           \/ Stage.policy = "dag" /\ pc' = "dag" /\ prepared' = prepared
    BY <1>4
  <2>2. Stage' = Stage /\ StageCases' = StageCases /\ Dependencies(Stage)' = Dependencies(Stage)
    BY <2>1, SameStage
  <2>3. \A c \in Case : ~InWave(c)
    BY DEF InWave
  <2>4. ResultsGrow /\ RecordsFollow /\ RegistryFollows /\ NamesFollow
    BY <1>1, <2>1, <2>3, QuietRetains
  <2>5. Onward
    BY <1>1, <2>1 DEF Onward, InStage
  <2>6. Retains /\ Resumed' = Resumed
    BY <1>1, <2>4, <2>5, RetainsBase DEF Retains
  <2>7. RunTypes'
    BY <1>1, <2>1 DEF RunTypes
  <2>8. WorkRight'
    BY <1>1, <1>2, <2>1, <2>2, <2>6 DEF WorkRight
  <2>9. WavesRight'
    BY <1>2, <2>1, <2>2, <2>6 DEF WavesRight, Ok
  <2> QED
    BY <2>6, <2>7, <2>8, <2>9, RetainsAll
<1> QED
  BY <1>3, <1>4

-----------------------------------------------------------------------------
(* The end of a stage and of a wave.                                       *)

\* A stage that is not serial ends: all its results are recorded once more.
LEMMA EndStageKeeps ==
    ASSUME RunInv, at <= Len(plan), prepared = {}, running = {}, EndStage,
           pc = "dag" \/ (pc = "parallel" /\ Stage.policy # "dag")
    PROVE  Retains /\ RunInv'
<1> USE DEF EndStage, GoOn
<1>1. /\ BaseInv /\ RunTypes /\ pc # "idle" /\ runs \in RunId /\ Manifest \in ManifestType
      /\ StageCases \subseteq Case /\ results \in [Case -> ResultType] /\ registry \in [Key -> Ref]
      /\ at \in 1..Len(plan)
  BY InvBase, HereFacts, StageHere DEF RunInv
<1>2. \A c \in Case : Credited(c, results[c])
  BY <1>1 DEF BaseInv, CreditsRight
<1>3. \A c \in Resumed : c \in Case =>
         /\ manifests[prior[runs]].cases[c].ref \in RunId \X {c}
         /\ manifests[prior[runs]].cases[c].ref \in Ref
  BY <1>1, ResumedCredited DEF Ref
<1>4. ASSUME NEW c \in Case
      PROVE  /\ results'[c] \in ResultType /\ Credited(c, results'[c])
             /\ results'[c] # results[c] =>
                   /\ results[c].status = "none" /\ c \in StageCases /\ c \in Resumed
                   /\ results'[c].status = "resumed"
                   /\ results'[c].ref = manifests[prior[runs]].cases[c].ref
  <2>1. CASE c \in StageCases \cap Resumed /\ results[c].status = "none"
    <3>1. results'[c] = Result("resumed", manifests[prior[runs]].cases[c].ref)
      BY <2>1 DEF WithResumed
    <3> QED
      BY <2>1, <3>1, <1>3 DEF Result, ResultType, Outcome, Credited, Ok
  <2>2. CASE ~(c \in StageCases \cap Resumed /\ results[c].status = "none")
    <3>1. results'[c] = results[c]
      BY <2>2 DEF WithResumed
    <3> QED
      BY <3>1, <1>1, <1>2
  <2> QED
    BY <2>1, <2>2
<1>5. results' \in [Case -> ResultType] /\ ResultsGrow
  <2>1. results' = [c \in Case |-> results'[c]]
    BY DEF WithResumed
  <2>2. results' \in [Case -> ResultType]
    BY <2>1, <1>4
  <2> QED
    BY <2>2, <1>4 DEF ResultsGrow
<1> DEFINE refs == [c \in Case |-> results[c].ref]
<1>6. /\ refs \in [Case -> Ref]
      /\ \A c \in StageCases : refs[c] # None =>
             results'[c].status \in Ok /\ results'[c].ref = refs[c]
  <2>1. refs \in [Case -> Ref]
    BY <1>1 DEF ResultType
  <2>2. ASSUME NEW c \in StageCases, refs[c] # None
        PROVE  results'[c].status \in Ok /\ results'[c].ref = refs[c]
    <3>1. c \in Case /\ results[c].ref # None /\ refs[c] = results[c].ref
      BY <1>1, <2>2
    <3>2. results[c].status \in Ok
      BY <3>1, <1>2 DEF Credited
    <3>3. results'[c] = results[c]
      BY <3>1, <3>2, <1>4 DEF Ok
    <3> QED
      BY <3>1, <3>2, <3>3
  <2> QED
    BY <2>1, <2>2
<1>7. /\ registry' = RegisterAll(registry, StageCases, DeclaredOrder, refs)
      /\ manifests' = [manifests EXCEPT
             ![runs] = RecordAll(Manifest, StageCases, DeclaredOrder, results')]
  BY DEF Write
<1> HIDE DEF refs
<1>8. \A c \in Case \ StageCases : results'[c] = results[c] /\ ~InWave(c)
  BY <1>4 DEF InWave
<1>9. RecordsFollow /\ RegistryFollows /\ NamesFollow
  BY <1>1, <1>5, <1>6, <1>7, <1>8, ManyRetain
<1>10. Onward
  BY <1>1 DEF Onward, InStage
<1>11. Retains
  BY <1>5, <1>9, <1>10 DEF Retains
<1>12. RunTypes'
  <2>1. RecordAll(Manifest, StageCases, DeclaredOrder, results') \in ManifestType
    <3> DEFINE res == results'
    <3>1. res \in [Case -> ResultType]
      BY <1>5
    <3> HIDE DEF res
    <3>2. RecordAll(Manifest, StageCases, DeclaredOrder, res) \in ManifestType
      BY <1>1, <3>1, RecordAllFacts
    <3> QED
      BY <3>2 DEF res
  <2>2. manifests' \in [RunId -> ManifestType]
    BY <1>1, <1>7, <2>1, ManifestWritten
  <2>3. registry' \in [Key -> Ref]
    <3>1. DeclaredOrder \in {DeclaredOrder, LaunchOrder}
      OBVIOUS
    <3>2. RegisterAll(registry, StageCases, DeclaredOrder, refs) \in [Key -> Ref]
      BY <1>1, <1>6, <3>1, RegisterAllFacts
    <3> QED
      BY <3>2, <1>7
  <2>4. at' \in 1..(Len(plan) + 1)
    <3>1. Len(plan) \in Nat
      BY <1>1, StageFacts
    <3> QED
      BY <3>1, <1>1
  <2> QED
    BY <1>1, <1>5, <2>2, <2>3, <2>4 DEF RunTypes
<1>13. WorkRight'
  BY DEF WorkRight
<1>14. WavesRight'
  BY DEF WavesRight
<1> QED
  BY <1>11, <1>12, <1>13, <1>14, RetainsAll

\* A parallel or external stage ends.
LEMMA EndParallelKeeps == ASSUME RunInv, EndParallel PROVE Retains /\ RunInv'
<1>1. at <= Len(plan)
  BY ParallelFacts DEF EndParallel, WaveDone
<1> QED
  BY <1>1, EndStageKeeps DEF EndParallel, WaveDone

\* A wave ends: its results reach the manifest.
LEMMA EndWaveKeeps == ASSUME RunInv, EndWave PROVE Retains /\ RunInv'
<1>0. /\ pc = "parallel" /\ prepared = {} /\ running = {} /\ Stage.policy = "dag"
      /\ pc' = "dag" /\ wave' = {}
      /\ UNCHANGED <<plan, runs, prior, leases, tasks, at, results, prepared, running, stopping,
                     exitCode, holds, awaits>>
  BY DEF EndWave, WaveDone
<1>1. /\ at <= Len(plan) /\ pc # "idle" /\ RunTypes /\ WorkRight /\ BaseInv
      /\ runs \in RunId /\ Manifest \in ManifestType /\ wave \subseteq StageCases
      /\ StageCases \subseteq Case
  BY <1>0, ParallelFacts
<1>2. results \in [Case -> ResultType] /\ registry \in [Key -> Ref]
  BY <1>1 DEF RunTypes
<1>3. \A c \in Case : Credited(c, results[c])
  BY <1>1 DEF BaseInv, CreditsRight
<1>4. ResultsGrow
  BY <1>0, <1>3 DEF ResultsGrow
<1> DEFINE refs == [c \in Case |-> results[c].ref]
<1>5. /\ refs \in [Case -> Ref]
      /\ \A c \in wave : refs[c] # None =>
             results'[c].status \in Ok /\ results'[c].ref = refs[c]
  <2>1. refs \in [Case -> Ref]
    BY <1>2 DEF ResultType
  <2>2. \A c \in wave : refs[c] = results[c].ref /\ Credited(c, results[c])
    BY <1>1, <1>3
  <2> QED
    BY <1>0, <2>1, <2>2 DEF Credited
<1>6. /\ registry' = RegisterAll(registry, wave, LaunchOrder, refs)
      /\ manifests' = [manifests EXCEPT ![runs] = RecordAll(Manifest, wave, LaunchOrder, results')]
      /\ results' \in [Case -> ResultType]
  BY <1>0, <1>2 DEF Write, EndWave
<1> HIDE DEF refs
<1>7. \A c \in Case \ wave : results'[c] = results[c] /\ ~InWave(c)
  BY <1>0 DEF InWave
<1>8. RecordsFollow /\ RegistryFollows /\ NamesFollow
  <2>0. PICK C, ord : C = wave /\ ord = LaunchOrder
    OBVIOUS
  <2>1. /\ C \subseteq StageCases /\ ord \in {DeclaredOrder, LaunchOrder}
        /\ \A c \in C : refs[c] # None => results'[c].status \in Ok /\ results'[c].ref = refs[c]
        /\ \/ registry' = registry
           \/ registry' = RegisterAll(registry, C, ord, refs)
        /\ manifests' = [manifests EXCEPT ![runs] = RecordAll(Manifest, C, ord, results')]
        /\ \A c \in Case \ C : results'[c] = results[c] /\ ~InWave(c)
    BY <2>0, <1>1, <1>5, <1>6, <1>7
  <2>2. /\ BaseInv /\ pc # "idle" /\ at <= Len(plan) /\ refs \in [Case -> Ref]
        /\ results' \in [Case -> ResultType]
    BY <1>1, <1>5, <1>6
  <2> QED
    BY <2>1, <2>2, <1>4, ManyRetain
<1>9. Onward
  BY <1>0, <1>1 DEF Onward, InStage
<1>10. Retains
  BY <1>4, <1>8, <1>9 DEF Retains
<1>11. Resumed' = Resumed
  BY <1>1, <1>10, RetainsBase
<1>12. Stage' = Stage /\ StageCases' = StageCases
  BY <1>0, SameStage
<1>13. RunTypes'
  <2>1. RecordAll(Manifest, wave, LaunchOrder, results) \in ManifestType
    BY <1>1, <1>2, RecordAllFacts
  <2>2. manifests' \in [RunId -> ManifestType]
    BY <1>0, <1>1, <1>6, <2>1, ManifestWritten
  <2>3. registry' \in [Key -> Ref]
    <3>1. RegisterAll(registry, wave, LaunchOrder, refs) \in [Key -> Ref]
      BY <1>1, <1>2, <1>5, RegisterAllFacts
    <3> QED
      BY <3>1, <1>6
  <2> QED
    BY <1>0, <1>1, <2>2, <2>3 DEF RunTypes
<1>14. WorkRight'
  BY <1>0, <1>1, <1>12 DEF WorkRight
<1>15. WavesRight'
  <2>1. \A d \in StageCases \ Resumed : results[d].status \in Ok =>
           results[d].status = "succeeded" /\ (InWave(d) \/ Manifest.cases[d].status = "succeeded")
    BY <1>0, <1>1 DEF RunInv, WavesRight
  <2>2. ASSUME NEW d \in StageCases \ Resumed, results[d].status \in Ok
        PROVE  manifests'[runs].cases[d].status = "succeeded" /\ results'[d].status = "succeeded"
    <3>1. d \in Case /\ results[d].status = "succeeded"
      BY <1>0, <1>1, <2>1, <2>2
    <3>2. CASE Manifest.cases[d].status = "succeeded"
      BY <3>1, <3>2, <1>1, <1>10, SuccessStays DEF Ok
    <3>3. CASE InWave(d)
      <4>0. ~InWave(d)' /\ ~RecordSubmits(d)
        BY <1>0, <3>1 DEF InWave, RecordSubmits
      <4>1. RecordMatches(d)
        BY <4>0, <3>1, <3>3, <1>10 DEF Retains, RecordsFollow
      <4> QED
        BY <1>0, <3>1, <4>1 DEF RecordMatches
    <3> QED
      BY <2>1, <2>2, <3>2, <3>3
  <2> QED
    BY <1>0, <2>2, <1>11, <1>12 DEF WavesRight, Manifest
<1> QED
  BY <1>10, <1>13, <1>14, <1>15, RetainsAll

-----------------------------------------------------------------------------
(* A DAG stage between its waves.                                          *)

\* What holds between the waves.
LEMMA DagFacts ==
    ASSUME RunInv, pc = "dag"
    PROVE  /\ at <= Len(plan) /\ at \in 1..Len(plan) /\ Stage.policy = "dag"
           /\ prepared = {} /\ running = {} /\ RunTypes /\ BaseInv /\ WorkRight
           /\ StageCases \subseteq Case
           /\ Pending \subseteq StageCases \ Resumed
           /\ \A c \in Pending : results[c].status = "none"
           /\ Blocked \subseteq Pending /\ DagReady \subseteq Pending
<1>1. at <= Len(plan) /\ RunTypes /\ BaseInv /\ WorkRight
  BY InvBase DEF RunInv, StagesAhead, InStage
<1>2. Blocked \subseteq Pending
  BY DEF Blocked
<1> QED
  BY <1>1, <1>2, StageHere DEF WorkRight, Pending, DagReady

\* Cases of a DAG are skipped.
LEMMA DagSkipKeeps ==
    ASSUME RunInv, pc = "dag", NEW C, C \subseteq Pending, DagSkip(C)
    PROVE  Retains /\ RunInv'
<1> USE DEF DagSkip
<1>1. /\ at <= Len(plan) /\ at \in 1..Len(plan) /\ Stage.policy = "dag"
      /\ prepared = {} /\ running = {} /\ RunTypes /\ BaseInv /\ WorkRight
      /\ StageCases \subseteq Case /\ C \subseteq StageCases \ Resumed
      /\ \A c \in C : results[c].status = "none"
  BY DagFacts
<1>2. /\ results' = [c \in Case |-> IF c \in C THEN Result("skipped", None) ELSE results[c]]
      /\ Write(RecordAll(Manifest, C, DeclaredOrder, results'))
  OBVIOUS
<1>3. Withheld(C)
  <2>1. Result("skipped", None) \in ResultType
    BY DEF Result, ResultType, Outcome, Ref
  <2>2. results \in [Case -> ResultType]
    BY <1>1 DEF RunTypes
  <2>3. results' \in [Case -> ResultType]
    BY <1>2, <2>1, <2>2
  <2> QED
    BY <1>2, <2>3 DEF Withheld, Result
<1>4. Onward
  BY <1>1 DEF Onward, InStage
<1>5. Stage' = Stage /\ StageCases' = StageCases
  BY SameStage
<1>6. \A c \in Case \ C : results'[c] = results[c] /\ ~InWave(c)
  BY <1>2 DEF InWave
<1>7. Retains /\ manifests' \in [RunId -> ManifestType] /\ Resumed' = Resumed
  BY <1>1, <1>2, <1>3, <1>4, <1>6, WithheldRetains
<1>8. RunTypes'
  BY <1>1, <1>3, <1>7 DEF RunTypes, Withheld
<1>9. WorkRight'
  BY <1>1, <1>5, <1>7 DEF WorkRight
<1>10. WavesRight'
  <2>1. \A d \in StageCases \ Resumed : results[d].status \in Ok =>
           results[d].status = "succeeded" /\ Manifest.cases[d].status = "succeeded"
    BY <1>1 DEF RunInv, WavesRight, InWave
  <2>2. ASSUME NEW d \in StageCases \ Resumed, results'[d].status \in Ok
        PROVE  manifests'[runs].cases[d].status = "succeeded" /\ results'[d].status = "succeeded"
    <3>1. d \in Case /\ results'[d] = results[d]
      BY <1>1, <1>3, <2>2 DEF Withheld, Ok
    <3>2. Manifest.cases[d].status = "succeeded" /\ results[d].status = "succeeded"
      BY <2>1, <2>2, <3>1
    <3> QED
      BY <3>1, <3>2, <1>1, <1>7, SuccessStays DEF Ok
  <2> QED
    BY <2>2, <1>5, <1>7 DEF WavesRight, Manifest
<1> QED
  BY <1>7, <1>8, <1>9, <1>10, RetainsAll

\* The descendants of what failed are skipped.
LEMMA DagBlockedKeeps == ASSUME RunInv, DagBlocked PROVE Retains /\ RunInv'
<1> DEFINE C == Blocked
<1>1. C \subseteq Pending /\ DagSkip(C) /\ pc = "dag"
  BY DagFacts DEF DagBlocked
<1> HIDE DEF C
<1> QED
  BY <1>1, DagSkipKeeps

\* Under fail_fast everything else is.
LEMMA DagFailFastKeeps == ASSUME RunInv, DagFailFast PROVE Retains /\ RunInv'
<1> DEFINE C == Pending
<1>1. C \subseteq Pending /\ DagSkip(C) /\ pc = "dag"
  BY DEF DagFailFast
<1> HIDE DEF C
<1> QED
  BY <1>1, DagSkipKeeps

\* A wave of the Cases that are ready begins.
LEMMA DagWaveKeeps == ASSUME RunInv, DagWave PROVE Retains /\ RunInv'
<1> DEFINE C == DagReady
<1>1. /\ pc = "dag" /\ Prepare(C) /\ at <= Len(plan) /\ running = {} /\ Stage.policy = "dag"
      /\ C \subseteq StageCases \ Resumed /\ \A c \in C : results[c].status = "none"
  BY DagFacts DEF DagWave
<1>2. \A c \in C : \A d \in Dependencies(Stage)[c] : d \in Resumed \/ results[d].status \in Ok
  BY DEF DagReady
<1> HIDE DEF C
<1> QED
  BY <1>1, <1>2, PrepareKeeps

\* The DAG stage ends.
LEMMA EndDagKeeps == ASSUME RunInv, EndDag PROVE Retains /\ RunInv'
  BY DagFacts, EndStageKeeps DEF EndDag

-----------------------------------------------------------------------------
(* The start and the end of a run.                                         *)

\* The places of the plan: of some of them, one is the first in its order.
LEMMA FirstPlace ==
    ASSUME RunTypes, NEW K, K \subseteq Places, K # {}
    PROVE  \E p \in K : \A q \in K : InPlanOrder(p, q)
<1>1. Len(plan) \in Nat /\ DOMAIN plan = 1..Len(plan)
  BY ProjectAssumption DEF RunTypes
<1>2. ASSUME NEW p \in K
      PROVE  /\ p[1] \in 1..Len(plan)
             /\ p[2] \in 1..Len(plan[p[1]].cases) /\ Len(plan[p[1]].cases) \in Nat
  <2>1. PICK i \in DOMAIN plan : p \in {i} \X DOMAIN plan[i].cases
    BY DEF Places
  <2>2. i \in 1..Len(plan) /\ p[1] = i /\ p[2] \in DOMAIN plan[i].cases
    BY <1>1, <2>1
  <2>3. Len(plan[i].cases) \in Nat /\ DOMAIN plan[i].cases = 1..Len(plan[i].cases)
    BY <2>2, StageFacts
  <2> QED
    BY <2>2, <2>3
<1> DEFINE f == [p \in K |-> p[1]]
<1>3. \A p \in K : f[p] \in 1..Len(plan) /\ f[p] = p[1]
  BY <1>2
<1> HIDE DEF f
<1>4. PICK a \in K : \A q \in K : f[a] <= f[q]
  BY <1>1, <1>3, LeastCase
<1> DEFINE B == {p \in K : p[1] = a[1]}
           g == [p \in B |-> p[2]]
           n == Len(plan[a[1]].cases)
<1>5. B # {} /\ B \subseteq K /\ n \in Nat
  BY <1>2
<1>6. \A p \in B : g[p] \in 1..n /\ g[p] = p[2] /\ p[1] = a[1]
  BY <1>2
<1>7. \A q \in K : q \in B <=> q[1] = a[1]
  OBVIOUS
<1> HIDE DEF g, n, B
<1>8. PICK b \in B : \A q \in B : g[b] <= g[q]
  BY <1>5, <1>6, LeastCase
<1>9. ASSUME NEW q \in K PROVE InPlanOrder(b, q)
  <2>1. b[1] = a[1] /\ b \in K /\ a[1] \in Int /\ q[1] \in Int
    BY <1>2, <1>5, <1>6, <1>1
  <2>2. CASE q[1] = a[1]
    <3>1. q \in B
      BY <1>7, <2>2
    <3>2. b[2] <= q[2]
      BY <3>1, <1>6, <1>8
    <3> QED
      BY <2>1, <2>2, <3>2 DEF InPlanOrder
  <2>3. CASE q[1] # a[1]
    <3>1. a[1] <= q[1]
      BY <1>3, <1>4
    <3>2. b[1] < q[1]
      BY <2>1, <2>3, <3>1
    <3> QED
      BY <3>2 DEF InPlanOrder
  <2> QED
    BY <2>2, <2>3
<1> QED
  BY <1>5, <1>9

\* A rebuilt registry holds what the successes of its manifest have published.
RebuiltFrom(m, reg) ==
    \A k \in Key : reg[k] # None =>
        \E c \in Case : /\ c \in Successful(m) /\ k \in {c, ArtifactOf[c]}
                        /\ reg[k] = manifests[m].cases[c].ref

\* _validated_resume_artifacts rebuilds such a registry.
LEMMA RebuiltFacts ==
    ASSUME RunTypes, NEW m \in RunId
    PROVE  Rebuilt(m) \in [Key -> Ref] /\ RebuiltFrom(m, Rebuilt(m))
<1> DEFINE known(k) == {p \in Places : /\ CaseAt(p) \in Successful(m)
                                       /\ manifests[m].cases[CaseAt(p)].ref # None
                                       /\ k \in {CaseAt(p), ArtifactOf[CaseAt(p)]}}
           first(k) == CHOOSE p \in known(k) : \A q \in known(k) : InPlanOrder(p, q)
           reg == [k \in Key |-> IF known(k) = {} THEN None
                                ELSE manifests[m].cases[CaseAt(first(k))].ref]
<1>1. Rebuilt(m) = reg
  BY DEF Rebuilt
<1>2. m # 0
  BY ProjectAssumption DEF RunId
<1>3. Successful(m) \subseteq Case
  BY <1>2 DEF Successful
<1>4. ASSUME NEW k \in Key
      PROVE  /\ reg[k] \in Ref
             /\ reg[k] # None =>
                  \E c \in Case : /\ c \in Successful(m) /\ k \in {c, ArtifactOf[c]}
                                  /\ reg[k] = manifests[m].cases[c].ref
  <2>1. CASE known(k) = {}
    BY <2>1 DEF Ref
  <2>2. CASE known(k) # {}
    <3>1. first(k) \in known(k)
      <4>1. known(k) \subseteq Places
        OBVIOUS
      <4> HIDE DEF known
      <4> QED
        BY <2>2, <4>1, FirstPlace
    <3>2. reg[k] = manifests[m].cases[CaseAt(first(k))].ref
      BY <2>2
    <3> HIDE DEF first, reg
    <3>3. CaseAt(first(k)) \in Successful(m) /\ k \in {CaseAt(first(k)), ArtifactOf[CaseAt(first(k))]}
      BY <3>1
    <3>4. CaseAt(first(k)) \in Case
      BY <1>3, <3>3
    <3>5. reg[k] \in Ref
      BY <3>2, <3>4 DEF RunTypes, ManifestType, CaseRecord
    <3> QED
      BY <3>2, <3>3, <3>4, <3>5
  <2> QED
    BY <2>1, <2>2
<1> HIDE DEF reg
<1>5. reg = [k \in Key |-> reg[k]]
  BY DEF reg
<1>6. reg \in [Key -> Ref] /\ RebuiltFrom(m, reg)
  BY <1>4, <1>5 DEF RebuiltFrom
<1> QED
  BY <1>1, <1>6

\* The invariant holds at first.
LEMMA InitInv == ASSUME ProjectInit PROVE RunInv
<1> USE DEF ProjectInit
<1>1. Len(plan) \in Nat /\ plan \in Plans /\ PlanAccepted(plan)
  BY ProjectAssumption
<1>2. NoResults \in [Case -> ResultType] /\ \A c \in Case : Credited(c, NoResults[c])
  BY DEF NoResults, ResultType, Outcome, Ref, Credited, Ok
<1>3. EmptyRegistry \in [Key -> Ref]
  BY DEF EmptyRegistry, Ref
<1> DEFINE blank == [cases |-> [c \in Case |-> NoRecord], registry |-> EmptyRegistry, status |-> "absent"]
<1>4. blank \in ManifestType
  <2>1. NoRecord \in CaseRecord
    BY ProjectAssumption DEF NoRecord, CaseRecord, Status, Ref
  <2> QED
    BY <1>3, <2>1 DEF ManifestType
<1>5. \A c \in Case : blank.cases[c] = NoRecord /\ Credited(c, NoRecord)
  BY DEF NoRecord, Credited, Ok
<1>6. \A r \in RunId : manifests[r] = blank /\ prior[r] = 0
  OBVIOUS
<1>7. manifests \in [RunId -> ManifestType]
  BY <1>4
<1>8. RunTypes
  BY <1>1, <1>2, <1>3, <1>7, ProjectAssumption DEF RunTypes
<1>9. RunOrder
  BY <1>6 DEF RunOrder, RunId
<1>10. CreditsRight
  BY <1>2, <1>5, <1>6 DEF CreditsRight
<1>11. RecordsHeld /\ StagesAhead /\ WorkRight /\ WavesRight /\ RegistryBacked
  BY DEF RecordsHeld, StagesAhead, WorkRight, WavesRight, RegistryBacked, InStage
<1> QED
  BY <1>8, <1>9, <1>10, <1>11 DEF RunInv

\* A process that ends, whatever status it leaves in its manifest.
LEMMA GoneKeeps ==
    ASSUME RunInv, ProcessGone, manifests' \in [RunId -> ManifestType],
           \A r \in RunId : manifests'[r].cases = manifests[r].cases,
           \A r \in RunId : r > runs => manifests'[r] = manifests[r], leases' = leases
    PROVE  RunInv'
<1> USE DEF ProcessGone
<1>1. RunTypes /\ Len(plan) \in Nat
  BY ProjectAssumption DEF RunInv, RunTypes
<1>2. NoResults \in [Case -> ResultType] /\ \A c \in Case : Credited(c, NoResults[c])
  BY DEF NoResults, ResultType, Outcome, Ref, Credited, Ok
<1>3. EmptyRegistry \in [Key -> Ref]
  BY DEF EmptyRegistry, Ref
<1>4. RunTypes'
  BY <1>1, <1>2, <1>3, ProjectAssumption DEF RunTypes
<1>5. RunOrder'
  BY DEF RunInv, RunOrder
<1>6. CreditsRight'
  BY <1>2 DEF RunInv, CreditsRight
<1>7. (RecordsHeld /\ StagesAhead /\ WorkRight /\ WavesRight /\ RegistryBacked)'
  BY DEF RecordsHeld, StagesAhead, WorkRight, WavesRight, RegistryBacked, InStage
<1> QED
  BY <1>4, <1>5, <1>6, <1>7 DEF RunInv

\* finish().
LEMMA FinishKeeps == ASSUME RunInv, Finish PROVE RunInv'
<1>1. ProcessGone /\ leases' = leases /\ pc # "idle"
  BY DEF Finish
<1>2. RunTypes /\ runs \in RunId /\ Manifest \in ManifestType
  BY <1>1, InvBase, HereFacts DEF RunInv
<1>3. PICK closed \in BOOLEAN :
          Write([Manifest EXCEPT !.status = IF closed /\ exitCode = 0 THEN "ok" ELSE "failed"])
  BY DEF Finish
<1> DEFINE m == [Manifest EXCEPT !.status = IF closed /\ exitCode = 0 THEN "ok" ELSE "failed"]
<1>4. m \in ManifestType /\ m.cases = Manifest.cases
  BY <1>2 DEF ManifestType
<1> HIDE DEF m
<1>5. manifests' = [manifests EXCEPT ![runs] = m]
  BY <1>3 DEF Write, m
<1>6. manifests' \in [RunId -> ManifestType]
  BY <1>2, <1>4, <1>5, ManifestWritten
<1>7. ASSUME NEW r \in RunId
      PROVE  manifests'[r].cases = manifests[r].cases /\ (r > runs => manifests'[r] = manifests[r])
  BY <1>2, <1>4, <1>5, ProjectAssumption DEF RunTypes, Manifest, RunId
<1> QED
  BY <1>1, <1>6, <1>7, GoneKeeps

\* An error that leaves execute_project, or a crash.
LEMMA DiesKeeps == ASSUME RunInv, ReconcileAborts \/ Crash PROVE RunInv'
<1>1. ProcessGone /\ manifests' = manifests /\ leases' = leases
  BY DEF ReconcileAborts, Crash
<1>2. manifests' \in [RunId -> ManifestType]
  BY <1>1 DEF RunInv, RunTypes
<1> QED
  BY <1>1, <1>2, GoneKeeps

\* The manifests when run n starts on the registry reg.
Started(f, n, reg) == [f EXCEPT ![n].status = "running", ![n].registry = reg]

\* They differ in that run's status and registry.
LEMMA StartedFacts ==
    ASSUME NEW f \in [RunId -> ManifestType], NEW n \in RunId, NEW reg \in [Key -> Ref]
    PROVE  /\ Started(f, n, reg) \in [RunId -> ManifestType]
           /\ \A r \in RunId : Started(f, n, reg)[r].cases = f[r].cases
           /\ \A r \in RunId : r # n => Started(f, n, reg)[r] = f[r]
           /\ Started(f, n, reg)[n].status = "running" /\ Started(f, n, reg)[n].registry = reg
<1> DEFINE x == [f[n] EXCEPT !.status = "running", !.registry = reg]
<1>1. /\ x \in ManifestType /\ x.cases = f[n].cases
      /\ x.status = "running" /\ x.registry = reg
  <2>1. f[n] \in ManifestType
    OBVIOUS
  <2> QED
    BY <2>1 DEF ManifestType
<1>2. Started(f, n, reg) = [f EXCEPT ![n] = x]
  BY DEF Started
<1> HIDE DEF x
<1> QED
  BY <1>1, <1>2

\* What the start of run n does.
LEMMA StartRunFacts ==
    ASSUME RunInv, NEW m \in 0..runs, StartRun(m), NEW n, n = runs + 1
    PROVE  /\ n \in RunId /\ (m # 0 => m \in RunId) /\ m < n /\ m \in 0..MaxRuns
           /\ n # 0 /\ n \in 0..MaxRuns /\ runs < n
           /\ registry' \in [Key -> Ref] /\ runs' = n /\ pc' = "stage" /\ at' = 1
           /\ results' = NoResults /\ manifests' \in [RunId -> ManifestType]
           /\ \A r \in RunId : manifests'[r].cases = manifests[r].cases
           /\ \A r \in RunId : r # n => manifests'[r] = manifests[r]
           /\ manifests'[n].status = "running" /\ manifests'[n].registry = registry'
           /\ manifests'[n].cases = [c \in Case |-> NoRecord]
           /\ prior' \in [RunId -> 0..MaxRuns] /\ prior'[n] = m
           /\ \A r \in RunId : r # n => prior'[r] = prior[r]
<1> USE DEF StartRun
<1>1. RunTypes /\ RunOrder /\ runs \in 0..MaxRuns /\ MaxRuns \in Nat
  BY ProjectAssumption DEF RunInv, RunTypes
<1>2. /\ n \in RunId /\ (m # 0 => m \in RunId) /\ m < n /\ m \in 0..MaxRuns
      /\ n # 0 /\ n \in 0..MaxRuns /\ runs < n
  BY <1>1 DEF RunId
<1>3. registry' \in [Key -> Ref]
  <2>1. EmptyRegistry \in [Key -> Ref]
    BY DEF EmptyRegistry, Ref
  <2> QED
    BY <2>1, <1>1, <1>2, RebuiltFacts
<1>4. /\ manifests' = [manifests EXCEPT ![n].status = "running", ![n].registry = registry']
      /\ runs' = n /\ prior' = [prior EXCEPT ![n] = m] /\ pc' = "stage" /\ at' = 1
      /\ results' = NoResults
  OBVIOUS
<1> DEFINE reg == registry'
<1>5. reg \in [Key -> Ref] /\ manifests' = [manifests EXCEPT ![n].status = "running", ![n].registry = reg]
  BY <1>3, <1>4
<1> HIDE DEF reg
<1>6. /\ manifests' \in [RunId -> ManifestType]
      /\ \A r \in RunId : manifests'[r].cases = manifests[r].cases
      /\ \A r \in RunId : r # n => manifests'[r] = manifests[r]
      /\ manifests'[n].status = "running" /\ manifests'[n].registry = reg
  <2>1. manifests \in [RunId -> ManifestType]
    BY <1>1 DEF RunTypes
  <2>2. manifests' = Started(manifests, n, reg)
    BY <1>5 DEF Started
  <2>3. /\ Started(manifests, n, reg) \in [RunId -> ManifestType]
        /\ \A r \in RunId : Started(manifests, n, reg)[r].cases = manifests[r].cases
        /\ \A r \in RunId : r # n => Started(manifests, n, reg)[r] = manifests[r]
        /\ Started(manifests, n, reg)[n].status = "running"
        /\ Started(manifests, n, reg)[n].registry = reg
    BY <2>1, <1>2, <1>5, StartedFacts
  <2> HIDE DEF StartRun
  <2> QED
    BY <2>2, <2>3
<1>7. /\ prior' \in [RunId -> 0..MaxRuns] /\ prior'[n] = m
      /\ \A r \in RunId : r # n => prior'[r] = prior[r]
  BY <1>1, <1>2, <1>4 DEF RunTypes
<1>8. manifests'[n].cases = [c \in Case |-> NoRecord]
  BY <1>1, <1>2, <1>6 DEF RunOrder, RunId
<1> HIDE DEF StartRun
<1> QED
  BY <1>2, <1>3, <1>4, <1>6, <1>7, <1>8 DEF reg

\* A run starts.
LEMMA StartRunKeeps == ASSUME RunInv, NEW m \in 0..runs, StartRun(m) PROVE RunInv'
<1> USE DEF StartRun
<1>1. RunTypes /\ RunOrder /\ CreditsRight /\ Len(plan) \in Nat /\ runs \in 0..MaxRuns /\ MaxRuns \in Nat
  BY ProjectAssumption DEF RunInv, RunTypes
<1>3. NoResults \in [Case -> ResultType] /\ \A c \in Case : Credited(c, NoResults[c])
  BY DEF NoResults, ResultType, Outcome, Ref, Credited, Ok
<1> DEFINE n == runs + 1
<1>2. /\ n \in RunId /\ (m # 0 => m \in RunId) /\ m < n /\ m \in 0..MaxRuns /\ n # 0 /\ n \in 0..MaxRuns
      /\ runs < n
  BY StartRunFacts
<1>4. registry' \in [Key -> Ref]
  BY StartRunFacts
<1>5. runs' = n /\ pc' = "stage" /\ at' = 1 /\ results' = NoResults
  BY StartRunFacts
<1>7. /\ manifests' \in [RunId -> ManifestType]
      /\ \A r \in RunId : manifests'[r].cases = manifests[r].cases
      /\ \A r \in RunId : r # n => manifests'[r] = manifests[r]
      /\ manifests'[n].status = "running"
      /\ manifests'[n].cases = [c \in Case |-> NoRecord]
  BY StartRunFacts
<1>8. /\ prior' \in [RunId -> 0..MaxRuns] /\ prior'[n] = m
      /\ \A r \in RunId : r # n => prior'[r] = prior[r]
  BY StartRunFacts
<1> HIDE DEF n
<1>9. RunTypes'
  BY <1>1, <1>2, <1>3, <1>4, <1>5, <1>7, <1>8 DEF RunTypes
<1>10. RunOrder'
  <2>1. \A r \in RunId : prior'[r] < r
    BY <1>1, <1>2, <1>8 DEF RunOrder
  <2>2. \A r \in RunId : r > n => r > runs /\ r # n
    BY <1>1, <1>2 DEF RunId
  <2>3. \A r \in RunId : r > n => manifests'[r] = manifests[r] /\ r > runs
    BY <1>7, <2>2
  <2>4. runs' # 0
    BY <1>2, <1>5
  <2> HIDE DEF StartRun
  <2> QED
    BY <2>1, <2>3, <2>4, <1>1, <1>5 DEF RunOrder
<1>11. CreditsRight'
  BY <1>1, <1>3, <1>5, <1>7 DEF CreditsRight
<1>12. RecordsHeld'
  <2> HIDE DEF StartRun
  <2>3. \A c \in Case : manifests'[n].cases[c].status \notin Ok
    BY <1>7 DEF NoRecord, Ok
  <2> QED
    BY <1>5, <2>3 DEF RecordsHeld, Manifest
<1>13. StagesAhead'
  <2>1. ASSUME NEW i \in 1..Len(plan), NEW c \in ToSet(plan[i].cases)
        PROVE  results'[c].status = "none"
    <3>1. c \in Case
      BY <1>1, StageFacts
    <3> QED
      BY <3>1, <1>5 DEF NoResults
  <2> QED
    BY <1>5, <2>1 DEF StagesAhead, InStage
<1>14. WorkRight' /\ WavesRight'
  BY DEF WorkRight, WavesRight
<1>15. RegistryBacked'
  <2> SUFFICES ASSUME NEW k \in Key, registry'[k] # None
               PROVE  /\ k \in {registry'[k][2], ArtifactOf[registry'[k][2]]}
                      /\ registry'[k][2] \in Resumed'
                      /\ manifests'[prior'[n]].cases[registry'[k][2]].ref = registry'[k]
    BY <1>5 DEF RegistryBacked
  <2>1. m # 0
    BY DEF EmptyRegistry
  <2>2. registry' = Rebuilt(m) /\ m \in RunId
    BY <2>1, <1>2
  <2>3. PICK c \in Case : /\ c \in Successful(m) /\ k \in {c, ArtifactOf[c]}
                          /\ registry'[k] = manifests[m].cases[c].ref
    BY <2>2, <1>1, RebuiltFacts DEF RebuiltFrom
  <2>4. manifests[m].cases[c].status \in Ok
    BY <2>1, <2>3 DEF Successful
  <2>5. registry'[k] \in RunId \X {c}
    BY <1>1, <2>2, <2>3, <2>4 DEF CreditsRight, Credited
  <2>6. registry'[k][2] = c
    BY <2>5
  <2>7. manifests'[m] = manifests[m]
    BY <1>1, <1>2, <1>7, <2>2 DEF RunId
  <2>8. c \in Resumed'
    BY <1>5, <1>8, <2>1, <2>4, <2>7 DEF Resumed, Successful
  <2> QED
    BY <2>3, <2>6, <2>7, <2>8, <1>8
<1> QED
  BY <1>9, <1>10, <1>11, <1>12, <1>13, <1>14, <1>15 DEF RunInv

\* Broker, workers and the expiry of leases leave the coordinator's state alone.
LEMMA OutsideKeeps ==
    ASSUME RunInv,
           \/ ReconcileCancels \/ CancelSiblings \/ WorkerStep
           \/ \E c \in running : QueueTimeout(c)
           \/ \E r \in RunId, c \in Case : Lapse(r, c)
    PROVE  RunInv'
<1>1. leases' \subseteq leases /\ UNCHANGED <<plan, runs, prior, manifests, processVars>>
  BY DEF ReconcileCancels, CancelSiblings, WorkerStep, WorkerClaims, WorkerReports, QueueTimeout, Lapse
<1> QED
  BY <1>1, OutsideKept DEF RunInv, RunTypes

\* So does a step that changes nothing.
LEMMA StutterKeeps == ASSUME RunInv, UNCHANGED vars PROVE RunInv'
<1>1. leases' \subseteq RunId \X Case
  BY DEF vars, RunInv, RunTypes
<1> QED
  BY <1>1, OutsideKept DEF vars

\* Every step preserves the invariant.
LEMMA NextKeeps == ASSUME RunInv, [ProjectNext]_vars PROVE RunInv'
<1>1. CASE \E m \in 0..runs : StartRun(m)
  BY <1>1, StartRunKeeps
<1>2. CASE EnterStage \/ SerialResumed \/ SerialStart \/ SerialRefused \/ SerialDone \/ SerialEnd
  BY <1>2, EnterStageKeeps, SerialResumedKeeps, SerialStartKeeps, SerialRefusedKeeps,
     SerialDoneKeeps, SerialEndKeeps
<1>3. CASE LaunchProcess \/ ReconcileAdopts \/ SubmitExternal \/ RecordSubmitted \/ LaunchRefused
           \/ SkipLeftovers
  BY <1>3, LaunchProcessKeeps, ReconcileAdoptsKeeps, SubmitExternalKeeps, RecordSubmittedKeeps,
     LaunchRefusedKeeps, SkipLeftoversKeeps
<1>4. CASE \E c \in running : CollectProcess(c) \/ CollectExternal(c)
  BY <1>4, CollectProcessKeeps, CollectExternalKeeps
<1>5. CASE EndParallel \/ EndWave \/ DagBlocked \/ DagFailFast \/ DagWave \/ EndDag
  BY <1>5, EndParallelKeeps, EndWaveKeeps, DagBlockedKeeps, DagFailFastKeeps, DagWaveKeeps,
     EndDagKeeps
<1>6. CASE Finish \/ ReconcileAborts \/ Crash
  BY <1>6, FinishKeeps, DiesKeeps
<1>7. CASE \/ ReconcileCancels \/ CancelSiblings \/ WorkerStep
           \/ \E c \in running : QueueTimeout(c)
           \/ \E r \in RunId, c \in Case : Lapse(r, c)
  BY <1>7, OutsideKeeps
<1>8. CASE UNCHANGED vars
  BY <1>8, StutterKeeps
<1> QED
  BY <1>1, <1>2, <1>3, <1>4, <1>5, <1>6, <1>7, <1>8 DEF ProjectNext, CoordinatorStep

\* RunInv holds throughout: for any accepted plan, any number of runs and crashes, the
\* results, the manifest and the working registry of project_runner.py agree.
THEOREM RunInvThm == ProjectSpec => []RunInv
<1>1. ProjectInit => RunInv
  BY InitInv
<1>2. RunInv /\ [ProjectNext]_vars => RunInv'
  BY NextKeeps
<1> QED
  BY <1>1, <1>2, PTL DEF ProjectSpec

\* A Case of least layer that cannot run depends on one that failed.
LEMMA NeverStuck == ASSUME RunInv PROVE DagNeverStuck
<1> SUFFICES ASSUME pc = "dag", Pending # {}, DagReady = {} PROVE Blocked # {}
  BY DEF DagNeverStuck
<1>1. /\ at \in 1..Len(plan) /\ Stage.policy = "dag" /\ RunTypes /\ StageCases \subseteq Case
  BY DagFacts
<1> DEFINE L == Layer(Stage)
           n == Len(plan[at].cases)
           D == Dependencies(Stage)
<1>2. /\ n \in Nat /\ \A c \in StageCases : L[c] \in 1..n
      /\ \A c \in StageCases : D[c] \subseteq StageCases /\ \A d \in D[c] : L[d] < L[c]
  BY <1>1, LayersExist, StageFacts DEF Stage, StageCases
<1>3. Pending \subseteq StageCases
  BY DEF Pending
<1> HIDE DEF L, n
<1>4. PICK c \in Pending : \A d \in Pending : L[c] <= L[d]
  <2> DEFINE P == Pending
  <2>1. P # {} /\ \A c \in P : L[c] \in 1..n
    BY <1>2, <1>3
  <2> HIDE DEF P
  <2>2. \E c \in P : \A d \in P : L[c] <= L[d]
    BY <1>2, <2>1, LeastCase
  <2> QED
    BY <2>2 DEF P
<1>5. PICK d \in D[c] : d \notin Resumed /\ results[d].status \notin Ok
  BY <1>4 DEF DagReady
<1>6. d \in StageCases /\ L[d] < L[c] /\ L[d] \in 1..n /\ L[c] \in 1..n
  BY <1>2, <1>3, <1>4, <1>5
<1>7. d \notin Pending
  BY <1>2, <1>4, <1>6
<1>8. results[d].status \in Outcome /\ results[d].status # "none"
  BY <1>1, <1>5, <1>6, <1>7 DEF Pending, RunTypes, ResultType
<1>9. d \in DagFailed
  BY <1>5, <1>6, <1>8 DEF DagFailed, Failed, Outcome, Ok
<1>10. c \in Blocked
  BY <1>4, <1>5, <1>9 DEF Blocked
<1> QED
  BY <1>10

\* The property: an input artifact was published by a success on record, a Case of a
\* DAG runs only after its dependencies have succeeded, and a DAG stage never raises
\* 'cannot make progress', whatever fails, crashes and is resumed in project_runner.py.
THEOREM CasesRunOnBackedInputsThm == ProjectSpec => []CasesRunOnBackedInputs
<1>1. RunInv => CasesRunOnBackedInputs
  <2>1. RunInv => DagInOrder
    BY DEF RunInv, DagInOrder, WavesRight, WorkRight
  <2>2. RunInv => RegistryBacked
    BY DEF RunInv
  <2> QED
    BY <2>1, <2>2, NeverStuck DEF CasesRunOnBackedInputs
<1> QED
  BY <1>1, RunInvThm, PTL

\* Types of the coordinator's state, of the leases and of the manifests.
THEOREM ProjectTypes == ProjectSpec => []ProjectTypeOK
<1>1. RunInv => ProjectTypeOK
  BY DEF RunInv, RunTypes, ProjectTypeOK, ResultType, Outcome, Status
<1> QED
  BY <1>1, RunInvThm, PTL

-----------------------------------------------------------------------------
(* What a finished run leaves.                                             *)

\* What a step of the coordinator owes to its stage.
StageAdvances ==
    at' = at + 1 => \A c \in StageCases :
        results'[c].status # "none" /\ (Stage.failFast /\ pc' # "finish" => results'[c].status \in Ok)
\* Results come in turn: in a serial stage to the current Case.
InTurn ==
    \A c \in Case : results'[c] # results[c] =>
        pc # "finish" /\ (Stage.policy = "serial" => pc = "serial" /\ c = Current)
\* What a step of the coordinator owes to ResumeInv.
Stands ==
    /\ pc # "finish" /\ StageAdvances /\ InTurn
    /\ StageHeld' /\ FailureShown' /\ LeasesHeld'

\* A step that retains leaves the records complete ...
LEMMA RecordsCompleteKept ==
    ASSUME BaseInv, Retains, RecordsComplete PROVE RecordsComplete'
<1> SUFFICES ASSUME NEW c \in Case
             PROVE  IF results'[c].status = "none"
                    THEN manifests'[runs].cases[c].status \in {"none", "submitted"}
                    ELSE InWave(c)' \/ RecordMatches(c)
  BY DEF RecordsComplete, InWave, RecordMatches, Manifest, Retains, Onward
<1>1. IF results[c].status = "none" THEN Manifest.cases[c].status \in {"none", "submitted"}
      ELSE \/ InWave(c)
           \/ Manifest.cases[c].status = results[c].status /\ Manifest.cases[c].ref = results[c].ref
  BY DEF RecordsComplete, InWave, Retains, Onward
<1>2. results[c].status # "none" => results'[c] = results[c]
  BY DEF Retains, ResultsGrow
<1>3. \/ RecordMatches(c)
      \/ RecordSubmits(c) /\ results'[c] = results[c]
      \/ RecordKept(c) /\ (InWave(c)' \/ (results'[c] = results[c] /\ ~InWave(c)))
  BY DEF Retains, RecordsFollow
<1>4. CASE RecordMatches(c)
  BY <1>4 DEF RecordMatches
<1>5. CASE RecordSubmits(c) /\ results'[c] = results[c]
  BY <1>5 DEF RecordSubmits
<1>6. CASE RecordKept(c) /\ InWave(c)'
  <2>1. CASE results'[c].status = "none"
    <3>1. results[c].status = "none"
      BY <1>2, <2>1
    <3> QED
      BY <1>1, <1>6, <2>1, <3>1 DEF RecordKept
  <2>2. CASE results'[c].status # "none"
    BY <1>6, <2>2
  <2> QED
    BY <2>1, <2>2
<1>7. CASE RecordKept(c) /\ results'[c] = results[c] /\ ~InWave(c)
  BY <1>1, <1>7 DEF RecordKept, RecordMatches
<1> QED
  BY <1>3, <1>4, <1>5, <1>6, <1>7

\* ... the Cases of the run resumed from as they were ...
LEMMA ResumedKeptKept ==
    ASSUME BaseInv, Retains, ResumedKept PROVE ResumedKept'
<1>1. /\ prior[runs] # 0 => manifests'[prior[runs]] = manifests[prior[runs]]
      /\ \A c \in Case : c \in Resumed => prior[runs] # 0
      /\ Resumed' = Resumed
  BY ResumedSame DEF BaseInv, Retains, Onward, RecordsFollow
<1>2. Resumed \subseteq Case
  BY DEF Resumed, Successful
<1> SUFFICES ASSUME NEW c \in Resumed, results'[c].status # "none"
             PROVE  /\ results'[c].status = "resumed"
                    /\ results'[c].ref = manifests[prior[runs]].cases[c].ref
  BY <1>1, <1>2 DEF ResumedKept, Retains, Onward
<1>3. CASE results'[c] = results[c]
  BY <1>3 DEF ResumedKept, Retains, Onward
<1>4. CASE results'[c] # results[c]
  BY <1>2, <1>4 DEF Retains, ResultsGrow
<1> QED
  BY <1>3, <1>4

\* ... and the registry of the manifest right.
LEMMA NamesRightKept ==
    ASSUME BaseInv, Retains, ResumedKept, NamesRight PROVE NamesRight'
<1>1. /\ prior[runs] # 0 => manifests'[prior[runs]] = manifests[prior[runs]]
      /\ \A c \in Case : c \in Resumed => prior[runs] # 0
      /\ Resumed' = Resumed
  BY ResumedSame DEF BaseInv, Retains, Onward, RecordsFollow
<1> DEFINE old == Manifest.registry
           new == manifests'[runs].registry
           pub(c) == IF c \in Resumed THEN manifests[prior[runs]].cases[c].ref
                     ELSE IF manifests'[runs].cases[c].status \in Ok
                          THEN manifests'[runs].cases[c].ref ELSE None
<1>2. ASSUME DistinctNames, NEW c \in Case PROVE new[c] = pub(c) /\ new[ArtifactOf[c]] = pub(c)
  <2>1. old[c] = Published(c) /\ old[ArtifactOf[c]] = Published(c)
    BY <1>2 DEF NamesRight, Retains, Onward
  <2>2. Manifest.cases[c].status \in Ok =>
           /\ results'[c] = results[c]
           /\ manifests'[runs].cases[c].status \in Ok
           /\ manifests'[runs].cases[c].ref = Manifest.cases[c].ref
    BY SuccessStays
  <2>3. CASE /\ new[c] = old[c] /\ new[ArtifactOf[c]] = old[ArtifactOf[c]]
             /\ manifests'[runs].cases[c].status \in Ok => RecordKept(c)
    <3>1. pub(c) = Published(c)
      <4>1. CASE c \in Resumed
        BY <4>1 DEF Published
      <4>2. CASE c \notin Resumed
        BY <2>2, <2>3, <4>2 DEF Published, RecordKept
      <4> QED
        BY <4>1, <4>2
    <3> QED
      BY <2>1, <2>3, <3>1
  <2>4. CASE /\ results'[c].status \in Ok /\ RecordMatches(c) /\ new[c] = results'[c].ref
             /\ new[ArtifactOf[c]] = IF old[ArtifactOf[c]] = None THEN results'[c].ref
                                     ELSE old[ArtifactOf[c]]
    <3>1. results'[c].ref = pub(c)
      <4>1. CASE c \in Resumed
        <5>1. ResumedKept'
          BY ResumedKeptKept
        <5>2. results'[c].status # "none"
          BY <2>4 DEF Ok
        <5>3. results'[c].ref = manifests'[prior[runs]].cases[c].ref
          BY <5>1, <5>2, <4>1, <1>1 DEF ResumedKept, Retains, Onward
        <5> QED
          BY <5>3, <4>1, <1>1
      <4>2. CASE c \notin Resumed
        BY <2>4, <4>2 DEF RecordMatches
      <4> QED
        BY <4>1, <4>2
    <3>2. Published(c) = None \/ Published(c) = pub(c)
      <4>1. CASE c \in Resumed
        BY <4>1 DEF Published
      <4>2. CASE c \notin Resumed
        BY <2>2, <4>2 DEF Published
      <4> QED
        BY <4>1, <4>2
    <3> HIDE DEF pub, new, old
    <3> QED
      BY <2>1, <2>4, <3>1, <3>2
  <2> QED
    BY <1>2, <2>3, <2>4 DEF Retains, NamesFollow
<1>3. ASSUME NEW c \in Case PROVE Published(c)' = pub(c)
  BY <1>1 DEF Published, Manifest, Retains, Onward
<1> QED
  BY <1>2, <1>3 DEF NamesRight, DistinctNames, Manifest, Retains, Onward

\* The planned Cases are those of the stages.
LEMMA PlannedFacts ==
    ASSUME RunTypes
    PROVE  /\ Planned \subseteq Case
           /\ \A i \in 1..Len(plan) : ToSet(plan[i].cases) \subseteq Planned
           /\ \A c \in Planned : \E i \in 1..Len(plan) : c \in ToSet(plan[i].cases)
<1>1. DOMAIN plan = 1..Len(plan)
  BY ProjectAssumption DEF RunTypes
<1>2. ASSUME NEW i \in 1..Len(plan), NEW c \in ToSet(plan[i].cases) PROVE c \in Planned
  <2>1. PICK j \in DOMAIN plan[i].cases : plan[i].cases[j] = c
    BY DEF ToSet
  <2>2. <<i, j>> \in {i} \X DOMAIN plan[i].cases
    BY <2>1
  <2>3. <<i, j>> \in Places
    BY <1>1, <2>2 DEF Places
  <2>4. CaseAt(<<i, j>>) = c
    BY <2>1 DEF CaseAt
  <2> QED
    BY <2>3, <2>4 DEF Planned
<1>3. ASSUME NEW c \in Planned PROVE c \in Case /\ \E i \in 1..Len(plan) : c \in ToSet(plan[i].cases)
  <2>1. PICK p \in Places : c = CaseAt(p)
    BY DEF Planned
  <2>2. PICK i \in DOMAIN plan : p \in {i} \X DOMAIN plan[i].cases
    BY <2>1 DEF Places
  <2>3. p[1] = i /\ p[2] \in DOMAIN plan[i].cases /\ i \in 1..Len(plan)
    BY <1>1, <2>2
  <2>4. c = plan[i].cases[p[2]]
    BY <2>1, <2>3 DEF CaseAt
  <2>5. c \in ToSet(plan[i].cases)
    BY <2>3, <2>4 DEF ToSet
  <2> QED
    BY <2>3, <2>5, StageFacts
<1> QED
  BY <1>2, <1>3

\* The stages behind are complete after the step, too.
LEMMA StagesBehindKept ==
    ASSUME RunTypes, Retains, StagesBehind, Stands PROVE StagesBehind'
<1>1. at \in 1..(Len(plan) + 1) /\ Len(plan) \in Nat
  BY ProjectAssumption DEF RunTypes
<1>2. ASSUME NEW c \in Case, results'[c].status # "none" PROVE c \in Planned
  <2>1. CASE results'[c] = results[c]
    BY <1>2, <2>1 DEF StagesBehind, Retains, Onward
  <2>2. CASE results'[c] # results[c]
    <3>1. at <= Len(plan) /\ c \in StageCases
      BY <2>2 DEF Retains, ResultsGrow
    <3> QED
      BY <3>1, <1>1, PlannedFacts DEF StageCases, Stage
  <2> QED
    BY <2>1, <2>2
<1>3. ASSUME NEW i \in 1..Len(plan), i < at', NEW c \in ToSet(plan[i].cases)
      PROVE  /\ results'[c].status # "none"
             /\ plan[i].failFast /\ pc' # "finish" => results'[c].status \in Ok
  <2>1. c \in Case
    BY StageFacts
  <2>2. CASE i < at
    <3>1. results[c].status # "none" /\ (plan[i].failFast => results[c].status \in Ok)
      BY <2>2, <1>3 DEF StagesBehind, Retains, Onward, Stands
    <3>2. results'[c] = results[c]
      BY <2>1, <3>1 DEF Retains, ResultsGrow
    <3> QED
      BY <3>1, <3>2
  <2>3. CASE i = at /\ at' = at + 1
    BY <2>3 DEF Stands, StageAdvances, StageCases, Stage
  <2>4. i < at \/ (i = at /\ at' = at + 1)
    BY <1>1, <1>3 DEF Retains, Onward
  <2> QED
    BY <2>2, <2>3, <2>4
<1>4. Planned' = Planned
  BY DEF Planned, Places, CaseAt, Retains, Onward
<1> QED
  BY <1>2, <1>3, <1>4 DEF StagesBehind, Retains, Onward

\* The Cases before the current one of a serial stage are no longer prepared.
LEMMA BeforeCurrent ==
    ASSUME RunTypes, at <= Len(plan), Stage.policy = "serial", prepared \subseteq StageCases,
           prepared # {}, NEW d \in StageCases, Position(Stage, d) < Position(Stage, Current)
    PROVE  d \notin prepared
<1>1. LaunchOrder = DeclaredOrder
  BY DEF LaunchOrder
<1> DEFINE C == prepared
<1>2. C \subseteq StageCases /\ C # {}
  OBVIOUS
<1>3. Current = First(DeclaredOrder, C)
  BY <1>1 DEF Current
<1> HIDE DEF C
<1>4. Current \in C /\ \A e \in C \ {Current} : <<Current, e>> \in DeclaredOrder
  BY <1>2, <1>3, FirstDeclared
<1>5. at \in 1..Len(plan)
  BY StageHere
<1>6. Current \in StageCases
  BY <1>2, <1>4
<1>7. Position(Stage, d) \in Int /\ Position(Stage, Current) \in Int
  BY <1>5, <1>6, PositionIsPlace, StageFacts DEF Stage, StageCases
<1>8. d # Current
  BY <1>7
<1>9. ASSUME d \in C PROVE FALSE
  <2>1. <<Current, d>> \in DeclaredOrder
    BY <1>4, <1>8, <1>9
  <2>2. Position(Stage, Current) < Position(Stage, d)
    BY <2>1 DEF DeclaredOrder
  <2> QED
    BY <1>7, <2>2
<1> QED
  BY <1>9 DEF C

\* What is reached is reached past successes only ...
LEMMA ReachedNowKept ==
    ASSUME RunInv, ResumeInv, Retains, Stands PROVE ReachedNow'
<1>0. RunTypes /\ StagesBehind /\ StageHeld /\ ReachedNow /\ WorkRight
  BY DEF RunInv, ResumeInv
<1>1. at \in 1..(Len(plan) + 1) /\ Len(plan) \in Nat
  BY <1>0, ProjectAssumption DEF RunTypes
<1> SUFFICES ASSUME NEW i \in 1..Len(plan), NEW c \in Case, NEW d \in Case, Reached(i, c),
                    Past(i, c, d), results'[c].status # "none"
             PROVE  results'[d].status \in Ok
  BY DEF ReachedNow, Reached, Past, Position, Retains, Onward
<1>2. results[d].status \in Ok => results'[d] = results[d]
  BY DEF Retains, ResultsGrow, Ok
<1> SUFFICES results[d].status \in Ok
  BY <1>2
<1>3. CASE results'[c] = results[c]
  BY <1>0, <1>3 DEF ReachedNow, Retains, Onward
<1>4. CASE results'[c] # results[c]
  <2>1. at <= Len(plan) /\ c \in StageCases /\ pc # "finish" /\ pc # "idle"
        /\ (Stage.policy = "serial" => pc = "serial" /\ c = Current)
    BY <1>4 DEF Retains, ResultsGrow, Stands, InTurn, Onward
  <2>2. at \in 1..Len(plan) /\ c \in ToSet(plan[at].cases) /\ d \in ToSet(plan[i].cases) /\ plan[i].failFast
    BY <1>1, <2>1 DEF StageCases, Stage, Past, Reached
  <2>3. CASE i < at
    BY <1>0, <2>1, <2>2, <2>3 DEF StagesBehind
  <2>4. CASE i = at
    <3>1. \A j \in (i + 1)..Len(plan) : c \notin ToSet(plan[j].cases)
      <4> TAKE j \in (i + 1)..Len(plan)
      <4>1. j \in 1..Len(plan) /\ j # at
        BY <1>1, <2>4
      <4>2. ToSet(plan[at].cases) \cap ToSet(plan[j].cases) = {}
        BY <1>0, <2>2, <4>1, StageFacts
      <4> QED
        BY <2>2, <4>2
    <3>2. Stage.policy = "serial" /\ pc = "serial" /\ c = Current /\ Stage.failFast
      BY <2>1, <2>4, <3>1 DEF Reached, Stage
    <3>3. prepared \subseteq StageCases /\ d \in StageCases
      BY <1>0, <2>2, <2>4, <3>2 DEF WorkRight, StageCases, Stage
    <3>4. Position(Stage, d) < Position(Stage, c)
      BY <2>2, <2>4 DEF Past, Stage
    <3>5. d \notin prepared
      <4>1. CASE prepared = {}
        BY <4>1
      <4>2. CASE prepared # {}
        BY <1>0, <2>1, <3>2, <3>3, <3>4, <4>2, BeforeCurrent
      <4> QED
        BY <4>1, <4>2
    <3> QED
      BY <1>0, <3>2, <3>3, <3>5 DEF StageHeld
  <2>5. CASE i > at
    <3>1. FALSE
      <4>1. ASSUME NEW j \in 1..Len(plan), j # at PROVE c \notin ToSet(plan[j].cases)
        <5>1. ToSet(plan[at].cases) \cap ToSet(plan[j].cases) = {}
          BY <1>0, <2>2, <4>1, StageFacts
        <5> QED
          BY <2>2, <5>1
      <4>2. \A j \in (i + 1)..Len(plan) : j \in 1..Len(plan) /\ j # at
        BY <1>1, <2>5
      <4>3. \A j \in (i + 1)..Len(plan) : c \notin ToSet(plan[j].cases)
        BY <4>1, <4>2
      <4>4. c \notin ToSet(plan[i].cases)
        BY <4>1, <2>5, <1>1
      <4> QED
        BY <4>3, <4>4 DEF Reached
    <3> QED
      BY <3>1
  <2> QED
    BY <1>1, <2>3, <2>4, <2>5
<1> QED
  BY <1>3, <1>4

\* ... and so it is in the manifests.
LEMMA ReachedBeforeKept ==
    ASSUME RunInv, RunInv', ResumeInv, Retains, RecordsComplete', StagesBehind', ReachedNow'
    PROVE  ReachedBefore'
<1>0. RunTypes /\ ReachedBefore /\ runs \in RunId /\ BaseInv
  BY InvBase, HereFacts DEF RunInv, ResumeInv, Retains, Onward
<1> DEFINE S == {c \in Case : manifests'[runs].cases[c].status \in Ok}
<1>7. ASSUME NEW r \in RunId, r = runs PROVE Successful(r)' = S
  BY <1>7, ProjectAssumption DEF Successful, RunId
<1>1. ASSUME NEW r \in RunId, r # runs PROVE Successful(r)' = Successful(r)
  BY <1>1, ProjectAssumption DEF Successful, Retains, RecordsFollow, RunId
<1>2. /\ Planned' = Planned
      /\ \A i \in 1..Len(plan) : \A c, d \in Case :
            (Reached(i, c) /\ Past(i, c, d)) <=> (Reached(i, c) /\ Past(i, c, d))'
  BY DEF Planned, Places, CaseAt, Reached, Past, Position, Retains, Onward
<1>3. ASSUME NEW c \in S
      PROVE  /\ c \in Case /\ manifests'[runs].cases[c].status \in Ok
             /\ results'[c].status \in Ok /\ c \in Planned
  <2>1. c \in Case /\ manifests'[runs].cases[c].status \in Ok
    OBVIOUS
  <2>2. results'[c].status \in Ok
    BY <2>1 DEF RunInv, RecordsHeld, Manifest, Retains, Onward
  <2>3. c \in Planned
    BY <2>1, <2>2, <1>2 DEF StagesBehind, Retains, Onward, Ok
  <2> QED
    BY <2>1, <2>2, <2>3
<1>4. ASSUME NEW i \in 1..Len(plan), NEW c \in Case, NEW d \in Case, Reached(i, c), Past(i, c, d),
             c \in S
      PROVE  d \in S
  <2>1. results'[c].status \in Ok
    BY <1>3, <1>4
  <2>2. results'[d].status \in Ok
    BY <2>1, <1>2, <1>4 DEF ReachedNow, Retains, Onward, Ok
  <2>3. manifests'[runs].cases[d].status = results'[d].status \/ InWave(d)'
    BY <2>2 DEF RecordsComplete, InWave, Manifest, Retains, Onward, Ok
  <2>4. ~InWave(d)'
    <3> SUFFICES ASSUME pc' = "parallel", plan[at'].policy = "dag", d \in wave' PROVE FALSE
      BY DEF InWave, Stage, Retains, Onward
    <3>1. at' \in 1..Len(plan) /\ Len(plan) \in Nat /\ d \in ToSet(plan[at'].cases)
      <4>1. at' <= Len(plan) /\ at' \in 1..(Len(plan) + 1) /\ Len(plan) \in Nat
        BY <1>0, ProjectAssumption DEF RunInv, RunTypes, Retains, Onward, InStage
      <4>2. d \in ToSet(plan[at'].cases)
        BY DEF RunInv, WorkRight, StageCases, Stage, Retains, Onward
      <4> QED
        BY <4>1, <4>2
    <3>2. i = at'
      <4>1. d \in ToSet(plan[i].cases)
        BY <1>4 DEF Past
      <4> QED
        BY <1>0, <3>1, <4>1, StageFacts
    <3>3. PICK j \in (i + 1)..Len(plan) : c \in ToSet(plan[j].cases)
      BY <1>4, <3>2 DEF Reached
    <3>4. j \in 1..Len(plan) /\ j > at'
      <4>1. i \in Int /\ i >= 1 /\ Len(plan) \in Int
        BY <3>1, <3>2
      <4>2. j \in Int /\ i + 1 <= j /\ j <= Len(plan)
        BY <3>1, <4>1
      <4>3. j \in 1..Len(plan) /\ j > i
        BY <4>1, <4>2
      <4> QED
        BY <3>2, <4>3
    <3>5. results'[c].status = "none"
      BY <3>3, <3>4 DEF RunInv, StagesAhead, Retains, Onward
    <3> QED
      BY <2>1, <3>5 DEF Ok
  <2>5. manifests'[runs].cases[d].status \in Ok
    BY <2>2, <2>3, <2>4
  <2> QED
    BY <2>5
<1>5. ASSUME NEW r \in RunId
      PROVE  /\ \A i \in 1..Len(plan) : \A c, d \in Case : Reached(i, c) /\ Past(i, c, d) =>
                   (c \in Successful(r)' => d \in Successful(r)')
             /\ Successful(r)' \subseteq Planned
  <2>1. CASE r # runs
    BY <1>0, <1>1, <2>1 DEF ReachedBefore
  <2>2. CASE r = runs
    <3>1. Successful(r)' = S
      BY <1>7, <2>2
    <3>2. S \subseteq Planned
      BY <1>3
    <3> HIDE DEF S
    <3> QED
      BY <3>1, <3>2, <1>4
  <2> QED
    BY <2>1, <2>2
<1>6. plan' = plan
  BY DEF Retains, Onward
<1> QED
  BY <1>2, <1>5, <1>6 DEF ReachedBefore

\* The artifact a run has for a Case.
Own(r, c) == IF c \in Successful(r) /\ c \in Planned THEN manifests[r].cases[c].ref ELSE None

\* Under distinct names the registry of a manifest is rebuilt from its own records.
OwnNames(r) ==
    \A c \in Case : /\ manifests[r].registry[c] = Own(r, c)
                    /\ manifests[r].registry[ArtifactOf[c]] = Own(r, c)

\* Under distinct names, what is rebuilt is each Case's own artifact.
LEMMA RebuiltOwn ==
    ASSUME RunTypes, DistinctNames, NEW r \in RunId, NEW c \in Case
    PROVE  Rebuilt(r)[c] = Own(r, c) /\ Rebuilt(r)[ArtifactOf[c]] = Own(r, c)
<1> DEFINE known(k) == {p \in Places : /\ CaseAt(p) \in Successful(r)
                                       /\ manifests[r].cases[CaseAt(p)].ref # None
                                       /\ k \in {CaseAt(p), ArtifactOf[CaseAt(p)]}}
           first(k) == CHOOSE p \in known(k) : \A q \in known(k) : InPlanOrder(p, q)
           reg == [k \in Key |-> IF known(k) = {} THEN None
                                ELSE manifests[r].cases[CaseAt(first(k))].ref]
<1>1. Rebuilt(r) = reg
  BY DEF Rebuilt
<1>2. c \in Key /\ ArtifactOf[c] \in Key
  BY KeysDiffer
<1>3. \A p \in Places : CaseAt(p) \in Planned
  BY DEF Planned
<1>4. Planned \subseteq Case
  BY PlannedFacts
<1>5. ASSUME NEW k \in {c, ArtifactOf[c]} PROVE reg[k] = Own(r, c)
  <2>0. k \in Key
    BY <1>2
  <2>1. ASSUME NEW p \in known(k) PROVE CaseAt(p) = c /\ p \in Places
    <3>1. p \in Places /\ k \in {CaseAt(p), ArtifactOf[CaseAt(p)]}
      BY <2>1
    <3>2. CaseAt(p) \in Case
      BY <1>3, <1>4, <3>1
    <3>3. CaseAt(p) = c
      BY <3>1, <3>2, KeysDiffer DEF DistinctNames
    <3> QED
      BY <3>1, <3>3
  <2>2. CASE known(k) = {}
    <3>1. reg[k] = None
      BY <2>0, <2>2
    <3>2. Own(r, c) = None
      <4>1. ASSUME c \in Successful(r), c \in Planned, manifests[r].cases[c].ref # None PROVE FALSE
        <5>1. PICK p \in Places : c = CaseAt(p)
          BY <4>1 DEF Planned
        <5>2. p \in known(k)
          BY <4>1, <5>1
        <5> QED
          BY <2>2, <5>2
      <4> QED
        BY <4>1 DEF Own
    <3> QED
      BY <3>1, <3>2
  <2>3. CASE known(k) # {}
    <3>1. first(k) \in known(k)
      <4>1. known(k) \subseteq Places
        OBVIOUS
      <4> HIDE DEF known
      <4> QED
        BY <2>3, <4>1, FirstPlace
    <3>2. reg[k] = manifests[r].cases[CaseAt(first(k))].ref
      BY <2>0, <2>3
    <3>3. CaseAt(first(k)) \in Successful(r)
      BY <3>1
    <3> HIDE DEF first, known, reg
    <3>4. CaseAt(first(k)) = c /\ CaseAt(first(k)) \in Planned
      BY <1>3, <2>1, <3>1
    <3> QED
      BY <3>2, <3>3, <3>4 DEF Own
  <2> QED
    BY <2>2, <2>3
<1> HIDE DEF reg
<1> QED
  BY <1>1, <1>5

\* The check at the start of a resumed run, under distinct names ...
LEMMA AcceptableIsOwn ==
    RunTypes /\ DistinctNames => \A r \in RunId : Acceptable(r) <=> OwnNames(r)
<1> SUFFICES ASSUME RunTypes, DistinctNames, NEW r \in RunId PROVE Acceptable(r) <=> OwnNames(r)
  OBVIOUS
<1> DEFINE a == manifests[r].registry
           b == Rebuilt(r)
<1>1. a \in [Key -> Ref]
  BY DEF RunTypes, ManifestType
<1>2. b \in [Key -> Ref]
  BY RebuiltFacts
<1>3. \A c \in Case : b[c] = Own(r, c) /\ b[ArtifactOf[c]] = Own(r, c)
  BY RebuiltOwn
<1>4. \A k \in Key : k \in Case \/ \E c \in Case : k = ArtifactOf[c]
  BY DEF Key
<1>5. Acceptable(r) <=> a = b
  BY DEF Acceptable
<1>6. OwnNames(r) <=> \A c \in Case : a[c] = Own(r, c) /\ a[ArtifactOf[c]] = Own(r, c)
  BY DEF OwnNames
<1> HIDE DEF a, b
<1>7. a = b => OwnNames(r)
  BY <1>3, <1>6
<1>8. OwnNames(r) => a = b
  <2>1. ASSUME OwnNames(r), NEW k \in Key PROVE a[k] = b[k]
    BY <1>3, <1>4, <1>6, <2>1
  <2>2. ASSUME OwnNames(r) PROVE a = b
    BY <2>1, <2>2, <1>1, <1>2
  <2> QED
    BY <2>2
<1> QED
  BY <1>5, <1>7, <1>8

\* ... in the state after a step.
LEMMA AcceptableIsOwnAfter ==
    (RunTypes /\ DistinctNames)' => (\A r \in RunId : Acceptable(r) <=> OwnNames(r))'
  BY AcceptableIsOwn, PTL

\* What FinishedResumable says of one finished run.
Resumable(r) ==
    /\ Acceptable(r)
    /\ \A c \in Successful(prior[r]) :
          /\ manifests[r].cases[c].status = "resumed"
          /\ manifests[r].cases[c].ref = manifests[prior[r]].cases[c].ref

\* A finished run stays resumable as long as its manifest and that of its prior stay.
LEMMA ResumableStays ==
    ASSUME RunTypes, RunTypes', DistinctNames, plan' = plan, NEW r \in RunId, Resumable(r),
           manifests'[r] = manifests[r], prior'[r] = prior[r],
           prior[r] # 0 => manifests'[prior[r]] = manifests[prior[r]]
    PROVE  Resumable(r)'
<1>1. Successful(r)' = Successful(r) /\ Planned' = Planned
  BY DEF Successful, Planned, Places, CaseAt
<1>2. \A c \in Case : Own(r, c)' = Own(r, c)
  BY <1>1 DEF Own
<1>3. OwnNames(r) <=> Acceptable(r)
  BY AcceptableIsOwn
<1>4. (\A s \in RunId : Acceptable(s) <=> OwnNames(s))'
  BY AcceptableIsOwnAfter DEF DistinctNames
<1>5. OwnNames(r)' <=> Acceptable(r)'
  BY <1>4
<1>6. OwnNames(r)'
  BY <1>2, <1>3 DEF OwnNames, Resumable
<1>7. Successful(prior[r])' = Successful(prior[r])
  BY DEF Successful
<1>8. \A c \in Successful(prior[r]) : manifests'[prior'[r]].cases[c].ref = manifests[prior[r]].cases[c].ref
  <2>1. prior[r] = 0 => Successful(prior[r]) = {}
    BY DEF Successful
  <2> QED
    BY <2>1
<1> QED
  BY <1>5, <1>6, <1>7, <1>8 DEF Resumable

\* A step that retains and owes nothing to its stage preserves ResumeInv.
LEMMA StandsKeeps ==
    ASSUME RunInv, RunInv', ResumeInv, Retains, Stands PROVE ResumeInv'
<1>0. /\ BaseInv /\ RunTypes /\ RunTypes' /\ runs \in RunId /\ RunOrder
      /\ pc # "idle" /\ pc' # "idle" /\ plan' = plan /\ runs' = runs /\ prior' = prior
  BY InvBase, HereFacts DEF RunInv, Retains, Onward
<1>1. RecordsComplete'
  BY <1>0, RecordsCompleteKept DEF ResumeInv
<1>2. ResumedKept' /\ NamesRight'
  BY <1>0, ResumedKeptKept, NamesRightKept DEF ResumeInv
<1>3. StagesBehind'
  BY <1>0, StagesBehindKept DEF ResumeInv
<1>4. ReachedNow'
  BY ReachedNowKept
<1>5. ReachedBefore'
  BY <1>1, <1>3, <1>4, ReachedBeforeKept
<1>6. /\ Manifest.status = "running" /\ manifests'[runs].status = "running"
      /\ \A r \in RunId : r # runs => manifests'[r] = manifests[r]
  BY <1>0 DEF ResumeInv, Unfinished, Manifest, Retains, RecordsFollow
<1>7. Unfinished'
  BY <1>0, <1>6 DEF Unfinished
<1>8. Accounted'
  <2>1. ASSUME NEW r \in RunId, manifests'[r].status = "ok", NEW c \in Planned'
        PROVE  manifests'[r].cases[c].status \in Ok
    <3>1. r # runs /\ manifests'[r] = manifests[r]
      BY <1>6, <2>1
    <3>2. Planned' = Planned
      BY <1>0 DEF Planned, Places, CaseAt
    <3> QED
      BY <3>1, <3>2, <2>1 DEF ResumeInv, Accounted
  <2>2. ASSUME pc' = "stage", NEW i \in 1..(at' - 1), NEW c \in ToSet(plan'[i].cases)
        PROVE  manifests'[runs].cases[c].status \in Ok \cup {"failed", "skipped"}
    <3>1. at' \in 1..(Len(plan) + 1) /\ Len(plan) \in Nat
      BY <1>0, ProjectAssumption DEF RunTypes
    <3>2. i \in 1..Len(plan) /\ i < at'
      <4>1. PICK n \in 1..(Len(plan) + 1) : n = at'
        BY <3>1
      <4>2. i \in 1..(n - 1)
        BY <4>1
      <4>3. i \in 1..Len(plan) /\ i < n
        BY <3>1, <4>2
      <4> QED
        BY <4>1, <4>3
    <3>3. c \in Case
      BY <1>0, <2>2, <3>2, StageFacts
    <3>4. results'[c].status # "none"
      BY <1>0, <1>3, <2>2, <3>2 DEF StagesBehind
    <3>5. manifests'[runs].cases[c].status = results'[c].status
      BY <1>0, <1>1, <2>2, <3>3, <3>4 DEF RecordsComplete, Manifest
    <3>6. results'[c].status \in Outcome
      BY <1>0, <3>3 DEF RunTypes, ResultType
    <3> QED
      BY <3>4, <3>5, <3>6 DEF Outcome, Ok
  <2>3. pc' \in {"stage", "finish"} => running' = {} /\ \A c \in Case : <<runs, c>> \notin leases'
    <3>1. pc' \in {"stage", "finish"} => running' = {}
      BY DEF RunInv, WorkRight
    <3> QED
      BY <1>0, <3>1 DEF Stands, LeasesHeld
  <2> QED
    BY <1>0, <2>1, <2>2, <2>3 DEF Accounted, Manifest
<1>9. DistinctNames' => FinishedResumable'
  <2> SUFFICES ASSUME DistinctNames PROVE FinishedResumable'
    BY DEF DistinctNames
  <2>1. ASSUME NEW r \in RunId, Finished(r)' PROVE Resumable(r)'
    <3>1. r # runs /\ manifests'[r] = manifests[r]
      BY <1>6, <2>1 DEF Finished
    <3>2. Finished(r)
      BY <2>1, <3>1 DEF Finished
    <3>3. ~(r > runs)
      BY <1>0, <3>2 DEF RunOrder, Finished
    <3>4. prior[r] \in 0..MaxRuns /\ prior[r] < r
      BY <1>0 DEF RunTypes, RunOrder
    <3>5. prior[r] # runs
      BY <1>0, <3>1, <3>3, <3>4, ProjectAssumption DEF RunId
    <3>6. prior[r] # 0 => manifests'[prior[r]] = manifests[prior[r]]
      BY <1>6, <3>4, <3>5, ProjectAssumption DEF RunId
    <3>7. Resumable(r)
      BY <3>2 DEF ResumeInv, FinishedResumable, Resumable
    <3> QED
      BY <1>0, <3>1, <3>6, <3>7, ResumableStays
  <2> QED
    BY <1>8, <2>1 DEF FinishedResumable, Resumable
<1> QED
  BY <1>1, <1>2, <1>3, <1>4, <1>5, <1>7, <1>8, <1>9 DEF ResumeInv, Stands

\* A Case of the run resumed from does not fail.
LEMMA ResumedNotFailed ==
    ASSUME ResumedKept, pc # "idle", NEW c \in Resumed PROVE ~Failed(c)
  BY DEF ResumedKept, Failed

\* A fail_fast stage that fails leaves no Case without a result that the run resumed from had.
LEMMA NothingMissed ==
    ASSUME RunInv, ResumeInv, pc # "idle", pc # "finish", at <= Len(plan), Stage.failFast,
           NEW d \in StageCases, d \notin Resumed, NEW c \in Resumed, results[c].status = "none"
    PROVE  /\ c \in StageCases
           /\ Stage.policy = "serial" => ~(Position(Stage, d) < Position(Stage, c))
<1>1. /\ RunTypes /\ StagesBehind /\ ReachedBefore /\ runs \in RunId /\ at \in 1..Len(plan)
      /\ StageCases \subseteq Case /\ Len(plan) \in Nat
  BY InvBase, HereFacts, StageHere, ProjectAssumption DEF RunInv, ResumeInv, RunTypes
<1>2. prior[runs] \in RunId /\ c \in Case /\ c \in Successful(prior[runs])
  <2>1. prior[runs] # 0 /\ c \in Case /\ c \in Successful(prior[runs])
    BY DEF Resumed, Successful
  <2>2. prior[runs] \in 0..MaxRuns
    BY <1>1 DEF RunTypes
  <2> QED
    BY <2>1, <2>2, ProjectAssumption DEF RunId
<1>3. PICK j \in 1..Len(plan) : c \in ToSet(plan[j].cases)
  BY <1>1, <1>2, PlannedFacts DEF ReachedBefore
<1>4. ~(Reached(at, c) /\ Past(at, c, d))
  <2>1. ASSUME Reached(at, c), Past(at, c, d) PROVE d \in Resumed
    BY <1>1, <1>2, <2>1 DEF ReachedBefore, Resumed
  <2> QED
    BY <2>1
<1>5. ~(j < at)
  BY <1>1, <1>3 DEF StagesBehind
<1>6. j = at
  <2>1. ASSUME j > at PROVE FALSE
    <3>1. j \in (at + 1)..Len(plan)
      BY <1>1, <2>1
    <3>2. c \notin ToSet(plan[at].cases)
      <4>0. at # j
        BY <1>1, <2>1
      <4>1. ToSet(plan[at].cases) \cap ToSet(plan[j].cases) = {}
        BY <1>1, <4>0, StageFacts
      <4> QED
        BY <1>3, <4>1
    <3>3. Reached(at, c)
      BY <1>3, <3>1 DEF Reached, Stage
    <3>4. Past(at, c, d)
      BY <3>2 DEF Past, StageCases, Stage
    <3> QED
      BY <1>4, <3>3, <3>4
  <2> QED
    BY <1>1, <1>5, <2>1
<1>7. c \in StageCases
  BY <1>3, <1>6 DEF StageCases, Stage
<1>8. ASSUME Stage.policy = "serial", Position(Stage, d) < Position(Stage, c) PROVE FALSE
  <2>1. Reached(at, c) /\ Past(at, c, d)
    BY <1>3, <1>6, <1>8 DEF Reached, Past, Stage, StageCases
  <2> QED
    BY <1>4, <2>1
<1> QED
  BY <1>7, <1>8

-----------------------------------------------------------------------------
(* What the steps of a serial stage owe.                                   *)

\* The steps of a serial stage: a Case of an earlier run ...
LEMMA SerialResumedStands == ASSUME RunInv, ResumeInv, SerialResumed PROVE Stands
<1> USE DEF SerialResumed
<1>1. /\ at <= Len(plan) /\ Stage.policy = "serial" /\ pc # "idle" /\ RunTypes
      /\ Current \in Case /\ StageHeld /\ FailureShown /\ LeasesHeld
  BY SerialFacts, CurrentFacts DEF ResumeInv
<1> DEFINE res == Result("resumed", manifests[prior[runs]].cases[Current].ref)
<1>2. /\ results'[Current] = res /\ \A c \in Case \ {Current} : results'[c] = results[c]
  BY <1>1 DEF RunTypes
<1>3. res.status = "resumed"
  BY DEF Result
<1> HIDE DEF res
<1>4. Stage' = Stage /\ StageCases' = StageCases
  BY SameStage
<1>5. StageAdvances /\ InTurn
  <2>1. at \in Int
    BY <1>1, ProjectAssumption DEF RunTypes
  <2> QED
    BY <1>2, <2>1 DEF StageAdvances, InTurn
<1>6. StageHeld'
  <2>1. StageCases \subseteq Case
    BY <1>1, StageHere
  <2> QED
    BY <1>1, <1>2, <1>3, <1>4, <2>1 DEF StageHeld, Ok
<1>7. FailureShown'
  BY <1>1, <1>2, <1>3 DEF FailureShown, Failed
<1>8. LeasesHeld'
  BY <1>1 DEF LeasesHeld
<1> QED
  BY <1>5, <1>6, <1>7, <1>8 DEF Stands

\* ... retain() ...
LEMMA SerialRetainStands ==
    ASSUME RunInv, ResumeInv, pc = "serial", prepared # {}, Current \notin Resumed, NEW res,
           res.status \in {"succeeded", "failed"}, SerialRetain(res)
    PROVE  Stands
<1>1. /\ at <= Len(plan) /\ Stage.policy = "serial" /\ pc # "idle" /\ RunTypes /\ WorkRight
      /\ Current \in Case /\ StageHeld /\ FailureShown /\ LeasesHeld /\ Current \in StageCases
      /\ StageCases \subseteq Case /\ prepared \subseteq StageCases
  BY SerialFacts, CurrentFacts DEF ResumeInv
<1>2. /\ results'[Current] = res /\ \A c \in Case \ {Current} : results'[c] = results[c]
  BY <1>1 DEF RunTypes, SerialRetain
<1>3. UNCHANGED <<plan, runs, prior, at>>
  BY DEF SerialRetain
<1>4. Stage' = Stage /\ StageCases' = StageCases
  BY <1>3, SameStage
<1>5. StageAdvances /\ InTurn
  <2>1. at \in Int
    BY <1>1, ProjectAssumption DEF RunTypes
  <2> QED
    BY <1>2, <1>3, <2>1 DEF StageAdvances, InTurn
<1>6. StageHeld'
  <2>1. CASE res.status \notin Ok /\ Stage.failFast
    BY <2>1 DEF StageHeld, SerialRetain
  <2>2. CASE ~(res.status \notin Ok /\ Stage.failFast)
    <3>1. pc' = "serial" /\ prepared' = prepared \ {Current}
      BY <2>2 DEF SerialRetain
    <3>2. \A c \in StageCases \ prepared' :
              results'[c].status # "none" /\ (Stage.failFast => results'[c].status \in Ok)
      BY <1>1, <1>2, <2>2, <3>1 DEF StageHeld
    <3> QED
      BY <1>4, <3>1, <3>2 DEF StageHeld
  <2> QED
    BY <2>1, <2>2
<1>7. FailureShown'
  <2>1. pc' # "idle" /\ exitCode' = 0 => \A c \in Case : ~Failed(c)'
    <3>1. exitCode' = IF res.status \in Ok THEN exitCode ELSE 1
      BY DEF SerialRetain
    <3> QED
      BY <1>1, <1>2, <3>1 DEF FailureShown, Failed, Ok
  <2>2. ASSUME pc' = "finish" PROVE exitCode' # 0 /\ \A c \in Resumed' : results'[c].status # "none"
    <3>1. res.status \notin Ok /\ Stage.failFast /\ exitCode' = 1
      BY <2>2 DEF SerialRetain
    <3>2. Resumed' = Resumed
      <4>1. \A r \in RunId : r # runs => manifests'[r] = manifests[r]
        BY <1>1 DEF SerialRetain, Write, RunTypes
      <4> QED
        BY <1>1, <1>3, <4>1, ResumedSame DEF RunInv
    <3>3. ASSUME NEW c \in Resumed, results'[c].status = "none" PROVE FALSE
      <4>1. c \in Case /\ c # Current
        BY <3>3 DEF Resumed, Successful
      <4>2. results[c].status = "none"
        BY <1>2, <3>3, <4>1
      <4>3. c \in StageCases /\ ~(Position(Stage, Current) < Position(Stage, c))
        BY <1>1, <3>1, <4>2, NothingMissed
      <4>4. Position(Stage, c) < Position(Stage, Current)
        <5>1. at \in 1..Len(plan)
          BY <1>1, StageHere
        <5>2. Position(Stage, c) # Position(Stage, Current)
          BY <1>1, <4>1, <4>3, <5>1, PositionsDiffer DEF Stage, StageCases
        <5>3. Position(Stage, c) \in Int /\ Position(Stage, Current) \in Int
          BY <1>1, <4>3, <5>1, PositionIsPlace, StageFacts DEF Stage, StageCases
        <5> QED
          BY <4>3, <5>2, <5>3
      <4>5. c \notin prepared
        BY <1>1, <4>3, <4>4, BeforeCurrent
      <4> QED
        BY <1>1, <4>2, <4>3, <4>5 DEF StageHeld
    <3> QED
      BY <3>1, <3>2, <3>3
  <2> QED
    BY <2>1, <2>2 DEF FailureShown
<1>8. LeasesHeld'
  <2>1. leases' = leases \ {<<holds[Current], Current>>} /\ running' = {}
    BY DEF SerialRetain
  <2>2. ASSUME NEW c \in Case, <<runs, c>> \in leases' PROVE FALSE
    <3>1. c \in running /\ holds[c] = runs
      BY <1>1, <2>1, <2>2 DEF LeasesHeld
    <3>2. c = Current
      BY <1>1, <3>1 DEF WorkRight
    <3> QED
      BY <2>1, <2>2, <3>1, <3>2
  <2> QED
    BY <1>1, <1>3, <2>1, <2>2 DEF LeasesHeld
<1> QED
  BY <1>5, <1>6, <1>7, <1>8 DEF Stands

\* ... a refused Case ...
LEMMA SerialRefusedStands == ASSUME RunInv, ResumeInv, SerialRefused PROVE Stands
<1>1. Result("failed", None).status = "failed"
  BY DEF Result
<1> QED
  BY <1>1, SerialRetainStands DEF SerialRefused

\* ... one that returns ...
LEMMA SerialDoneStands == ASSUME RunInv, ResumeInv, SerialDone PROVE Stands
<1>1. pc = "serial" /\ prepared # {} /\ Current \notin Resumed
  BY SerialFacts DEF SerialDone
<1>2. /\ Result("failed", None).status = "failed"
      /\ Result("succeeded", <<runs, Current>>).status = "succeeded"
  BY DEF Result
<1> QED
  BY <1>1, <1>2, SerialRetainStands DEF SerialDone

\* ... one that starts ...
LEMMA SerialStartStands == ASSUME RunInv, ResumeInv, SerialStart PROVE Stands
<1> USE DEF SerialStart
<1>1. /\ at <= Len(plan) /\ Stage.policy = "serial" /\ pc # "idle" /\ RunTypes
      /\ Current \in Case /\ StageHeld /\ FailureShown /\ LeasesHeld /\ runs \in Int
  BY SerialFacts, CurrentFacts, ProjectAssumption DEF ResumeInv, RunTypes
<1>2. Stage' = Stage /\ StageCases' = StageCases
  BY SameStage
<1>3. StageAdvances /\ InTurn
  <2>1. at \in Int
    BY <1>1, ProjectAssumption DEF RunTypes
  <2> QED
    BY <2>1 DEF StageAdvances, InTurn
<1>4. StageHeld' /\ FailureShown'
  BY <1>1, <1>2 DEF StageHeld, FailureShown, Failed
<1>5. LeasesHeld'
  <2>1. holds'[Current] = runs
    BY <1>1 DEF RunTypes
  <2> QED
    BY <1>1, <2>1 DEF LeasesHeld
<1> QED
  BY <1>3, <1>4, <1>5 DEF Stands

\* ... and the end of the stage.
LEMMA SerialEndStands == ASSUME RunInv, ResumeInv, SerialEnd PROVE Stands
<1> USE DEF SerialEnd
<1>1. /\ at <= Len(plan) /\ pc # "idle" /\ RunTypes /\ running = {}
      /\ StageHeld /\ FailureShown /\ LeasesHeld
  BY SerialFacts DEF ResumeInv
<1>2. StageAdvances /\ InTurn
  BY <1>1 DEF StageAdvances, InTurn, StageHeld
<1>3. StageHeld' /\ FailureShown' /\ LeasesHeld'
  BY <1>1 DEF StageHeld, FailureShown, Failed, LeasesHeld
<1> QED
  BY <1>2, <1>3 DEF Stands

-----------------------------------------------------------------------------
(* What the steps of a parallel, external or DAG stage owe.                *)

\* A step within a stage that is not serial.
LEMMA InTurnElsewhere ==
    ASSUME RunTypes, pc # "finish", Stage.policy # "serial", at' = at
    PROVE  StageAdvances /\ InTurn
<1>1. at \in Int
  BY ProjectAssumption DEF RunTypes
<1> QED
  BY <1>1 DEF StageAdvances, InTurn

\* The preparation of a stage or a wave.
LEMMA PrepareStands ==
    ASSUME RunInv, ResumeInv, at <= Len(plan), pc \in {"stage", "dag"}, running = {},
           NEW C, C \subseteq StageCases, Prepare(C), Stage.policy # "serial",
           Stage.policy # "dag" => C = StageCases \ Resumed
    PROVE  Stands
<1>1. /\ RunTypes /\ StageHeld /\ FailureShown /\ LeasesHeld /\ StageCases \subseteq Case /\ runs \in RunId
      /\ RunOrder
  BY InvBase, StageHere, HereFacts DEF RunInv, ResumeInv
<1> DEFINE bad == {c \in C : ~Preparable(c, registry)}
           late == {c \in C : Stage.failFast /\ \E b \in bad : <<b, c>> \in LaunchOrder}
           done == [c \in Case |-> IF c \in late THEN Result("skipped", None)
                                  ELSE IF c \in bad THEN Result("failed", None) ELSE results[c]]
           D == {c \in C : done[c].status # "none"}
<1>2. /\ results' = done /\ prepared' = C \ (bad \cup late) /\ wave' = C /\ pc' = "parallel"
      /\ exitCode' = IF bad # {} THEN 1 ELSE exitCode
      /\ IF Stage.policy = "dag" THEN UNCHANGED manifests
         ELSE Write(RecordAll(Manifest, D, DeclaredOrder, done))
      /\ UNCHANGED <<plan, runs, prior, at, registry, running, holds, awaits, leases, tasks>>
  BY DEF Prepare
<1>3. bad \subseteq C /\ late \subseteq C /\ (bad = {} => late = {})
  OBVIOUS
<1>4. \A c \in Case : /\ c \in late => done[c] = Result("skipped", None)
                      /\ c \in bad \ late => done[c] = Result("failed", None)
                      /\ c \notin bad \cup late => done[c] = results[c]
  OBVIOUS
<1> HIDE DEF bad, late, done, D
<1>5. Stage' = Stage /\ StageCases' = StageCases
  BY <1>2, SameStage
<1>6. Resumed' = Resumed
  <2>1. \A r \in RunId : r # runs => manifests'[r] = manifests[r]
    BY <1>1, <1>2 DEF Write, RunTypes
  <2> QED
    BY <1>1, <1>2, <2>1, ResumedSame
<1>7. StageAdvances /\ InTurn
  BY <1>1, <1>2, InTurnElsewhere
<1>8. StageHeld'
  <2>1. \A c \in wave' \ (prepared' \cup running') : results'[c].status # "none"
    BY <1>1, <1>2, <1>3, <1>4 DEF Result
  <2> QED
    BY <1>2, <1>5, <1>6, <2>1 DEF StageHeld
<1>9. FailureShown'
  <2>1. exitCode' = 0 => \A c \in Case : results'[c].status \notin {"failed", "skipped"}
    BY <1>1, <1>2, <1>3, <1>4 DEF FailureShown, Failed
  <2> QED
    BY <1>2, <2>1 DEF FailureShown, Failed
<1>10. LeasesHeld'
  BY <1>1, <1>2 DEF LeasesHeld
<1> QED
  BY <1>7, <1>8, <1>9, <1>10 DEF Stands

\* The beginning of a stage.
LEMMA EnterStageStands == ASSUME RunInv, ResumeInv, EnterStage PROVE Stands
<1> USE DEF EnterStage
<1>1. /\ RunTypes /\ WorkRight /\ pc # "idle" /\ at \in Int /\ prepared = {} /\ running = {}
      /\ FailureShown /\ LeasesHeld
  BY ProjectAssumption DEF RunInv, ResumeInv, WorkRight, RunTypes
<1>2. CASE Stage.policy \in {"parallel", "external"}
  <2> DEFINE C == StageCases \ Resumed
  <2>1. C \subseteq StageCases /\ Prepare(C) /\ C = StageCases \ Resumed
    BY <1>2
  <2> HIDE DEF C
  <2> QED
    BY <1>1, <1>2, <2>1, PrepareStands
<1>3. CASE Stage.policy \in {"serial", "dag"}
  <2>1. /\ UNCHANGED <<plan, runs, prior, manifests, leases, at, results, running, exitCode, holds>>
        /\ \/ pc' = "serial" /\ prepared' = StageCases
           \/ pc' = "dag"
    BY <1>3
  <2>2. Stage' = Stage /\ StageCases' = StageCases
    BY <2>1, SameStage
  <2>3. StageAdvances /\ InTurn
    BY <1>1, <2>1 DEF StageAdvances, InTurn
  <2>4. StageHeld'
    BY <2>1, <2>2 DEF StageHeld
  <2>5. FailureShown' /\ LeasesHeld'
    BY <1>1, <2>1 DEF FailureShown, Failed, LeasesHeld
  <2> QED
    BY <2>3, <2>4, <2>5 DEF Stands
<1> QED
  BY <1>2, <1>3

\* A launch, whichever it is ...
LEMMA LaunchStands ==
    ASSUME RunInv, ResumeInv, CanLaunch, NEW h, NEW t, Launched(h, t), Resumed' = Resumed,
           leases' \subseteq leases \/ (h = runs /\ leases' = leases \cup {<<runs, Current>>}),
           pc' \in {"parallel", "record"}
    PROVE  Stands
<1> USE DEF CanLaunch, Launched
<1>1. /\ RunTypes /\ WorkRight /\ pc # "idle" /\ Stage.policy # "serial" /\ runs \in RunId
      /\ StageHeld /\ FailureShown /\ LeasesHeld /\ Current \in Case /\ Current \notin running
  BY ParallelFacts, CurrentFacts DEF ResumeInv
<1>2. Stage' = Stage /\ StageCases' = StageCases
  BY SameStage
<1>3. StageAdvances /\ InTurn
  BY <1>1, InTurnElsewhere
<1>4. StageHeld'
  <2>1. prepared' \cup running' = prepared \cup running
    BY CurrentFacts
  <2> QED
    BY <1>1, <1>2, <2>1 DEF StageHeld
<1>5. FailureShown'
  BY <1>1 DEF FailureShown, Failed
<1>6. LeasesHeld'
  <2>1. holds'[Current] = h /\ \A c \in Case \ {Current} : holds'[c] = holds[c]
    BY <1>1 DEF RunTypes
  <2>2. \A e \in leases' : e[1] <= runs
    BY <1>1, ProjectAssumption DEF LeasesHeld, RunId
  <2>3. ASSUME NEW c \in Case, <<runs, c>> \in leases' PROVE c \in running' /\ holds'[c] = runs
    <3>1. CASE <<runs, c>> \in leases
      <4>1. c \in running /\ holds[c] = runs
        BY <1>1, <3>1 DEF LeasesHeld
      <4> QED
        BY <1>1, <2>1, <4>1
    <3>2. CASE h = runs /\ c = Current
      BY <2>1, <3>2
    <3> QED
      BY <2>3, <3>1, <3>2
  <2> QED
    BY <2>2, <2>3 DEF LeasesHeld
<1> QED
  BY <1>3, <1>4, <1>5, <1>6 DEF Stands

\* ... and the three that there are.
LEMMA LaunchersStand ==
    ASSUME RunInv, ResumeInv, LaunchProcess \/ SubmitExternal \/ ReconcileAdopts, Retains
    PROVE  Stands
<1>1. Resumed' = Resumed
  BY InvBase, RetainsBase
<1>2. CASE LaunchProcess
  BY <1>1, <1>2, LaunchStands DEF LaunchProcess, CanLaunch
<1>3. CASE SubmitExternal
  BY <1>1, <1>3, LaunchStands DEF SubmitExternal
<1>4. CASE ReconcileAdopts
  BY <1>1, <1>4, LaunchStands DEF ReconcileAdopts, CanLaunch
<1> QED
  BY <1>2, <1>3, <1>4

\* The link to a submitted task.
LEMMA RecordSubmittedStands ==
    ASSUME RunInv, ResumeInv, RecordSubmitted, Retains PROVE Stands
<1> USE DEF RecordSubmitted
<1>1. /\ RunTypes /\ pc # "idle" /\ Stage.policy # "serial"
      /\ StageHeld /\ FailureShown /\ LeasesHeld /\ Resumed' = Resumed
  BY ParallelFacts, RetainsBase DEF ResumeInv
<1>2. Stage' = Stage /\ StageCases' = StageCases
  BY SameStage
<1>3. StageAdvances /\ InTurn
  BY <1>1, InTurnElsewhere
<1>4. StageHeld' /\ FailureShown' /\ LeasesHeld'
  BY <1>1, <1>2 DEF StageHeld, FailureShown, Failed, LeasesHeld
<1> QED
  BY <1>3, <1>4 DEF Stands

\* A Case gets its result, and is neither prepared nor running any more.
LEMMA WorkStands ==
    ASSUME RunInv, ResumeInv, Resumed' = Resumed, pc = "parallel", pc' = "parallel", NEW c \in Case,
           NEW res, res.status # "none", results' = [results EXCEPT ![c] = res],
           prepared' = prepared \ {c}, running' = running \ {c},
           exitCode' = IF res.status \in Ok THEN exitCode ELSE 1,
           leases' = leases \ {<<holds[c], c>>}, \A d \in Case \ {c} : holds'[d] = holds[d],
           UNCHANGED <<plan, runs, at, wave>>
    PROVE  Stands
<1>1. /\ RunTypes /\ WorkRight /\ Stage.policy # "serial"
      /\ StageHeld /\ FailureShown /\ LeasesHeld /\ wave \subseteq Case
  BY ParallelFacts DEF ResumeInv, RunTypes
<1>2. Stage' = Stage /\ StageCases' = StageCases
  BY SameStage
<1>3. StageAdvances /\ InTurn
  BY <1>1, InTurnElsewhere
<1>4. results'[c] = res /\ \A d \in Case \ {c} : results'[d] = results[d]
  BY <1>1 DEF RunTypes
<1>5. StageHeld'
  BY <1>1, <1>2, <1>4 DEF StageHeld
<1>6. FailureShown'
  BY <1>1, <1>4 DEF FailureShown, Failed, Ok
<1>7. LeasesHeld'
  <2>1. ASSUME NEW d \in Case, <<runs, d>> \in leases' PROVE d \in running' /\ holds'[d] = runs
    <3>1. d \in running /\ holds[d] = runs
      BY <1>1, <2>1 DEF LeasesHeld
    <3>2. d # c
      BY <2>1, <3>1
    <3> QED
      BY <3>1, <3>2
  <2> QED
    BY <1>1, <2>1 DEF LeasesHeld
<1> QED
  BY <1>3, <1>5, <1>6, <1>7 DEF Stands

\* A lease that is refused.
LEMMA LaunchRefusedStands == ASSUME RunInv, ResumeInv, LaunchRefused, Retains PROVE Stands
<1> USE DEF LaunchRefused, CanLaunch
<1>1. /\ Current \in Case /\ RunTypes /\ Resumed' = Resumed /\ LeasesHeld
  BY CurrentFacts, ParallelFacts, RetainsBase DEF ResumeInv
<1>2. <<holds[Current], Current>> \notin leases \/ holds[Current] # runs
  BY <1>1 DEF LeasesHeld
<1>3. Stage.policy # "serial" /\ StageHeld /\ FailureShown /\ wave \subseteq Case
  BY ParallelFacts DEF ResumeInv, RunTypes
<1>4. Stage' = Stage /\ StageCases' = StageCases
  BY SameStage
<1>5. StageAdvances /\ InTurn
  BY <1>1, <1>3, InTurnElsewhere
<1>6. /\ results'[Current].status = "failed"
      /\ \A d \in Case \ {Current} : results'[d] = results[d]
  BY <1>1 DEF RunTypes, Result
<1>7. StageHeld' /\ FailureShown'
  BY <1>1, <1>3, <1>4, <1>6 DEF StageHeld, FailureShown, Failed
<1>8. LeasesHeld'
  BY <1>1 DEF LeasesHeld
<1> QED
  BY <1>5, <1>7, <1>8 DEF Stands

\* An item is collected ...
LEMMA CollectedStands ==
    ASSUME RunInv, ResumeInv, Retains, pc = "parallel", NEW c \in running, NEW res, NEW m,
           res.status # "none", Collected(c, res, m)
    PROVE  Stands
<1> USE DEF Collected
<1>1. c \in Case /\ c \notin prepared /\ RunTypes /\ Resumed' = Resumed
  BY RunningFacts, ParallelFacts, RetainsBase
<1>2. prepared' = prepared \ {c} /\ \A d \in Case \ {c} : holds'[d] = holds[d]
  BY <1>1 DEF RunTypes
<1> QED
  BY <1>1, <1>2, WorkStands

\* ... from a worker process or the broker.
LEMMA CollectsStand ==
    ASSUME RunInv, ResumeInv, Retains, NEW c \in running, CollectProcess(c) \/ CollectExternal(c)
    PROVE  Stands
<1>1. /\ \A a : Result("succeeded", a).status # "none" /\ Result("resumed", a).status # "none"
      /\ Result("failed", None).status # "none"
  BY DEF Result
<1>2. CASE CollectProcess(c)
  <2>1. PICK res \in {Result("succeeded", <<runs, c>>), Result("failed", None)} :
            Collected(c, res, Manifest)
    BY <1>2 DEF CollectProcess
  <2>2. pc = "parallel" /\ res.status # "none"
    BY <1>1, <1>2, <2>1 DEF CollectProcess
  <2> QED
    BY <2>1, <2>2, CollectedStands
<1>3. CASE CollectExternal(c)
  <2>1. PICK res \in {Result("succeeded", <<awaits[c], c>>), Result("resumed", <<awaits[c], c>>),
                      Result("failed", None)} :
            Collected(c, res, RecordExternalTask(Manifest, c, awaits[c]))
    BY <1>3 DEF CollectExternal
  <2>2. pc = "parallel" /\ res.status # "none"
    BY <1>1, <1>3, <2>1 DEF CollectExternal
  <2> QED
    BY <2>1, <2>2, CollectedStands
<1> QED
  BY <1>2, <1>3

\* Cases are skipped together.
LEMMA SkipStands ==
    ASSUME RunInv, ResumeInv, Retains, pc \in {"parallel", "dag"}, pc' = pc, at <= Len(plan),
           Stage.policy # "serial", NEW C, C \subseteq Case,
           results' = [c \in Case |-> IF c \in C THEN Result("skipped", None) ELSE results[c]],
           prepared' = prepared \ C, exitCode' = 1,
           UNCHANGED <<plan, runs, at, wave, running, leases, holds>>
    PROVE  Stands
<1>1. /\ RunTypes /\ StageHeld /\ FailureShown /\ LeasesHeld /\ wave \subseteq Case /\ Resumed' = Resumed
  BY InvBase, RetainsBase DEF RunInv, ResumeInv, RunTypes
<1>2. Stage' = Stage /\ StageCases' = StageCases
  BY SameStage
<1>3. StageAdvances /\ InTurn
  BY <1>1, InTurnElsewhere
<1>4. \A c \in Case : results[c].status # "none" \/ c \in C => results'[c].status # "none"
  BY DEF Result
<1>5. StageHeld'
  <2>1. pc = "parallel" => \A c \in wave \ (prepared' \cup running) : results'[c].status # "none"
    BY <1>1, <1>4 DEF StageHeld
  <2> QED
    BY <1>1, <1>2, <2>1 DEF StageHeld
<1>6. FailureShown' /\ LeasesHeld'
  BY <1>1 DEF FailureShown, LeasesHeld
<1> QED
  BY <1>3, <1>5, <1>6 DEF Stands

\* ... of those that fail_fast kept from starting ...
LEMMA SkipLeftoversStands == ASSUME RunInv, ResumeInv, Retains, SkipLeftovers PROVE Stands
<1> DEFINE C == prepared
<1>1. /\ at <= Len(plan) /\ Stage.policy # "serial" /\ C \subseteq Case /\ pc = "parallel" /\ pc' = pc
      /\ results' = [c \in Case |-> IF c \in C THEN Result("skipped", None) ELSE results[c]]
      /\ prepared' = prepared \ C /\ exitCode' = 1
      /\ UNCHANGED <<plan, runs, at, wave, running, leases, holds>>
  BY ParallelFacts DEF SkipLeftovers, RunTypes
<1> HIDE DEF C
<1> QED
  BY <1>1, SkipStands

\* ... and of Cases of a DAG.
LEMMA DagSkipsStand ==
    ASSUME RunInv, ResumeInv, Retains, DagBlocked \/ DagFailFast PROVE Stands
<1>1. PICK C : DagSkip(C) /\ C \subseteq Pending /\ pc = "dag"
  BY DagFacts DEF DagBlocked, DagFailFast
<1>2. /\ at <= Len(plan) /\ Stage.policy # "serial" /\ C \subseteq Case /\ prepared = {}
  BY <1>1, DagFacts
<1> QED
  BY <1>1, <1>2, SkipStands DEF DagSkip

\* The next wave of a DAG.
LEMMA DagWaveStands == ASSUME RunInv, ResumeInv, DagWave PROVE Stands
<1> DEFINE C == DagReady
<1>1. /\ pc = "dag" /\ Prepare(C) /\ at <= Len(plan) /\ running = {} /\ Stage.policy = "dag"
      /\ C \subseteq StageCases
  BY DagFacts DEF DagWave
<1> HIDE DEF C
<1> QED
  BY <1>1, PrepareStands

\* The end of a wave.
LEMMA EndWaveStands == ASSUME RunInv, ResumeInv, Retains, EndWave PROVE Stands
<1> USE DEF EndWave, WaveDone
<1>1. /\ RunTypes /\ FailureShown /\ LeasesHeld
  BY DEF RunInv, ResumeInv
<1>2. StageAdvances /\ InTurn
  BY <1>1, InTurnElsewhere
<1>3. StageHeld' /\ FailureShown' /\ LeasesHeld'
  BY <1>1 DEF StageHeld, FailureShown, Failed, LeasesHeld
<1> QED
  BY <1>2, <1>3 DEF Stands

\* The end of a stage that is not serial.
LEMMA EndStageStands ==
    ASSUME RunInv, ResumeInv, Retains, EndParallel \/ EndDag PROVE Stands
<1>1. /\ EndStage /\ pc \in {"parallel", "dag"} /\ running = {} /\ Stage.policy # "serial"
      /\ at <= Len(plan)
  BY ParallelFacts, DagFacts DEF EndParallel, EndDag, WaveDone
<1>2. /\ RunTypes /\ WorkRight /\ StageHeld /\ FailureShown /\ LeasesHeld /\ ResumedKept
      /\ StageCases \subseteq Case /\ Resumed' = Resumed /\ Resumed \subseteq Case
  BY <1>1, InvBase, StageHere, RetainsBase DEF RunInv, ResumeInv, Resumed, Successful
<1>3. \A c \in StageCases \ Resumed : results[c].status # "none"
  <2>1. CASE EndParallel
    BY <1>2, <2>1 DEF EndParallel, WaveDone, StageHeld
  <2>2. CASE EndDag
    BY <2>2 DEF EndDag, Pending
  <2> QED
    BY <2>1, <2>2
<1>4. ASSUME NEW c \in Case
      PROVE  \/ results'[c] = results[c] /\ ~(c \in StageCases \cap Resumed /\ results[c].status = "none")
             \/ c \in StageCases \cap Resumed /\ results'[c].status = "resumed" /\ results[c].status = "none"
  BY <1>1 DEF EndStage, WithResumed, Result
<1>5. \A c \in StageCases : results'[c].status # "none"
  BY <1>2, <1>3, <1>4
<1>6. \A c \in Case : results'[c].status \in {"failed", "skipped"} => Failed(c)
  BY <1>4 DEF Failed
<1>7. StageAdvances
  <2>1. ASSUME NEW c \in StageCases, Stage.failFast, pc' # "finish" PROVE results'[c].status \in Ok
    <3>1. ~StageFailed
      BY <1>1, <2>1 DEF EndStage, GoOn
    <3>2. results'[c].status \in Outcome
      BY <1>2, <1>4 DEF RunTypes, ResultType, Outcome
    <3> QED
      BY <1>2, <1>5, <1>6, <3>1, <3>2 DEF StageFailed, Outcome, Ok
  <2> QED
    BY <1>5, <2>1 DEF StageAdvances
<1>8. InTurn
  BY <1>1 DEF InTurn
<1>9. StageHeld'
  BY <1>1 DEF StageHeld, EndStage, GoOn
<1>10. FailureShown'
  <2>1. exitCode' = 0 => exitCode = 0
    BY <1>1 DEF EndStage
  <2>2. exitCode' = 0 => \A c \in Case : ~(results'[c].status \in {"failed", "skipped"})
    BY <1>1, <1>2, <1>6, <2>1 DEF FailureShown
  <2>3. ASSUME pc' = "finish" PROVE exitCode' # 0 /\ \A c \in Resumed : results'[c].status # "none"
    <3>1. StageFailed /\ Stage.failFast /\ exitCode' = 1
      BY <1>1, <2>3 DEF EndStage, GoOn
    <3>2. PICK d \in StageCases : Failed(d)
      BY <3>1 DEF StageFailed
    <3>3. d \notin Resumed
      BY <1>1, <1>2, <3>2, ResumedNotFailed
    <3>4. ASSUME NEW c \in Resumed, results'[c].status = "none" PROVE FALSE
      <4>1. results[c].status = "none"
        BY <1>2, <1>4, <3>4
      <4>2. c \in StageCases
        BY <1>1, <3>1, <3>3, <4>1, NothingMissed
      <4> QED
        BY <1>5, <3>4, <4>2
    <3> QED
      BY <3>1, <3>4
  <2> QED
    BY <1>2, <2>2, <2>3 DEF FailureShown, Failed
<1>11. LeasesHeld'
  BY <1>1, <1>2 DEF LeasesHeld, EndStage
<1> QED
  BY <1>1, <1>7, <1>8, <1>9, <1>10, <1>11 DEF Stands

-----------------------------------------------------------------------------
(* What the start and the end of a run leave.                              *)

\* ResumeInv holds at first.
LEMMA ResumableInit == ASSUME ProjectInit PROVE ResumeInv
<1> USE DEF ProjectInit
<1>1. \A r \in RunId : /\ manifests[r].cases = [c \in Case |-> NoRecord]
                       /\ manifests[r].status = "absent"
  OBVIOUS
<1>2. \A r \in RunId : Successful(r) = {}
  BY <1>1 DEF Successful, NoRecord, Ok
<1>3. RecordsComplete /\ ResumedKept /\ StagesBehind /\ StageHeld /\ FailureShown /\ ReachedNow
      /\ Unfinished /\ NamesRight /\ LeasesHeld
  BY DEF RecordsComplete, ResumedKept, StagesBehind, StageHeld, FailureShown, ReachedNow,
         Unfinished, NamesRight, LeasesHeld
<1>4. ReachedBefore
  BY <1>2 DEF ReachedBefore
<1>5. Accounted /\ FinishedResumable
  BY <1>1 DEF Accounted, FinishedResumable, Finished
<1> QED
  BY <1>3, <1>4, <1>5 DEF ResumeInv

\* What a run has when it finishes.
LEMMA AtTheEnd ==
    ASSUME RunInv, ResumeInv, pc = "finish" \/ (pc = "stage" /\ at > Len(plan))
    PROVE  /\ \A c \in Resumed : /\ Manifest.cases[c].status = "resumed"
                                 /\ Manifest.cases[c].ref = manifests[prior[runs]].cases[c].ref
           /\ exitCode = 0 => \A c \in Planned : Manifest.cases[c].status \in Ok
           /\ DistinctNames => OwnNames(runs)
<1>1. /\ RunTypes /\ runs \in RunId /\ RecordsComplete /\ ResumedKept /\ StagesBehind /\ FailureShown
      /\ ReachedBefore /\ NamesRight /\ pc # "idle"
  BY InvBase, HereFacts DEF RunInv, ResumeInv
<1>2. \A c \in Resumed : /\ c \in Case /\ prior[runs] # 0 /\ c \in Successful(prior[runs])
                         /\ prior[runs] \in RunId /\ c \in Planned
  <2>1. \A c \in Resumed : c \in Case /\ prior[runs] # 0 /\ c \in Successful(prior[runs])
    BY DEF Resumed, Successful
  <2>2. prior[runs] \in 0..MaxRuns
    BY <1>1 DEF RunTypes
  <2>3. prior[runs] # 0 => prior[runs] \in RunId
    BY <2>2, ProjectAssumption DEF RunId
  <2> QED
    BY <1>1, <2>1, <2>3 DEF ReachedBefore
<1>3. ASSUME pc = "stage", NEW c \in Planned PROVE c \in Case /\ results[c].status # "none"
  <2>1. c \in Case /\ \E i \in 1..Len(plan) : c \in ToSet(plan[i].cases)
    BY <1>1, PlannedFacts
  <2>2. \A i \in 1..Len(plan) : i < at
    BY <1>1, <1>3, ProjectAssumption DEF RunTypes
  <2> QED
    BY <1>1, <2>1, <2>2 DEF StagesBehind
<1>4. \A c \in Case : results[c].status # "none" =>
         Manifest.cases[c].status = results[c].status /\ Manifest.cases[c].ref = results[c].ref
  BY <1>1 DEF RecordsComplete
<1>5. ASSUME NEW c \in Resumed
      PROVE  /\ Manifest.cases[c].status = "resumed"
             /\ Manifest.cases[c].ref = manifests[prior[runs]].cases[c].ref
  <2>1. results[c].status # "none"
    <3>1. CASE pc = "finish"
      BY <1>1, <3>1 DEF FailureShown
    <3>2. CASE pc = "stage"
      BY <1>2, <1>3, <3>2
    <3> QED
      BY <3>1, <3>2
  <2>2. results[c].status = "resumed" /\ results[c].ref = manifests[prior[runs]].cases[c].ref
    BY <1>1, <2>1 DEF ResumedKept
  <2> QED
    BY <1>2, <1>4, <2>1, <2>2
<1>6. ASSUME exitCode = 0, NEW c \in Planned PROVE Manifest.cases[c].status \in Ok
  <2>1. pc = "stage"
    BY <1>1, <1>6 DEF FailureShown
  <2>2. c \in Case /\ results[c].status # "none"
    BY <1>3, <2>1
  <2>3. results[c].status \in Outcome /\ ~Failed(c)
    BY <1>1, <1>6, <2>2 DEF RunTypes, ResultType, FailureShown
  <2> QED
    BY <1>4, <2>2, <2>3 DEF Failed, Outcome, Ok
<1>7. ASSUME DistinctNames, NEW c \in Case PROVE Published(c) = Own(runs, c)
  <2>1. c \in Successful(runs) <=> Manifest.cases[c].status \in Ok
    BY <1>1, ProjectAssumption DEF Successful, Manifest, RunId
  <2>2. c \in Successful(runs) => c \in Planned
    BY <1>1 DEF ReachedBefore
  <2>3. CASE c \in Resumed
    BY <1>2, <1>5, <2>1, <2>3 DEF Published, Own, Manifest, Ok
  <2>4. CASE c \notin Resumed
    BY <2>1, <2>2, <2>4 DEF Published, Own, Manifest
  <2> QED
    BY <2>3, <2>4
<1>8. DistinctNames => OwnNames(runs)
  BY <1>1, <1>7 DEF NamesRight, OwnNames, Manifest
<1> QED
  BY <1>5, <1>6, <1>8

\* The process is gone; its run may have finished.
LEMMA GoneResumes ==
    ASSUME RunInv, RunInv', ResumeInv, ProcessGone, leases' = leases,
           NEW n \in RunId, n = runs \/ manifests'[n] = manifests[n],
           \A r \in RunId : manifests'[r].cases = manifests[r].cases,
           \A r \in RunId : r # n => manifests'[r] = manifests[r],
           manifests'[n] = manifests[n]
             \/ (/\ manifests'[n].status = "ok" =>
                      \A c \in Planned : manifests[n].cases[c].status \in Ok
                 /\ DistinctNames => Resumable(n)')
    PROVE  ResumeInv'
<1> USE DEF ProcessGone
<1>1. RunTypes /\ RunTypes' /\ RunOrder
  BY DEF RunInv
<1>2. (RecordsComplete /\ ResumedKept /\ StagesBehind /\ StageHeld /\ FailureShown /\ ReachedNow
      /\ Unfinished /\ NamesRight)'
  BY DEF RecordsComplete, ResumedKept, StagesBehind, StageHeld, FailureShown, ReachedNow,
         Unfinished, NamesRight
<1>3. LeasesHeld'
  BY DEF ResumeInv, LeasesHeld
<1>4. Planned' = Planned
  BY DEF Planned, Places, CaseAt
<1>5. ReachedBefore'
  <2>1. \A r \in RunId : Successful(r)' = Successful(r)
    BY DEF Successful
  <2>2. ReachedBefore
    BY DEF ResumeInv
  <2>3. plan' = plan
    OBVIOUS
  <2>4. \A i \in 1..Len(plan) : \A c, d \in Case :
            (Reached(i, c) /\ Past(i, c, d)) <=> (Reached(i, c) /\ Past(i, c, d))'
    BY <2>3 DEF Reached, Past, Position
  <2>5. ASSUME NEW r \in RunId
        PROVE  /\ \A i \in 1..Len(plan) : \A c, d \in Case : Reached(i, c) /\ Past(i, c, d) =>
                     (c \in Successful(r)' => d \in Successful(r)')
               /\ Successful(r)' \subseteq Planned
    BY <2>1, <2>2 DEF ReachedBefore
  <2> QED
    BY <1>4, <2>3, <2>4, <2>5 DEF ReachedBefore
<1>6. Accounted'
  <2>1. ASSUME NEW r \in RunId, manifests'[r].status = "ok", NEW c \in Planned
        PROVE  manifests'[r].cases[c].status \in Ok
    <3>1. CASE manifests'[r] = manifests[r]
      BY <2>1, <3>1 DEF ResumeInv, Accounted
    <3>2. CASE manifests'[r] # manifests[r]
      BY <2>1, <3>2
    <3> QED
      BY <3>1, <3>2
  <2> QED
    BY <1>4, <2>1 DEF Accounted
<1>7. DistinctNames' => FinishedResumable'
  <2> SUFFICES ASSUME DistinctNames PROVE FinishedResumable'
    BY DEF DistinctNames
  <2>1. ASSUME NEW r \in RunId, Finished(r)' PROVE Resumable(r)'
    <3>1. CASE manifests'[r] = manifests[r]
      <4>1. Resumable(r)
        BY <2>1, <3>1 DEF ResumeInv, FinishedResumable, Resumable, Finished
      <4>2. ASSUME prior[r] # 0 PROVE manifests'[prior[r]] = manifests[prior[r]]
        <5>1. prior[r] \in RunId
          BY <1>1, <4>2, ProjectAssumption DEF RunTypes, RunId
        <5>2. CASE prior[r] # n
          BY <5>1, <5>2
        <5>3. CASE prior[r] = n /\ manifests'[n] = manifests[n]
          BY <5>3
        <5>4. CASE prior[r] = n /\ n = runs
          <6>1. ~(r > runs)
            BY <1>1, <2>1, <3>1 DEF RunOrder, Finished
          <6>2. prior[r] < r /\ runs \in Int /\ r \in Int
            BY <1>1, ProjectAssumption DEF RunOrder, RunTypes, RunId
          <6> QED
            BY <5>4, <6>1, <6>2
        <5> QED
          BY <5>2, <5>3, <5>4
      <4> QED
        BY <1>1, <3>1, <4>1, <4>2, ResumableStays
    <3>2. CASE manifests'[r] # manifests[r]
      <4>1. r = n /\ manifests'[n] # manifests[n]
        BY <3>2
      <4>2. Resumable(n)'
        BY <4>1
      <4>3. \A s \in RunId : s = n => Resumable(s)' 
        BY <4>2
      <4> QED
        BY <4>1, <4>3
    <3> QED
      BY <3>1, <3>2
  <2> QED
    BY <1>6, <2>1 DEF FinishedResumable, Resumable
<1> QED
  BY <1>2, <1>3, <1>5, <1>6, <1>7 DEF ResumeInv

\* The end of a run: what it leaves can be resumed.
LEMMA FinishResumes == ASSUME RunInv, RunInv', ResumeInv, Finish PROVE ResumeInv'
<1>1. /\ ProcessGone /\ leases' = leases /\ pc # "idle"
      /\ pc = "finish" \/ (pc = "stage" /\ at > Len(plan))
  BY DEF Finish
<1>2. /\ RunTypes /\ RunTypes' /\ RunOrder /\ runs \in RunId /\ Manifest \in ManifestType
      /\ plan' = plan /\ prior' = prior /\ runs' = runs
  BY <1>1, InvBase, HereFacts DEF RunInv, ProcessGone
<1>3. PICK closed \in BOOLEAN :
          Write([Manifest EXCEPT !.status = IF closed /\ exitCode = 0 THEN "ok" ELSE "failed"])
  BY DEF Finish
<1> DEFINE m == [Manifest EXCEPT !.status = IF closed /\ exitCode = 0 THEN "ok" ELSE "failed"]
<1>4. m \in ManifestType /\ m.cases = Manifest.cases /\ m.registry = Manifest.registry
      /\ (m.status = "ok" => exitCode = 0)
  BY <1>2 DEF ManifestType
<1> HIDE DEF m
<1>5. manifests' = [manifests EXCEPT ![runs] = m]
  BY <1>3 DEF Write, m
<1>6. /\ manifests'[runs] = m
      /\ \A r \in RunId : r # runs => manifests'[r] = manifests[r]
      /\ \A r \in RunId : manifests'[r].cases = manifests[r].cases
  BY <1>2, <1>4, <1>5 DEF RunTypes, Manifest
<1>7. /\ \A c \in Resumed : /\ Manifest.cases[c].status = "resumed"
                            /\ Manifest.cases[c].ref = manifests[prior[runs]].cases[c].ref
      /\ exitCode = 0 => \A c \in Planned : Manifest.cases[c].status \in Ok
      /\ DistinctNames => OwnNames(runs)
  BY <1>1, AtTheEnd
<1>8. manifests'[runs].status = "ok" => \A c \in Planned : manifests[runs].cases[c].status \in Ok
  BY <1>4, <1>6, <1>7 DEF Manifest
<1>9. ASSUME DistinctNames PROVE Resumable(runs)'
  <2>1. Successful(runs)' = Successful(runs) /\ Planned' = Planned
    <3>1. Planned' = Planned
      BY <1>2 DEF Planned, Places, CaseAt
    <3>2. \A r \in RunId : Successful(r)' = Successful(r)
      BY <1>6 DEF Successful
    <3>3. Successful(runs') = Successful(runs)
      BY <1>2
    <3>4. \A r \in RunId : r = runs' => Successful(r)' = Successful(runs)'
      BY DEF Successful
    <3> QED
      BY <1>2, <3>1, <3>2, <3>4
  <2>2. \A c \in Case : manifests'[runs].cases[c] = manifests[runs].cases[c]
    BY <1>2, <1>6
  <2>3. ASSUME NEW c \in Case
        PROVE  manifests'[runs].registry[c] = Own(runs, c)'
               /\ manifests'[runs].registry[ArtifactOf[c]] = Own(runs, c)'
    <3>1. Own(runs, c) = IF c \in Successful(runs) /\ c \in Planned
                         THEN manifests[runs].cases[c].ref ELSE None
      BY DEF Own
    <3>2. Own(runs, c)' = IF c \in Successful(runs)' /\ c \in Planned'
                          THEN manifests'[runs].cases[c].ref ELSE None
      BY <1>2 DEF Own
    <3>3. Own(runs, c)' = Own(runs, c)
      BY <2>1, <2>2, <3>1, <3>2
    <3>4. manifests[runs].registry[c] = Own(runs, c)
          /\ manifests[runs].registry[ArtifactOf[c]] = Own(runs, c)
      BY <1>7, <1>9 DEF OwnNames
    <3> QED
      BY <1>4, <1>6, <3>3, <3>4 DEF Manifest
  <2>5. OwnNames(runs)'
    BY <1>2, <2>3 DEF OwnNames
  <2>6. (\A r \in RunId : Acceptable(r) <=> OwnNames(r))'
    BY <1>2, <1>9, AcceptableIsOwnAfter DEF DistinctNames
  <2>7. Acceptable(runs)'
    BY <1>2, <2>5, <2>6
  <2>8. prior[runs] # 0 => prior[runs] \in RunId /\ prior[runs] # runs
    BY <1>2, ProjectAssumption DEF RunTypes, RunOrder, RunId
  <2>9. prior[runs] # 0 => manifests'[prior[runs]] = manifests[prior[runs]]
    BY <1>6, <2>8
  <2>10. Successful(prior[runs])' = Successful(prior[runs])
    BY <1>2, <2>9 DEF Successful
  <2>11. Successful(prior[runs]) # {} => prior[runs] # 0
    BY DEF Successful
  <2>12. \A c \in Successful(prior[runs]) :
            /\ manifests'[runs].cases[c].status = "resumed"
            /\ manifests'[runs].cases[c].ref = manifests'[prior[runs]].cases[c].ref
    BY <1>6, <1>7, <2>9, <2>11, <1>2 DEF Manifest, Resumed
  <2> QED
    BY <1>2, <2>7, <2>10, <2>12 DEF Resumable
<1> QED
  BY <1>1, <1>2, <1>6, <1>8, <1>9, GoneResumes

\* The process dies: its manifest stays as it was.
LEMMA DiesResumes == ASSUME RunInv, RunInv', ResumeInv, ReconcileAborts \/ Crash PROVE ResumeInv'
<1>1. ProcessGone /\ manifests' = manifests /\ leases' = leases /\ pc # "idle"
  BY DEF ReconcileAborts, Crash, CanLaunch
<1>2. runs \in RunId
  BY <1>1, InvBase, HereFacts DEF RunInv
<1> QED
  BY <1>1, <1>2, GoneResumes

\* A step that leaves the run alone.
LEMMA OutsideResumes ==
    ASSUME RunInv, RunInv', ResumeInv, leases' \subseteq leases,
           UNCHANGED <<plan, runs, prior, manifests, processVars>>
    PROVE  ResumeInv'
<1>1. RunTypes /\ RunTypes'
  BY DEF RunInv
<1>2. /\ plan' = plan /\ runs' = runs /\ prior' = prior /\ manifests' = manifests /\ pc' = pc
      /\ at' = at /\ results' = results /\ registry' = registry /\ prepared' = prepared
      /\ wave' = wave /\ running' = running /\ exitCode' = exitCode /\ holds' = holds
  BY DEF processVars
<1>3. Resumed' = Resumed /\ Stage' = Stage /\ StageCases' = StageCases /\ Planned' = Planned
      /\ Manifest' = Manifest
  BY <1>2 DEF Resumed, Successful, StageCases, Stage, Planned, Places, CaseAt, Manifest
<1>4. RecordsComplete' /\ ResumedKept' /\ StagesBehind' /\ Unfinished'
  BY <1>2, <1>3 DEF ResumeInv, RecordsComplete, ResumedKept, StagesBehind, Unfinished
<1>5. StageHeld' /\ FailureShown'
  BY <1>2, <1>3 DEF ResumeInv, StageHeld, FailureShown, Failed
<1>6. \A i \in 1..Len(plan) : \A c, d \in Case :
          (Reached(i, c) /\ Past(i, c, d)) <=> (Reached(i, c) /\ Past(i, c, d))'
  BY <1>2 DEF Reached, Past, Position
<1>7. ReachedNow'
  BY <1>2, <1>6 DEF ResumeInv, ReachedNow
<1>8. ReachedBefore'
  <2>1. \A r \in RunId : Successful(r)' = Successful(r)
    BY <1>2 DEF Successful
  <2> QED
    BY <1>2, <1>3, <1>6, <2>1 DEF ResumeInv, ReachedBefore
<1>9. LeasesHeld'
  BY <1>2 DEF ResumeInv, LeasesHeld
<1>10. NamesRight'
  BY <1>2, <1>3 DEF ResumeInv, NamesRight, Published, DistinctNames
<1>11. Accounted'
  <2>1. Accounted
    BY DEF ResumeInv
  <2>2. at' = at /\ plan' = plan /\ manifests' = manifests
    BY <1>2
  <2>3. \A r \in RunId : manifests'[r].status = "ok" =>
            \A c \in Planned' : manifests'[r].cases[c].status \in Ok
    BY <1>2, <1>3, <2>1 DEF Accounted
  <2>4. pc' = "stage" => \A i \in 1..(at' - 1) : \A c \in ToSet(plan'[i].cases) :
            Manifest'.cases[c].status \in Ok \cup {"failed", "skipped"}
    <3> HIDE DEF processVars
    <3> QED
      BY <1>2, <1>3, <2>1 DEF Accounted
  <2>5. pc' \in {"stage", "finish"} =>
            running' = {} /\ \A c \in Case : <<runs', c>> \notin leases'
    BY <1>2, <2>1 DEF Accounted
  <2> QED
    BY <2>3, <2>4, <2>5 DEF Accounted
<1>12. DistinctNames' => FinishedResumable'
  <2> SUFFICES ASSUME DistinctNames PROVE FinishedResumable'
    BY DEF DistinctNames
  <2>1. ASSUME NEW r \in RunId, Finished(r)' PROVE Resumable(r)'
    <3>1. Resumable(r)
      BY <1>2, <2>1 DEF ResumeInv, FinishedResumable, Resumable, Finished
    <3> QED
      BY <1>1, <1>2, <3>1, ResumableStays
  <2> QED
    BY <1>11, <2>1 DEF FinishedResumable, Resumable
<1> QED
  BY <1>4, <1>5, <1>7, <1>8, <1>9, <1>10, <1>11, <1>12 DEF ResumeInv

\* A new run starts with what the run it resumes has.
LEMMA StartRunResumes ==
    ASSUME RunInv, RunInv', ResumeInv, NEW m \in 0..runs, StartRun(m) PROVE ResumeInv'
<1> DEFINE n == runs + 1
<1>1. /\ n \in RunId /\ (m # 0 => m \in RunId) /\ m < n /\ m \in 0..MaxRuns
      /\ n # 0 /\ runs < n /\ runs' = n /\ pc' = "stage" /\ at' = 1
      /\ results' = NoResults
      /\ \A r \in RunId : manifests'[r].cases = manifests[r].cases
      /\ \A r \in RunId : r # n => manifests'[r] = manifests[r]
      /\ manifests'[n].status = "running" /\ manifests'[n].registry = registry'
      /\ manifests'[n].cases = [c \in Case |-> NoRecord]
      /\ prior'[n] = m /\ \A r \in RunId : r # n => prior'[r] = prior[r]
  BY StartRunFacts
<1>2. /\ RunTypes /\ RunTypes' /\ RunOrder /\ runs \in Nat
      /\ registry' = IF m = 0 THEN EmptyRegistry ELSE Rebuilt(m)
      /\ prepared' = {} /\ wave' = {} /\ running' = {} /\ exitCode' = 0
      /\ plan' = plan /\ leases' = leases
  BY DEF RunInv, RunTypes, StartRun
<1> HIDE DEF n
<1>3. \A c \in Case : results'[c].status = "none" /\ manifests'[n].cases[c].status = "none"
  BY <1>1 DEF NoResults, NoRecord
<1>4. Planned' = Planned /\ \A r \in RunId : Successful(r)' = Successful(r)
  <2>1. plan' = plan
    BY <1>2
  <2>2. Planned' = Planned
    BY <2>1 DEF Planned, Places, CaseAt
  <2> QED
    BY <1>1, <2>2 DEF Successful
<1>5. \A c \in Resumed' : c \in Case
  BY DEF Resumed, Successful
<1>6. RecordsComplete' /\ ResumedKept'
  BY <1>1, <1>3, <1>5 DEF RecordsComplete, ResumedKept, Manifest
<1>7. StagesBehind'
  <2>1. \A i \in 1..Len(plan) : ~(i < at')
    BY <1>1
  <2> QED
    BY <1>2, <1>3, <2>1 DEF StagesBehind
<1>8. StageHeld' /\ FailureShown' /\ ReachedNow' /\ Unfinished'
  BY <1>1, <1>2, <1>3 DEF StageHeld, FailureShown, Failed, ReachedNow, Unfinished
<1>9. ReachedBefore'
  <2>1. \A i \in 1..Len(plan) : \A c, d \in Case :
            (Reached(i, c) /\ Past(i, c, d)) <=> (Reached(i, c) /\ Past(i, c, d))'
    BY <1>2 DEF Reached, Past, Position
  <2> QED
    BY <1>2, <1>4, <2>1 DEF ResumeInv, ReachedBefore
<1>10. \A e \in leases : e[1] <= runs
  BY DEF ResumeInv, LeasesHeld
<1>11. leases \subseteq RunId \X Case
  BY <1>2 DEF RunTypes
<1>12. \A c \in Case : <<n, c>> \notin leases
  <2>1. ASSUME NEW c \in Case, <<n, c>> \in leases PROVE FALSE
    <3>1. <<n, c>>[1] <= runs
      BY <1>10, <2>1
    <3> QED
      BY <1>1, <1>2, <3>1 DEF RunId
  <2> QED
    BY <2>1
<1>13. LeasesHeld'
  <2>1. \A e \in leases : e[1] <= n
    <3> TAKE e \in leases
    <3>1. e[1] \in Int /\ e[1] <= runs /\ n \in Int
      BY <1>1, <1>10, <1>11 DEF RunId
    <3> QED
      BY <1>1, <1>2, <3>1
  <2> QED
    BY <1>1, <1>2, <1>12, <2>1 DEF LeasesHeld
<1>14. NamesRight'
  <2> SUFFICES ASSUME DistinctNames, NEW c \in Case
               PROVE  /\ registry'[c] = Published(c)'
                      /\ registry'[ArtifactOf[c]] = Published(c)'
    BY <1>1 DEF NamesRight, DistinctNames, Manifest
  <2>1. Published(c)' = IF c \in Resumed' THEN manifests'[m].cases[c].ref ELSE None
    BY <1>1, <1>3 DEF Published, Manifest, Ok
  <2>2. CASE m = 0
    <3>1. c \notin Resumed'
      BY <1>1, <2>2 DEF Resumed, Successful
    <3>2. c \in Key /\ ArtifactOf[c] \in Key
      BY DEF Key
    <3> QED
      BY <1>2, <2>1, <2>2, <3>1, <3>2 DEF EmptyRegistry
  <2>3. CASE m # 0
    <3>1. m \in RunId /\ m # n /\ manifests'[m] = manifests[m]
      BY <1>1, <2>3 DEF RunId
    <3>2. registry'[c] = Own(m, c) /\ registry'[ArtifactOf[c]] = Own(m, c)
      BY <1>2, <2>3, <3>1, RebuiltOwn
    <3>3. c \in Resumed' <=> c \in Successful(m)
      BY <1>1, <2>3, <3>1 DEF Resumed, Successful
    <3>4. Successful(m) \subseteq Planned
      BY <3>1 DEF ResumeInv, ReachedBefore
    <3> QED
      BY <2>1, <3>1, <3>2, <3>3, <3>4 DEF Own
  <2> QED
    BY <2>2, <2>3
<1>15. Accounted'
  <2>1. ASSUME NEW r \in RunId, manifests'[r].status = "ok", NEW c \in Planned
        PROVE  manifests'[r].cases[c].status \in Ok
    <3>1. manifests'[r] = manifests[r]
      BY <1>1, <2>1
    <3> QED
      BY <2>1, <3>1 DEF ResumeInv, Accounted
  <2>2. 1..(at' - 1) = {}
    BY <1>1
  <2> QED
    BY <1>1, <1>2, <1>4, <1>12, <2>1, <2>2 DEF Accounted
<1>16. DistinctNames' => FinishedResumable'
  <2> SUFFICES ASSUME DistinctNames PROVE FinishedResumable'
    BY DEF DistinctNames
  <2>1. ASSUME NEW r \in RunId, Finished(r)' PROVE Resumable(r)'
    <3>1. r # n /\ manifests'[r] = manifests[r] /\ prior'[r] = prior[r]
      BY <1>1, <2>1 DEF Finished
    <3>2. Resumable(r) /\ Finished(r)
      BY <2>1, <3>1 DEF ResumeInv, FinishedResumable, Resumable, Finished
    <3>3. ~(r > runs)
      BY <1>2, <3>2 DEF RunOrder, Finished
    <3>4. prior[r] \in 0..MaxRuns /\ prior[r] < r /\ r \in Int
      <4>1. r \in Int
        BY DEF RunId
      <4> QED
        BY <1>2, <4>1 DEF RunTypes, RunOrder
    <3>5. prior[r] # n /\ (prior[r] # 0 => prior[r] \in RunId)
      <4>1. MaxRuns \in Nat /\ n \in Int /\ runs \in Int
        BY <1>1, <1>2, ProjectAssumption DEF RunId
      <4>2. prior[r] < r /\ r <= runs /\ runs < n
        BY <1>1, <1>2, <3>3, <3>4
      <4>3. prior[r] # n
        BY <3>4, <4>1, <4>2
      <4> QED
        BY <3>4, <4>1, <4>3 DEF RunId
    <3>6. prior[r] # 0 => manifests'[prior[r]] = manifests[prior[r]]
      BY <1>1, <3>5
    <3> QED
      BY <1>2, <3>1, <3>2, <3>6, ResumableStays
  <2> QED
    BY <1>15, <2>1 DEF FinishedResumable, Resumable
<1> QED
  BY <1>6, <1>7, <1>8, <1>9, <1>13, <1>14, <1>15, <1>16 DEF ResumeInv

\* Every step preserves ResumeInv.
LEMMA NextResumes ==
    ASSUME RunInv, RunInv', ResumeInv, [ProjectNext]_vars PROVE ResumeInv'
<1>1. CASE \E m \in 0..runs : StartRun(m)
  BY <1>1, StartRunResumes
<1>2. CASE EnterStage \/ SerialResumed \/ SerialStart \/ SerialRefused \/ SerialDone \/ SerialEnd
  <2>1. Retains
    BY <1>2, EnterStageKeeps, SerialResumedKeeps, SerialStartKeeps, SerialRefusedKeeps,
       SerialDoneKeeps, SerialEndKeeps
  <2>2. Stands
    BY <1>2, EnterStageStands, SerialResumedStands, SerialStartStands, SerialRefusedStands,
       SerialDoneStands, SerialEndStands
  <2> QED
    BY <2>1, <2>2, StandsKeeps
<1>3. CASE LaunchProcess \/ ReconcileAdopts \/ SubmitExternal \/ RecordSubmitted \/ LaunchRefused
           \/ SkipLeftovers
  <2>1. Retains
    BY <1>3, LaunchProcessKeeps, ReconcileAdoptsKeeps, SubmitExternalKeeps, RecordSubmittedKeeps,
       LaunchRefusedKeeps, SkipLeftoversKeeps
  <2>2. Stands
    BY <1>3, <2>1, LaunchersStand, RecordSubmittedStands, LaunchRefusedStands, SkipLeftoversStands
  <2> QED
    BY <2>1, <2>2, StandsKeeps
<1>4. CASE \E c \in running : CollectProcess(c) \/ CollectExternal(c)
  <2>1. PICK c \in running : CollectProcess(c) \/ CollectExternal(c)
    BY <1>4
  <2>2. Retains
    BY <2>1, CollectProcessKeeps, CollectExternalKeeps
  <2>3. Stands
    BY <2>1, <2>2, CollectsStand
  <2> QED
    BY <2>2, <2>3, StandsKeeps
<1>5. CASE EndParallel \/ EndWave \/ DagBlocked \/ DagFailFast \/ DagWave \/ EndDag
  <2>1. Retains
    BY <1>5, EndParallelKeeps, EndWaveKeeps, DagBlockedKeeps, DagFailFastKeeps, DagWaveKeeps,
       EndDagKeeps
  <2>2. Stands
    BY <1>5, <2>1, EndStageStands, EndWaveStands, DagSkipsStand, DagWaveStands
  <2> QED
    BY <2>1, <2>2, StandsKeeps
<1>6. CASE Finish \/ ReconcileAborts \/ Crash
  BY <1>6, FinishResumes, DiesResumes
<1>7. CASE \/ ReconcileCancels \/ CancelSiblings \/ WorkerStep
           \/ \E c \in running : QueueTimeout(c)
           \/ \E r \in RunId, c \in Case : Lapse(r, c)
  <2>1. leases' \subseteq leases /\ UNCHANGED <<plan, runs, prior, manifests, processVars>>
    BY <1>7 DEF ReconcileCancels, CancelSiblings, WorkerStep, WorkerClaims, WorkerReports,
       QueueTimeout, Lapse
  <2> QED
    BY <2>1, OutsideResumes
<1>8. CASE UNCHANGED vars
  <2>1. leases' \subseteq leases /\ UNCHANGED <<plan, runs, prior, manifests, processVars>>
    BY <1>8 DEF vars
  <2> QED
    BY <2>1, OutsideResumes
<1> QED
  BY <1>1, <1>2, <1>3, <1>4, <1>5, <1>6, <1>7, <1>8 DEF ProjectNext, CoordinatorStep

\* ResumeInv holds throughout.
THEOREM ResumeInvThm == ProjectSpec => []ResumeInv
<1>1. ProjectInit => ResumeInv
  BY ResumableInit
<1>2. RunInv /\ RunInv' /\ ResumeInv /\ [ProjectNext]_vars => ResumeInv'
  BY NextResumes
<1> QED
  BY <1>1, <1>2, RunInvThm, PTL DEF ProjectSpec

\* A run that finished ok has a success on record for every Case of its plan, stages
\* behind have their results, and what execute_project reaches at the end holds no lease.
THEOREM AccountedThm == ProjectSpec => []Accounted
<1>1. ResumeInv => Accounted
  BY DEF ResumeInv
<1> QED
  BY <1>1, ResumeInvThm, PTL

\* The property, for Projects in which no two Cases publish under one name: whatever
\* failed, was killed or skipped, a run that reached finish() passes the check of
\* _validated_resume_artifacts, and has kept every success, with its artifact, of the run
\* it had itself resumed.
THEOREM FinishedResumableThm == ProjectSpec => [](DistinctNames => FinishedResumable)
<1>1. ResumeInv => (DistinctNames => FinishedResumable)
  BY DEF ResumeInv
<1> QED
  BY <1>1, ResumeInvThm, PTL
=============================================================================
