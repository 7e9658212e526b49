--------------------------- MODULE PluginLifecycle ---------------------------
(***************************************************************************)
(* PluginManager: plugins are prepared for a restore, started, driven      *)
(* through generations and closed. A start hook may fail half way through  *)
(* the list, hooks may switch plugins on and off and register or remove    *)
(* them, also while the manager walks its list (a live one: the walk is an *)
(* index into it). A receipt of who really started decides who is closed.  *)
(*                                                                         *)
(* The run loop is the caller: it keeps the receipt of on_solver_init, and *)
(* that of begin_lifecycle for a generation, and closes what they name.    *)
(* Profiling, event hooks and the context dictionary are left out.         *)
(***************************************************************************)
EXTENDS Integers, Sequences, SequencesExt, FiniteSets

CONSTANTS
    Plugin,           \* plugins, as their priorities
    MaxGenerations,   \* bound: generations of a run
    MaxChanges        \* bound: registrations, removals and switches during a run

ASSUME PluginAssumption ==
    Plugin \subseteq Int /\ MaxGenerations \in Nat /\ MaxChanges \in Nat

VARIABLES
    plugins,        \* PluginManager.plugins
    enabled,        \* plugins whose enabled flag is set
    attachFailed,   \* plugins with _attach_failed
    strict,         \* PluginManager.strict, or plugin_strict of the solver
    stage,          \* what the run loop does
    walk,           \* index of the walk over plugins or over a receipt
    receipt,        \* participants of on_solver_init
    started,        \* participants of the current generation
    runOpen,        \* [Plugin -> inits completed minus finishes received]
    generationOpen, \* [Plugin -> generation starts minus generation ends]
    generation,     \* generations so far
    changes         \* changes so far

pluginVars == <<plugins, enabled, attachFailed, strict, stage, walk, receipt, started,
                runOpen, generationOpen, generation, changes>>

bookVars == <<receipt, started, runOpen, generationOpen, generation>>

ByPriority(S) == SetToSortSeq(S, LAMBDA p, q : p < q)

PluginInit ==
    /\ \E S \in SUBSET Plugin : plugins = ByPriority(S)
    /\ enabled = Plugin /\ attachFailed = {} /\ strict \in BOOLEAN
    /\ stage = "idle" /\ walk = 1
    /\ receipt = <<>> /\ started = <<>>
    /\ runOpen = [p \in Plugin |-> 0]
    /\ generationOpen = [p \in Plugin |-> 0]
    /\ generation = 0 /\ changes = 0

-----------------------------------------------------------------------------
(* Registration, at any time.                                              *)

Registered == ToSet(plugins)

Changes ==
    /\ changes < MaxChanges /\ changes' = changes + 1
    /\ UNCHANGED <<attachFailed, strict, stage, walk>>
    /\ UNCHANGED bookVars

\* register sorts the list in place, undoing an explicit order.
RegisterPlugin(p) ==
    /\ p \notin Registered
    /\ plugins' = ByPriority(Registered \cup {p})
    /\ Changes /\ UNCHANGED enabled

UnregisterPlugin(p) ==
    /\ p \in Registered
    /\ plugins' = Remove(plugins, p)
    /\ Changes /\ UNCHANGED enabled

SwitchPlugin(p) ==
    /\ enabled' = IF p \in enabled THEN enabled \ {p} ELSE enabled \cup {p}
    /\ Changes /\ UNCHANGED plugins

\* set_execution_order: the named plugins first, the others as they were.
\* (Between walks only: a walk goes on over the list it began with.)
SetExecutionOrder(first) ==
    /\ stage \in {"idle", "running"} /\ first \subseteq Registered
    /\ plugins' = SelectSeq(plugins, LAMBDA p : p \in first)
                  \o SelectSeq(plugins, LAMBDA p : p \notin first)
    /\ Changes /\ UNCHANGED enabled

-----------------------------------------------------------------------------
(* Walks over the plugins.                                                 *)

Eligible(p) == p \in enabled /\ p \notin attachFailed

Walking(where) == stage = where /\ walk <= Len(plugins)
Visited == plugins[walk]
Step == walk' = walk + 1 /\ UNCHANGED stage
GoTo(where) == walk' = 1 /\ stage' = where

\* A disabled plugin, or one that could not be attached, is passed over.
SkipPlugin ==
    /\ \E where \in {"restore", "init", "generationStart"} : Walking(where)
    /\ ~Eligible(Visited)
    /\ Step
    /\ UNCHANGED <<plugins, enabled, attachFailed, strict, changes>>
    /\ UNCHANGED bookVars

\* attach raises: the plugin is out for good; strict mode raises too.
AttachFails ==
    /\ \E where \in {"restore", "init"} : Walking(where)
    /\ Eligible(Visited)
    /\ attachFailed' = attachFailed \cup {Visited}
    /\ \/ ~strict /\ Step
       \/ strict /\ stage = "restore" /\ GoTo("over")
       \/ strict /\ stage = "init" /\ GoTo("finish")
    /\ UNCHANGED <<plugins, enabled, strict, changes>>
    /\ UNCHANGED bookVars

StartRestore ==
    /\ stage = "idle"
    /\ GoTo("restore")
    /\ UNCHANGED <<plugins, enabled, attachFailed, strict, changes>>
    /\ UNCHANGED bookVars

\* prepare_restore of one plugin, which may raise.
PrepareRestore ==
    /\ Walking("restore") /\ Eligible(Visited)
    /\ Step \/ GoTo("over")
    /\ UNCHANGED <<plugins, enabled, attachFailed, strict, changes>>
    /\ UNCHANGED bookVars

\* on_solver_init of one plugin: it enters the receipt when it has completed.
InitCompletes ==
    /\ Walking("init") /\ Eligible(Visited)
    /\ receipt' = Append(receipt, Visited)
    /\ runOpen' = [runOpen EXCEPT ![Visited] = @ + 1]
    /\ Step
    /\ UNCHANGED <<plugins, enabled, attachFailed, strict, changes, started, generationOpen,
                   generation>>

\* It raises: strict mode (or a strict plugin) ends the start with the partial
\* receipt, otherwise the walk goes on.
InitFails ==
    /\ Walking("init") /\ Eligible(Visited)
    /\ GoTo("finish") \/ (~strict /\ Step)
    /\ UNCHANGED <<plugins, enabled, attachFailed, strict, changes>>
    /\ UNCHANGED bookVars

GenerationStarts ==
    /\ Walking("generationStart") /\ Eligible(Visited)
    /\ started' = Append(started, Visited)
    /\ generationOpen' = [generationOpen EXCEPT ![Visited] = @ + 1]
    /\ Step
    /\ UNCHANGED <<plugins, enabled, attachFailed, strict, changes, receipt, runOpen,
                   generation>>

GenerationStartFails ==
    /\ Walking("generationStart") /\ Eligible(Visited)
    /\ IF strict THEN GoTo("generationEnd") ELSE Step
    /\ UNCHANGED <<plugins, enabled, attachFailed, strict, changes>>
    /\ UNCHANGED bookVars

\* A walk is through its list.
WalkEnds ==
    /\ stage \in {"restore", "init", "generationStart"} /\ walk > Len(plugins)
    /\ GoTo(CASE stage = "restore" -> "init"
              [] stage = "init" -> "running"
              [] OTHER -> "generationEnd")
    /\ UNCHANGED <<plugins, enabled, attachFailed, strict, changes>>
    /\ UNCHANGED bookVars

-----------------------------------------------------------------------------
(* The run loop.                                                           *)

BeginGeneration ==
    /\ stage = "running" /\ generation < MaxGenerations
    /\ started' = <<>> /\ generation' = generation + 1
    /\ GoTo("generationStart")
    /\ UNCHANGED <<plugins, enabled, attachFailed, strict, changes, receipt, runOpen,
                   generationOpen>>

\* Mutant: those who are eligible now are closed.
ParticipantsNow(R) == SelectSeq(plugins, Eligible)

\* finish_lifecycle closes the participants of a receipt.
Participants(R) == R

\* One end hook; whether it raises makes no difference to the others.
EndGeneration ==
    LET R == Participants(started)
    IN  /\ stage = "generationEnd"
        /\ IF walk > Len(R) THEN GoTo("running") /\ UNCHANGED generationOpen
           ELSE Step /\ generationOpen' = [generationOpen EXCEPT ![R[walk]] = @ - 1]
        /\ UNCHANGED <<plugins, enabled, attachFailed, strict, changes, receipt, started,
                       runOpen, generation>>

\* The run ended, well or not: on_error or on_solver_finish for the receipt.
FinishRun ==
    /\ stage = "running"
    /\ GoTo("finish")
    /\ UNCHANGED <<plugins, enabled, attachFailed, strict, changes>>
    /\ UNCHANGED bookVars

FinishPlugin ==
    LET R == Participants(receipt)
    IN  /\ stage = "finish"
        /\ IF walk > Len(R) THEN GoTo("over") /\ UNCHANGED runOpen
           ELSE Step /\ runOpen' = [runOpen EXCEPT ![R[walk]] = @ - 1]
        /\ UNCHANGED <<plugins, enabled, attachFailed, strict, changes, receipt, started,
                       generationOpen, generation>>

PluginNext ==
    \/ \E p \in Plugin : RegisterPlugin(p) \/ UnregisterPlugin(p) \/ SwitchPlugin(p)
    \/ \E first \in SUBSET Plugin : SetExecutionOrder(first)
    \/ SkipPlugin \/ AttachFails \/ StartRestore \/ PrepareRestore
    \/ InitCompletes \/ InitFails \/ GenerationStarts \/ GenerationStartFails \/ WalkEnds
    \/ BeginGeneration \/ EndGeneration \/ FinishRun \/ FinishPlugin

PluginSpec == PluginInit /\ [][PluginNext]_pluginVars

-----------------------------------------------------------------------------
(* Properties *)

\* Starts and ends pair up: whoever completed on_solver_init or a generation
\* start gets the matching end exactly as often, and nobody else does, even
\* if a start failed half way or plugins were switched off, removed or moved
\* about in the meantime, by hooks in the middle of a walk too.
LifecyclePaired ==
    /\ \A p \in Plugin : runOpen[p] >= 0 /\ generationOpen[p] >= 0
    /\ stage = "over" => \A p \in Plugin : runOpen[p] = 0
    /\ stage # "generationStart" /\ stage # "generationEnd" =>
           \A p \in Plugin : generationOpen[p] = 0

=============================================================================
