----------------------------- MODULE MCProcess -----------------------------
(* Small instances for TLC of what the process of a Case works with: the    *)
(* views of its compute pool, the evidence journal, the snapshot stores,    *)
(* the plugins of its solver and the registry of evaluation providers. They *)
(* share no state; a behaviour belongs to one of them, "part", and the      *)
(* registry has two: choosing providers and replacing states.               *)
EXTENDS PoolExecutor, EvidenceJournal, SnapshotStore, FileSnapshotStore,
        PluginLifecycle, EvaluationRegistry, TLC

CONSTANTS v1, t1, t2, d1, e1, c1, c2, run1, run2, key1, key2, a, b, proc1, proc2,
    Parts   \* what is checked: "pool", "journal", "snapshot", "file", "plugin",
            \* "choice", "transition"

VARIABLE part

mcVars == <<part, poolVars, vars, snapshotVars, fileVars, pluginVars, registryVars>>

-----------------------------------------------------------------------------

\* A view and a direct task compete for one thread; one task of the view waits
\* while the other runs.
MCViewOf == [t \in Task |-> v1]
MCCount == [v \in View |-> 1]
MCPermits == [d \in Direct |-> 1]

\* A commit and a rejection of the same Event, and a commit of another one.
MCIntent == {[status |-> "committed", of |-> run1, authority |-> key1],
             [status |-> "rejected", of |-> run1, authority |-> None],
             [status |-> "committed", of |-> run2, authority |-> key1]}

\* Equal providers but for the id, one of which does not keep predecessors;
\* only those of the states' owner offer to change and export states.
MCSpecOf(id, copies, able) ==
    [id |-> id, priority |-> 0, modes |-> {"exact"}, capabilities |-> {"grad"},
     supports |-> <<"cpu", "gpu">>, prefers |-> <<>>, threads |-> 1, gpus |-> 0,
     keeps |-> copies, offers |-> able]
MCProvider == {MCSpecOf(1, TRUE, {"transition", "materialize"}),
               MCSpecOf(1, FALSE, {"transition", "materialize"}),
               MCSpecOf(2, TRUE, {})}

MCRequests == {[mode |-> "exact", required |-> {}, preferred |-> {"grad"}, owner |-> 0]}

\* The CPU only, and a slot that stands for a GPU.
MCGrants == {[threads |-> 1, gpus |-> 0, device |-> "cpu", tokens |-> <<>>, resolved |-> <<>>],
             [threads |-> 1, gpus |-> 1, device |-> "slot", tokens |-> <<"slot">>,
              resolved |-> [slot |-> "cuda:0"]]}

Symmetry == Permutations(Task) \cup Permutations(Client)

-----------------------------------------------------------------------------

MCInit ==
    /\ part \in Parts
    /\ PoolInit /\ Init /\ SnapshotInit /\ FileInit /\ PluginInit /\ RegistryInit
    /\ part # "journal" => backend = "memory" /\ records = [e \in Event |-> NoRecord]
    /\ part # "snapshot" => engine = "memory"
    /\ part # "plugin" => plugins = <<>> /\ ~strict

PoolStep ==
    part = "pool" /\ PoolNext
    /\ UNCHANGED <<part, vars, snapshotVars, fileVars, pluginVars, registryVars>>
JournalStep ==
    part = "journal" /\ Next
    /\ UNCHANGED <<part, poolVars, snapshotVars, fileVars, pluginVars, registryVars>>
SnapshotStep ==
    part = "snapshot" /\ SnapshotNext
    /\ UNCHANGED <<part, poolVars, vars, fileVars, pluginVars, registryVars>>
FileStep ==
    part = "file" /\ FileNext
    /\ UNCHANGED <<part, poolVars, vars, snapshotVars, pluginVars, registryVars>>
PluginStep ==
    part = "plugin" /\ PluginNext
    /\ UNCHANGED <<part, poolVars, vars, snapshotVars, fileVars, registryVars>>
ChoiceStep ==
    part = "choice" /\ (RegistrationNext \/ EvaluationNext)
    /\ UNCHANGED <<part, poolVars, vars, snapshotVars, fileVars, pluginVars>>
TransitionStep ==
    part = "transition" /\ (RegistrationNext \/ TransitionNext)
    /\ UNCHANGED <<part, poolVars, vars, snapshotVars, fileVars, pluginVars>>

MCNext ==
    \/ PoolStep \/ JournalStep \/ SnapshotStep \/ FileStep \/ PluginStep
    \/ ChoiceStep \/ TransitionStep

MCSpec == MCInit /\ [][MCNext]_mcVars
=============================================================================
