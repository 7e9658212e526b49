---------------------------- MODULE MCLeaseStore ----------------------------
(* Small instances of LeaseStore for TLC. A behaviour belongs to one store,  *)
(* "part": SQLite, whose callers wait for the lock up to MaxWait, or Redis,  *)
(* whose callers wait up to RedisWait.                                       *)
EXTENDS LeaseStore, TLC

CONSTANTS c1, c2, l1, l2, workers, gpu0,
    RedisWait,   \* longest lock wait of a caller of the Redis store
    RedisTime,   \* bound: its clock
    Parts        \* stores that are checked: "sqlite", "redis"

VARIABLE part

Redis == INSTANCE LeaseStore WITH Backend <- "redis", MaxWait <- RedisWait,
                               MaxTime <- RedisTime

MCLimit == [r \in Resource |-> 2]

\* One worker without a device, one worker and two workers on the device.
MCRequest == { [demand |-> [r \in Resource |-> 1], device_tokens |-> {}],
               [demand |-> [r \in Resource |-> 1], device_tokens |-> {gpu0}],
               [demand |-> [r \in Resource |-> 2], device_tokens |-> {gpu0}] }

MCInit == part \in Parts /\ LeaseInit

SqliteStep == part = "sqlite" /\ LeaseNext /\ UNCHANGED part
RedisStep == part = "redis" /\ Redis!LeaseNext /\ UNCHANGED part

MCSpec == MCInit /\ [][SqliteStep \/ RedisStep]_<<part, leaseVars>>

Symmetry == Permutations(Client) \cup Permutations(LeaseId)
=============================================================================
