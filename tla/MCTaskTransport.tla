--------------------------- MODULE MCTaskTransport ---------------------------
(* Small instances of TaskTransport for TLC. *)
EXTENDS TaskTransport, TLC

CONSTANTS t1, t2, w1, w2

\* Both workers can run t1; only w2 can run t2.
MCCanRun == {<<w1, t1>>, <<w2, t1>>, <<w2, t2>>}
=============================================================================
