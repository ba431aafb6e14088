--------------------------- MODULE MCDuckDBSessions ---------------------------
(* Two workers, the first with two threads. *)
EXTENDS DuckDBSessions

CONSTANTS w1, w2, t1, t2, t3

MCWorkers == {w1, w2}
MCThreads == {t1, t2, t3}
MCWorkerOf == [t \in MCThreads |-> IF t = t3 THEN w2 ELSE w1]
===============================================================================
