--------------------------- MODULE MCTaskManager ---------------------------
(* Instances of TaskManager for TLC. *)
EXTENDS TaskManager, TLC

CONSTANTS w1, w2, t1, t2

\* All tasks are created by the first worker; the second one queries and reaps.
FirstOwns == [t \in Tasks |-> w1]

Symmetry == Permutations(Tasks)

============================================================================
