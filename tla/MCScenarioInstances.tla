------------------------ MODULE MCScenarioInstances ------------------------
(* Instances of ScenarioInstances for TLC. *)
EXTENDS ScenarioInstances, TLC

\* Every row is about the same object.
SameObject == [i \in Instances |-> "o"]

\* Row 1 may be resumed, row 2 is another attempt at the same object.
TwoRows == "r1" :> 1 @@ "r2" :> 1 @@ "r3" :> 2
OneRow  == [r \in Runners |-> 1]

============================================================================
