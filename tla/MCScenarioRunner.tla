-------------------------- MODULE MCScenarioRunner --------------------------
(* Instances of ScenarioRunner for TLC. *)
EXTENDS ScenarioRunner, TLC

CONSTANTS k1, k2   \* acknowledgements

\* a assesses; gateway g runs t or e; j joins behind t; p runs beside them.
ForkSteps    == {"a", "t", "e", "j", "p"}
ForkRequires == "a" :> {} @@ "t" :> {"a"} @@ "e" :> {"a"} @@ "j" :> {"t"} @@ "p" :> {}
ForkGateways == <<"g">>
ForkThen     == "g" :> {"t"}
ForkElse     == "g" :> {"e"}
ForkComp     == [s \in ForkSteps |-> CASE s = "t" -> "undo_t"
                                      [] s = "p" -> "undo_p"
                                      [] OTHER -> "none"]

============================================================================
