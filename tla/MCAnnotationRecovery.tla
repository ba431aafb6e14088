----------------------- MODULE MCAnnotationRecovery -----------------------
(* Instances of AnnotationRecovery for TLC. *)
EXTENDS AnnotationRecovery, TLC

CONSTANTS c1, c2, s1

\* u and v disagree, until one of them thinks better of it, or u skips the task.
Disagreeing   == {<<"u", "x">>, <<"v", "y">>}
TwoAnnotators == {<<"u", "x">>, <<"v", "y">>, <<"u", Skipped>>}

\* u alone, who may correct what was submitted.
OneAnnotator == {<<"u", "x">>}

Symmetry == Permutations(Callers)

============================================================================
