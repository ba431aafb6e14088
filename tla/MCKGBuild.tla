------------------------------- MODULE MCKGBuild -------------------------------
EXTENDS KGBuild

CONSTANTS t1, t2, e, f

(* Two chunks share e at first, the second has a name of its own; an edit  *)
(* of the first leads to that name, an edit of the second to none.         *)
YieldDef ==
    << [t \in Texts |-> IF t = t1 THEN {e} ELSE {f}],
       [t \in Texts |-> IF t = t1 THEN {e, f} ELSE {}] >>
================================================================================
