----------------------------- MODULE MCApplyOrder -----------------------------
(* Three operations with any parents, a damaged file beside them, an object *)
(* that operations refer to, and the head that refers to one of them.       *)
EXTENDS ApplyOrder

MCLayerOf == [f \in {1, 6} |-> IF f = 1 THEN 0 ELSE 7]
MCRefs == [f \in 1 .. 6 |-> IF f \in {2, 3} THEN {1} ELSE IF f = 6 THEN {3} ELSE {}]
===============================================================================
