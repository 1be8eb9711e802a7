------------------------------ MODULE MCSocial ------------------------------
(* Two users, one of them with two tabs, which are alike. *)
EXTENDS Social

CONSTANTS tab1, tab2, tab3

MCUserOf == [c \in Conns |-> IF c = tab1 THEN "ann" ELSE "bob"]

Alike == Permutations({tab2, tab3})
=============================================================================
