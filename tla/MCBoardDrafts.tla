---------------------------- MODULE MCBoardDrafts ----------------------------
(* Hands and tables for BoardDrafts. *)
EXTENDS BoardDrafts

C(r, s) == [rank |-> r, suit |-> s, copy |-> 1]
J == joker(1)

(* A run with a joker, and a set with one that is ambiguous. *)
RunWithJoker == [variant |-> "run", cards |-> <<C(5, 1), J, C(7, 1)>>]
SetWithJoker == [variant |-> "set", cards |-> <<C(9, 1), C(9, 2), J>>]

Start(hand, comp, opened, stage) ==
  [hand |-> hand, table |-> <<comp>>, opened |-> opened, stage |-> stage]

MCStarts ==
  {Start(<<C(6, 1), C(8, 1), C(9, 3)>>, RunWithJoker, TRUE, "discard"),
   Start(<<C(9, 3), C(9, 4), C(9, 4), J>>, SetWithJoker, TRUE, "discard"),
   Start(<<C(8, 1), C(9, 1), J>>, RunWithJoker, FALSE, "discard"),
   Start(<<C(9, 3), C(9, 3)>>, SetWithJoker, TRUE, "draw")}
MCDeck == {C(9, 4)}
==============================================================================
