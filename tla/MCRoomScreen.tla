---------------------------- MODULE MCRoomScreen ----------------------------
(* Three players, so that one may forfeit and a game go on. *)
EXTENDS RoomScreen, TLC

CONSTANTS p1, p2, p3

MCPlayers == {p1, p2, p3}
Pair == {p1, p2}
PlayerSymmetry == Permutations({p1, p2, p3})
============================================================================
