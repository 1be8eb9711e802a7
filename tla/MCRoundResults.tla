--------------------------- MODULE MCRoundResults ---------------------------
(* Three players near the end of a game: one clear leader, one that a      *)
(* large hand takes over a hundred and one that any hand nearly does.  The *)
(* leader has the first turn and can win the game with the first discard.  *)
EXTENDS RoundResults

MCTotals == <<60, 0, 90>>
=============================================================================
