------------------------- MODULE MCLobbyTransaction -------------------------
(* Three line-ups, each sharing a player with the next one. *)
EXTENDS LobbyTransaction

CONSTANTS a, b, c, d

MCPlayers == {a, b, c, d}
MCTeams == {{a, b}, {b, c}, {c, d}}
============================================================================
