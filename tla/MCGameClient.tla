---------------------------- MODULE MCGameClient ----------------------------
(* Values for the constants of GameClient. *)
EXTENDS GameClient

AllCommands == {"join_room", "leave_room", "play", "spectate_game",
                "stop_spectating"}
============================================================================
