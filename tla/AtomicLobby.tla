---------------------------- MODULE AtomicLobby ----------------------------
(***************************************************************************)
(* What the lobby promises its players about one command: it is applied    *)
(* wholly or not at all, nobody sees it before it is durable, and a server *)
(* that restarts finds the lobby its players saw, except that a command    *)
(* which was reported to have failed may turn out to have been applied.    *)
(* LobbyTransaction implements this with two locks, a copy of the state    *)
(* and a database that may fail.                                           *)
(*                                                                         *)
(* The lobby is one room, of which only the game in it counts.             *)
(***************************************************************************)
EXTENDS Naturals

CONSTANTS
  Teams,     \* the line-ups a game may be played by
  MaxGames   \* bound on the games

VARIABLES
  lobby,     \* the room as everybody sees it
  durable    \* the room a restart would find

EmptyRoom == [game |-> 0, team |-> {}, phase |-> "none"]

(* What a command may make of a room: begin the next game, play on, end    *)
(* the game, put the room back.                                            *)
Commands(r) ==
  {r}
  \cup {[game |-> g, team |-> t, phase |-> "playing"] :
          g \in {n \in (r.game + 1) .. MaxGames : r.phase = "none"},
          t \in Teams}
  \cup {[r EXCEPT !.phase = "over"] : x \in {y \in {0} : r.phase = "playing"}}
  \cup {[r EXCEPT !.phase = "none"] : x \in {y \in {0} : r.phase = "over"}}

Init == lobby = EmptyRoom /\ durable = EmptyRoom

(* A command of the present room reaches the database ... *)
Write == durable' \in Commands(lobby) /\ UNCHANGED lobby

(* ... and only then the players. *)
Acknowledge == lobby' = durable /\ durable \in Commands(lobby) /\ UNCHANGED durable

Restart == lobby' = durable /\ UNCHANGED durable

Next == Write \/ Acknowledge \/ Restart

Spec == Init /\ [][Next]_<<lobby, durable>>
============================================================================
