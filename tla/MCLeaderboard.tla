--------------------------- MODULE MCLeaderboard ---------------------------
(* Three players, two of them tied at first and one not ranked yet; pages  *)
(* of one row, so that every ranking takes several requests.               *)
EXTENDS Leaderboard

MCStats == [p \in Players |->
              IF p = 3 THEN [games |-> 0, wins |-> 0, rating |-> 1]
              ELSE [games |-> 1, wins |-> 1, rating |-> 1]]

\* A new player beats the leader.
MCGames == {<<3, 1>>}
============================================================================
