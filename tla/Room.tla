-------------------------------- MODULE Room --------------------------------
(***************************************************************************)
(* The server's life of one room: seats, host, the choice of a deal,       *)
(* forfeits, proposals to end the game, lost connections and a restart.    *)
(*                                                                         *)
(* Every command of lobby_server.go holds commandMu from its first check   *)
(* to its last write and is rolled back when it fails, so it is one step   *)
(* here (LobbyTransaction shows that).  The engine is reduced to its phase *)
(* and to the seats that deal and play (GameState says the rest); the mode *)
(* of a game only decides which of the two ends a round has.  Seats count  *)
(* from 1, and 0 is no seat.  Time is two steps: a proposal's ninety       *)
(* seconds and the thirty seconds after one was refused.                   *)
(***************************************************************************)
EXTENDS Naturals, Sequences, FiniteSets, SequencesExt

CONSTANTS
  Players,       \* the players who may sit down
  NoOne,         \* nobody
  DeckSize       \* cards of the game deck

minPlayersToStart == 2
maxPlayersPerRoom == 4
InitialHandSize == 12

(* The deck has the hands of a full room. *)
ASSUME RoomAssumption ==
  /\ IsFiniteSet(Players) /\ NoOne \notin Players
  /\ DeckSize \in Nat /\ DeckSize >= InitialHandSize * maxPlayersPerRoom

VARIABLES
  room,       \* the room, or NoRoom
  conns,      \* the players whose session has a connection
  resets      \* the handlers that have broadcast a finished game and have
              \* still to put the room back

roomVars == <<room, conns, resets>>

NoDeal == [dealer |-> 0, chooser |-> 0]
NoProposal == [id |-> 0, proposer |-> NoOne, eligible |-> {},
               agreed |-> {}, expired |-> FALSE]

NoRoom ==
  [players |-> <<>>, connected |-> {}, forfeited |-> {}, host |-> NoOne,
   pending |-> NoDeal, phase |-> "lobby", dealer |-> 0, turn |-> 0,
   proposal |-> NoProposal, cooldown |-> FALSE, conclusion |-> "none"]

----------------------------------------------------------------------------
(* Reading a room. *)

Seated(r) == ToSet(r.players)
Active(r) == Seated(r) \ r.forfeited

(* sessionRoom: leaving and forfeiting clear the session's room code. *)
sessionRoom(r, p) == p \in Active(r)

allPlayersConnected(r) == Active(r) \subseteq r.connected

activePlayerIndexes(r) == {i \in DOMAIN r.players : r.players[i] \in Active(r)}

(* The first active seat met going round from seat i, i itself last. *)
nextActivePlayerIndex(r, i) ==
  LET n == Len(r.players)
      steps == {d \in 1 .. n :
                  ((i + d - 1) % n) + 1 \in activePlayerIndexes(r)}
      d == CHOOSE x \in steps : \A y \in steps : x <= y
  IN  ((i + d - 1) % n) + 1

previousActivePlayerIndex(r, i) ==
  LET n == Len(r.players)
      steps == {d \in 1 .. n :
                  ((i + n - d - 1) % n) + 1 \in activePlayerIndexes(r)}
      d == CHOOSE x \in steps : \A y \in steps : x <= y
  IN  ((i + n - d - 1) % n) + 1

isCurrentTurn(r, p) == r.turn # 0 /\ r.players[r.turn] = p

playing(r) == r.phase \in {"in_progress", "round_over"}

(* A snapshot names the chooser by the seat of the pending choice; a seat  *)
(* that is no longer there is an index out of range.                       *)
snapshotPanics(r) == r.pending.chooser > Len(r.players)

(* activeEndProposal: the first look at a proposal after its time drops    *)
(* it.  Every snapshot looks.                                              *)
activeEndProposal(r) ==
  IF r.proposal.expired
  THEN [r EXCEPT !.proposal = NoProposal, !.cooldown = TRUE]
  ELSE r

snapshot(r) == activeEndProposal(r)

----------------------------------------------------------------------------
(* Sitting down and getting up. *)

(* One room is enough: who is elsewhere does not matter to it. *)
createRoom(p) ==
  /\ room = NoRoom
  /\ room' = [NoRoom EXCEPT !.players = <<p>>, !.connected = {p}, !.host = p]
  /\ UNCHANGED <<conns, resets>>

canJoin(r, p) ==
  /\ p \notin Active(r) /\ r # NoRoom
  /\ r.pending = NoDeal /\ r.phase = "lobby"
  /\ Len(r.players) < maxPlayersPerRoom

joinRoom(p) ==
  /\ canJoin(room, p)
  /\ room' = snapshot([room EXCEPT !.players = Append(@, p),
                                   !.connected = @ \cup {p}])
  /\ UNCHANGED <<conns, resets>>

(* updatedPlayers and activePlayers: those who stay, who move up to the    *)
(* seats of those who are gone.                                            *)
remaining(players, gone) ==
  LET kept == {i \in DOMAIN players : players[i] \notin gone}
      rank(i) == Cardinality({j \in kept : j <= i})
  IN  [k \in 1 .. Cardinality(kept) |->
         players[CHOOSE i \in kept : rank(i) = k]]

(* leaveRoom: the first of the others takes over from a host who leaves.   *)
(* A pending choice of a deal stays as it is.                              *)
leftRoom(r, p) ==
  LET rest == remaining(r.players, {p})
  IN  IF rest = <<>> THEN NoRoom
      ELSE [r EXCEPT !.players = rest, !.connected = @ \ {p},
                     !.host = IF @ = p THEN rest[1] ELSE @,
                     !.dealer = 0, !.turn = 0]

canLeave(r, p) ==
  /\ sessionRoom(r, p) /\ r.phase = "lobby"
  /\ ~snapshotPanics(leftRoom(r, p))

leaveRoom(p) ==
  /\ canLeave(room, p)
  /\ room' = snapshot(leftRoom(room, p))
  /\ UNCHANGED <<conns, resets>>

----------------------------------------------------------------------------
(* Starting a game and a round. *)

(* startGame asks for the host and the players but not for the phase. *)
canStart(r, p, dealer) ==
  /\ sessionRoom(r, p) /\ r.host = p
  /\ Len(r.players) >= minPlayersToStart
  /\ allPlayersConnected(r)
  /\ r.pending = NoDeal
  /\ dealer \in DOMAIN r.players

startGame(p, dealer) ==
  /\ canStart(room, p, dealer)
  /\ room' = snapshot([room EXCEPT !.pending =
       [dealer |-> dealer,
        chooser |-> IF dealer = 1 THEN Len(room.players) ELSE dealer - 1]])
  /\ UNCHANGED <<conns, resets>>

canStartNextRound(r, p) ==
  /\ sessionRoom(r, p) /\ r.host = p
  /\ allPlayersConnected(r)
  /\ r.pending = NoDeal /\ r.phase = "round_over"

startNextRound(p) ==
  /\ canStartNextRound(room, p)
  /\ LET dealer == nextActivePlayerIndex(room, room.dealer)
     IN  room' = snapshot([room EXCEPT !.pending =
           [dealer |-> dealer,
            chooser |-> previousActivePlayerIndex(room, dealer)]])
  /\ UNCHANGED <<conns, resets>>

(* What the engine deals: for a new game the seats of the pending choice,  *)
(* for the next round its own.                                             *)
dealSeats(r) ==
  IF r.phase = "lobby" THEN r.pending
  ELSE LET dealer == nextActivePlayerIndex(r, r.dealer)
       IN  [dealer |-> dealer,
            chooser |-> previousActivePlayerIndex(r, dealer)]

(* A deal: `order` is <<>> for round robin, `cut` the cards lifted. *)
validDeal(r, deal) ==
  LET n == Cardinality(activePlayerIndexes(r))
  IN  /\ n >= 2
      /\ dealSeats(r).dealer \in activePlayerIndexes(r)
      /\ dealSeats(r).chooser
           = previousActivePlayerIndex(r, dealSeats(r).dealer)
      /\ \/ deal.order = <<>>
         \/ Len(deal.order) = n /\ ToSet(deal.order) = activePlayerIndexes(r)
      /\ deal.cut <= DeckSize - InitialHandSize * n

canChooseDealing(r, p, deal) ==
  /\ sessionRoom(r, p)
  /\ r.pending # NoDeal /\ r.players[r.pending.chooser] = p
  /\ r.phase \in {"lobby", "round_over"}
  /\ validDeal(r, deal)

(* A hand that wins as it is dealt ends the round at once. *)
chooseDealing(p, deal) ==
  /\ canChooseDealing(room, p, deal)
  /\ \E phase \in {"in_progress", "round_over", "game_over"} :
       room' = snapshot([room EXCEPT
         !.phase = phase, !.pending = NoDeal,
         !.dealer = dealSeats(room).dealer,
         !.turn = IF phase = "in_progress"
                  THEN nextActivePlayerIndex(room, dealSeats(room).dealer)
                  ELSE @])
  /\ UNCHANGED <<conns, resets>>

----------------------------------------------------------------------------
(* Playing, and ending the game early. *)

(* broadcastActionSuccess: the handler that broadcast a finished game puts *)
(* the room back afterwards.                                               *)
broadcastActionSuccess(p, r) ==
  resets' = IF r.phase = "game_over" THEN resets \cup {p} ELSE resets

canPlay(r, p) == sessionRoom(r, p) /\ r.phase = "in_progress"
                   /\ isCurrentTurn(r, p)

(* applyGameAction: the turn stays or passes on, or the round ends. *)
applyGameAction(p) ==
  /\ canPlay(room, p)
  /\ \/ room' = snapshot(room)
     \/ room' = snapshot([room EXCEPT
                  !.turn = nextActivePlayerIndex(room, @)])
     \/ \E phase \in {"round_over", "game_over"} :
          room' = snapshot([room EXCEPT !.phase = phase])
  /\ broadcastActionSuccess(p, room')
  /\ UNCHANGED conns

(* A slip: a player who forfeits stays among those whose vote counts. *)
removePlayerFromProposalSlip(q, p) ==
  IF q.proposer = p \/ Cardinality(q.eligible \ {p}) < 2
  THEN NoProposal ELSE q

removePlayerFromProposal(q, p) ==
  IF q.proposer = p \/ Cardinality(q.eligible \ {p}) < 2
  THEN NoProposal
  ELSE [q EXCEPT !.eligible = @ \ {p}, !.agreed = @ \ {p}]

unanimouslyApproved(q) == q.eligible # {} /\ q.eligible \subseteq q.agreed

transferHostToFirstActive(r) ==
  r.players[CHOOSE i \in activePlayerIndexes(r) :
              \A j \in activePlayerIndexes(r) : i <= j]

canForfeit(r, p) == sessionRoom(r, p) /\ playing(r)

(* ForfeitPlayer: the last one left wins, and a turn passes on. *)
forfeited(r, p) ==
  LET gone == [r EXCEPT !.forfeited = @ \cup {p}, !.connected = @ \ {p}]
      last == Cardinality(Active(gone)) = 1
  IN  [gone EXCEPT
         !.phase = IF last THEN "game_over" ELSE @,
         !.conclusion = IF last THEN "forfeit" ELSE @,
         !.turn = IF ~last /\ r.phase = "in_progress" /\ isCurrentTurn(r, p)
                  THEN nextActivePlayerIndex(gone, @) ELSE @,
         !.pending = NoDeal,
         !.host = IF @ = p THEN transferHostToFirstActive(gone) ELSE @,
         !.proposal = IF last THEN NoProposal
                      ELSE IF @ = NoProposal THEN @
                      ELSE removePlayerFromProposal(@, p)]

(* EndWithoutWinner. *)
endWithoutWinner(r) ==
  [r EXCEPT !.phase = "game_over", !.conclusion = "agreed",
            !.proposal = NoProposal]

forfeitGame(p) ==
  /\ canForfeit(room, p)
  /\ LET r == forfeited(room, p)
     IN  room' = snapshot(IF unanimouslyApproved(r.proposal)
                          THEN endWithoutWinner(r) ELSE r)
  /\ broadcastActionSuccess(p, room')
  /\ UNCHANGED conns

(* Its number is 1; a vote that is on its way when another proposal is     *)
(* made is given the number 0.                                             *)
newEndProposal(r, p) ==
  [id |-> 1, proposer |-> p, eligible |-> Active(r),
   agreed |-> {p}, expired |-> FALSE]

canPropose(r, p) ==
  LET now == activeEndProposal(r)
  IN  /\ sessionRoom(r, p) /\ playing(r)
      /\ now.proposal = NoProposal /\ ~now.cooldown

(* createEndProposal, and reportIssue with an abort, which only differ in  *)
(* the proposal's kind: the report is saved with the commands still locked *)
(* out, so nothing has changed after it.                                   *)
createEndProposal(p) ==
  /\ canPropose(room, p)
  /\ room' = [room EXCEPT !.proposal = newEndProposal(room, p)]
  /\ broadcastActionSuccess(p, room')
  /\ UNCHANGED conns

(* A slip: a vote counts whatever proposal it was given on. *)
canVoteSlip(r, p, id) ==
  LET now == activeEndProposal(r)
  IN  /\ sessionRoom(r, p)
      /\ now.proposal # NoProposal
      /\ p \in now.proposal.eligible

canVote(r, p, id) ==
  LET now == activeEndProposal(r)
  IN  /\ sessionRoom(r, p)
      /\ now.proposal # NoProposal /\ now.proposal.id = id
      /\ p \in now.proposal.eligible

approved(r, p) == [r EXCEPT !.proposal.agreed = @ \cup {p}]

(* The last approval ends the game; the engine refuses once it is over. *)
voteAccepted(r, p, id, approve) ==
  /\ canVote(r, p, id)
  /\ approve /\ unanimouslyApproved(approved(r, p).proposal) => playing(r)

voteEndGame(p, id, approve) ==
  /\ voteAccepted(room, p, id, approve)
  /\ room' = IF ~approve
             THEN [room EXCEPT !.proposal = NoProposal, !.cooldown = TRUE]
             ELSE IF unanimouslyApproved(approved(room, p).proposal)
             THEN [endWithoutWinner(approved(room, p)) EXCEPT !.pending = NoDeal]
             ELSE approved(room, p)
  /\ broadcastActionSuccess(p, room')
  /\ UNCHANGED conns

(* resetForLobby: who forfeited is gone. *)
resetForLobby(r) ==
  LET rest == remaining(r.players, r.forfeited)
  IN  [NoRoom EXCEPT !.players = rest, !.connected = r.connected,
                     !.host = IF r.host \in ToSet(rest) THEN r.host
                              ELSE rest[1]]

(* resetRoomAfterGameOver; another handler may have done it already. *)
resetRoomAfterGameOver(p) ==
  /\ p \in resets
  /\ resets' = resets \ {p}
  /\ room' = IF room.phase = "game_over" THEN resetForLobby(room) ELSE room
  /\ UNCHANGED conns

----------------------------------------------------------------------------
(* Connections, time and restarts. *)

connectWithUser(p) ==
  /\ p \notin conns
  /\ conns' = conns \cup {p}
  /\ room' = IF sessionRoom(room, p)
             THEN snapshot([room EXCEPT !.connected = @ \cup {p}]) ELSE room
  /\ UNCHANGED resets

disconnectWithEmitter(p) ==
  /\ p \in conns
  /\ conns' = conns \ {p}
  /\ room' = IF sessionRoom(room, p)
             THEN snapshot([room EXCEPT !.connected = @ \ {p}]) ELSE room
  /\ UNCHANGED resets

proposalExpires ==
  /\ room.proposal # NoProposal /\ ~room.proposal.expired
  /\ room' = [room EXCEPT !.proposal.expired = TRUE]
  /\ UNCHANGED <<conns, resets>>

cooldownEnds ==
  /\ room.cooldown
  /\ room' = [room EXCEPT !.cooldown = FALSE]
  /\ UNCHANGED <<conns, resets>>

(* restorePersistedState: the room as it was, with nobody there; a handler *)
(* that was about to put the room back is gone.                            *)
restorePersistedState ==
  /\ conns' = {} /\ resets' = {}
  /\ room' = [room EXCEPT !.connected = {}]

RoomInit ==
  room = NoRoom /\ conns = {} /\ resets = {}
============================================================================
