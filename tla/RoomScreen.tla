----------------------------- MODULE RoomScreen -----------------------------
(***************************************************************************)
(* The room (Room) and the page of every player in it: which screen        *)
(* protected-home.tsx shows, which controls are enabled on it, and the     *)
(* commands on their way to the server.                                    *)
(*                                                                         *)
(* A page shows the room as the server last sent it.  A command pressed on *)
(* an older picture and a command that was long on its way are the same    *)
(* thing to the server, so the picture is always the present one here and  *)
(* the delay is all in `inbox`.  The menu's dialogs are part of that delay *)
(* too: once open they no longer ask whether the command still makes       *)
(* sense.  Commands whose answer is awaited are not pressed twice.         *)
(***************************************************************************)
EXTENDS Room

CONSTANT MaxInFlight   \* bound on the commands that are long on their way

ASSUME InFlightAssumption == MaxInFlight \in Nat \ {0}

VARIABLES
  inbox,      \* for each player the commands the server has not read
  consents    \* who has asked for or approved the present proposal

screenVars == <<inbox, consents>>
vars == <<room, conns, resets, inbox, consents>>

NoChoice == [cut |-> 0, order |-> <<>>]

Command(type) == [type |-> type, seat |-> 0, deal |-> NoChoice, id |-> 0,
                  approve |-> FALSE]

----------------------------------------------------------------------------
(* What a page shows. *)

(* GameResultsView, GameLobbyView or GameBoardView.  A page may go on      *)
(* showing the results of a finished game, with nothing of the room to     *)
(* press, until its player dismisses them.                                 *)
screen(p) ==
  IF p \notin Active(room) \/ room.phase = "lobby" THEN "lobby"
  ELSE IF room.phase = "in_progress" THEN "board" ELSE "results"

isDealChooser(p) ==
  room.pending # NoDeal /\ room.players[room.pending.chooser] = p

(* DealChoicePanel is where the lobby shows it, or the results of a round. *)
panelShown(p) ==
  /\ p \in Active(room) /\ isDealChooser(p)
  /\ room.phase \in {"lobby", "round_over"}

(* The seats of the game, the one after the dealer's first. *)
defaultTapOrder(r) ==
  LET active == remaining([i \in DOMAIN r.players |-> i],
                          DOMAIN r.players \ activePlayerIndexes(r))
      n == Len(active)
      at == {i \in 1 .. n : active[i] = r.pending.dealer}
  IN  IF at = {} THEN active
      ELSE LET d == CHOOSE i \in at : TRUE
           IN  [i \in 1 .. n |-> active[((d + i - 1) % n) + 1]]

maxCutSize(r) ==
  LET most == DeckSize - InitialHandSize * Cardinality(Active(r))
  IN  IF most < 0 THEN 0 ELSE most

(* A slip: any number of cards may be cut. *)
clampCutSizeSlip(cut, most) == cut

clampCutSize(cut, most) == IF cut > most THEN most ELSE cut

(* DealChoicePanelContent: what its field for the cut, which takes any     *)
(* number (the largest is the one in doubt), and the order of tapping, the *)
(* seats' own until it is dragged, can be made to say.  The panel is a   *)
(* new one for every pending deal: nothing of an earlier one is left.      *)
dealChoices(r) ==
  LET seats == defaultTapOrder(r)
  IN  [cut : {clampCutSize(DeckSize, maxCutSize(r))},
       order : {<<>>} \cup {order \in [DOMAIN seats -> ToSet(seats)] :
                              IsInjective(order)}]

----------------------------------------------------------------------------
(* The controls. *)

awaiting(p, types) == \E i \in DOMAIN inbox[p] : inbox[p][i].type \in types

menuCommands == {"forfeit_game", "request_end_game"}

(* GameLobbyView. *)
lobbyControls(p) ==
  {c \in {Command("create_room"), Command("join_room")} :
     p \notin Active(room)}
  \cup {c \in {Command("leave_room")} :
          p \in Active(room) /\ room.phase = "lobby"}
  \cup {[Command("start_game") EXCEPT !.seat = i] :
          i \in {j \in DOMAIN room.players :
                   /\ room.players[j] = room.host /\ room.host = p
                   /\ Len(room.players) >= 2
                   /\ Active(room) \subseteq room.connected
                   /\ room.pending = NoDeal}}

(* GameResultsView. *)
resultsControls(p) ==
  {c \in {Command("start_next_round")} :
     room.phase = "round_over" /\ room.pending = NoDeal /\ room.host = p}

(* GameBoardView, as far as the room is concerned. *)
boardControls(p) ==
  {c \in {Command("play")} :
     room.phase = "in_progress" /\ isCurrentTurn(room, p)}

(* DealChoicePanel. *)
panelControls(p) ==
  IF panelShown(p)
  THEN {[Command("choose_dealing") EXCEPT !.deal = deal] :
          deal \in dealChoices(room)}
  ELSE {}

(* GameControlsMenu, in the header of every page. *)
menuControls(p) ==
  {c \in {Command("forfeit_game"), Command("request_end_game")} :
     /\ playing(room) /\ p \in Active(room)
     /\ ~awaiting(p, menuCommands)
     /\ c.type = "forfeit_game" \/ room.proposal = NoProposal}

(* EndGameProposalAlert; its timer hides a proposal whose time is up. *)
voteControls(p) ==
  {[Command("vote_end_game") EXCEPT !.id = room.proposal.id, !.approve = a] :
     a \in {b \in BOOLEAN :
              /\ p \in Active(room)
              /\ room.proposal # NoProposal /\ ~room.proposal.expired
              /\ p \notin room.proposal.agreed
              /\ ~awaiting(p, {"vote_end_game"})}}

controls(p) ==
  IF p \notin conns THEN {}
  ELSE (IF screen(p) = "lobby" THEN lobbyControls(p)
        ELSE IF screen(p) = "results" THEN resultsControls(p)
        ELSE boardControls(p))
       \cup panelControls(p) \cup menuControls(p) \cup voteControls(p)

----------------------------------------------------------------------------
(* The server's side of a command. *)

admitted(p, c) ==
  CASE c.type = "create_room" -> p \notin Active(room) /\ room = NoRoom
    [] c.type = "join_room" -> canJoin(room, p)
    [] c.type = "leave_room" -> canLeave(room, p)
    [] c.type = "start_game" -> canStart(room, p, c.seat)
    [] c.type = "choose_dealing" -> canChooseDealing(room, p, c.deal)
    [] c.type = "start_next_round" -> canStartNextRound(room, p)
    [] c.type = "play" -> canPlay(room, p)
    [] c.type = "forfeit_game" -> canForfeit(room, p)
    [] c.type = "request_end_game" -> canPropose(room, p)
    [] c.type = "vote_end_game" ->
         voteAccepted(room, p, c.id, c.approve)

applyCommand(p, c) ==
  \/ c.type = "create_room" /\ createRoom(p)
  \/ c.type = "join_room" /\ joinRoom(p)
  \/ c.type = "leave_room" /\ leaveRoom(p)
  \/ c.type = "start_game" /\ startGame(p, c.seat)
  \/ c.type = "choose_dealing" /\ chooseDealing(p, c.deal)
  \/ c.type = "start_next_round" /\ startNextRound(p)
  \/ c.type = "play" /\ applyGameAction(p)
  \/ c.type = "forfeit_game" /\ forfeitGame(p)
  \/ c.type = "request_end_game" /\ createEndProposal(p)
  \/ c.type = "vote_end_game" /\ voteEndGame(p, c.id, c.approve)

----------------------------------------------------------------------------
proposed == room.proposal = NoProposal /\ room'.proposal # NoProposal

(* The votes on their way when a proposal is made are not for that one. *)
superseded(box) ==
  IF proposed
  THEN [q \in Players |-> [i \in DOMAIN box[q] |-> [box[q][i] EXCEPT !.id = 0]]]
  ELSE box

agreement(p, approve) ==
  consents' = IF proposed THEN {p}
              ELSE IF room'.proposal = NoProposal /\ room'.conclusion = "none"
              THEN {}
              ELSE IF approve THEN consents \cup {p} ELSE consents

(* A command that is served before anything else happens ... *)
Act(p) ==
  /\ inbox[p] = <<>> /\ p \notin resets
  /\ \E c \in controls(p) : applyCommand(p, c) /\ agreement(p, c.approve)
  /\ inbox' = superseded(inbox)

(* ... and one that is long on its way. *)
Press(p) ==
  /\ Cardinality({x \in Players \X (1 .. MaxInFlight) :
                    x[2] \in DOMAIN inbox[x[1]]}) < MaxInFlight
  /\ \E c \in controls(p) :
       /\ inbox' = [inbox EXCEPT ![p] = Append(@, c)]
       /\ consents' = IF c.approve THEN consents \cup {p} ELSE consents
  /\ UNCHANGED roomVars

(* The handler of p takes its next command; before that it has put back a  *)
(* room whose game it saw end.                                             *)
Serve(p) ==
  /\ inbox[p] # <<>> /\ p \notin resets
  /\ applyCommand(p, Head(inbox[p])) /\ agreement(p, FALSE)
  /\ inbox' = superseded([inbox EXCEPT ![p] = Tail(@)])

Refuse(p) ==
  /\ inbox[p] # <<>> /\ p \notin resets
  /\ ~admitted(p, Head(inbox[p]))
  /\ inbox' = [inbox EXCEPT ![p] = Tail(@)]
  /\ UNCHANGED <<roomVars, consents>>

Reset(p) ==
  /\ resetRoomAfterGameOver(p)
  /\ consents' = IF room.phase = "game_over" THEN {} ELSE consents
  /\ UNCHANGED inbox

Connect(p) ==
  /\ connectWithUser(p)
  /\ UNCHANGED <<inbox, consents>>

(* A panic of the handler ends the connection too. *)
Disconnect(p) ==
  /\ p \notin resets /\ disconnectWithEmitter(p)
  /\ inbox' = [inbox EXCEPT ![p] = <<>>]
  /\ UNCHANGED consents

Time ==
  /\ proposalExpires \/ cooldownEnds
  /\ UNCHANGED screenVars

Restart ==
  /\ restorePersistedState
  /\ inbox' = [p \in Players |-> <<>>]
  /\ UNCHANGED consents

Init ==
  /\ RoomInit
  /\ inbox = [p \in Players |-> <<>>]
  /\ consents = {}

Next ==
  \/ \E p \in Players :
       \/ Act(p) \/ Press(p) \/ Serve(p) \/ Refuse(p) \/ Reset(p)
       \/ Connect(p) \/ Disconnect(p)
  \/ Time \/ Restart

(* Handlers run, and a page without a connection connects by itself        *)
(* (GameClient); players and time owe nothing.                             *)
Fairness ==
  \A p \in Players :
    WF_vars(Reset(p)) /\ WF_vars(Serve(p) \/ Refuse(p)) /\ WF_vars(Connect(p))

Spec == Init /\ [][Next]_vars /\ Fairness

----------------------------------------------------------------------------
(* Type invariant. *)
TypeOK ==
  /\ room \in [players : Seq(Players), connected : SUBSET Players,
               forfeited : SUBSET Players, host : Players \cup {NoOne},
               pending : [dealer : 0 .. maxPlayersPerRoom,
                          chooser : 0 .. maxPlayersPerRoom],
               phase : {"lobby", "in_progress", "round_over", "game_over"},
               dealer : 0 .. maxPlayersPerRoom,
               turn : 0 .. maxPlayersPerRoom,
               proposal : [id : 0 .. 1,
                           proposer : Players \cup {NoOne},
                           eligible : SUBSET Players,
                           agreed : SUBSET Players, expired : BOOLEAN],
               cooldown : BOOLEAN,
               conclusion : {"none", "forfeit", "agreed"}]
  /\ IsInjective(room.players)
  /\ room.connected \subseteq conns \cap Active(room)
  /\ conns \subseteq Players /\ resets \subseteq Players

(* Whom the room waits for is still in it: through every order of leaving, *)
(* forfeiting, reconnecting and restarting, the host is a player of the    *)
(* room, the player whose turn it is has not forfeited, and a proposal     *)
(* counts the votes of the players still in the game.                      *)
RoomNamesPlayers ==
  /\ room # NoRoom => room.host \in Active(room)
  /\ room.phase = "in_progress" => room.turn \in activePlayerIndexes(room)
  /\ room.proposal # NoProposal =>
       /\ room.proposal.eligible = Active(room)
       /\ room.proposal.proposer \in room.proposal.agreed

(* A game ends without a winner only when everybody still in it has asked  *)
(* for or approved that very proposal: a vote that was long on its way, or *)
(* given on an earlier proposal, does not count for a later one.           *)
EndsByConsent ==
  [][room.conclusion = "none"
       /\ room'.conclusion = "agreed"
       => Active(room') \subseteq consents']_vars

(* What the server refuses of the controls a page enables: leaving while a *)
(* deal is being chosen, the next round while somebody is away, a proposal *)
(* soon after another one, an approval when the game has ended meanwhile.  *)
knownRefusal(c) ==
  \/ c.type = "leave_room" /\ room.pending # NoDeal
  \/ c.type = "start_next_round" /\ ~allPlayersConnected(room)
  \/ c.type = "request_end_game" /\ room.cooldown
  \/ c.type = "vote_end_game" /\ c.approve /\ room.phase = "game_over"

(* A page enables only what the server would do: on the present picture of *)
(* the room every other enabled control, the deal with the order and cut   *)
(* of its panel included, is one the server accepts.                       *)
EnabledIsAdmitted ==
  \A p \in Active(room) : \A c \in controls(p) :
    admitted(p, c) \/ knownRefusal(c)

(* A player in the lobby can leave the room. *)
LobbyCanBeLeft ==
  \A p \in Active(room) : \A c \in controls(p) :
    c.type = "leave_room" => admitted(p, c)

(* A game that is over does not stay so: the room returns to the lobby, or *)
(* its players could neither play, leave nor join another room.            *)
GameOverEnds == (room.phase = "game_over") ~> (room.phase # "game_over")
============================================================================
