---------------------------- MODULE RoundResults ----------------------------
(***************************************************************************)
(* What a player sees when a round or a game ends.                         *)
(*                                                                         *)
(* The server writes room_state and then game_state for every move, and    *)
(* after the last move of a game a third message that puts the room back   *)
(* in the lobby.  Each message is a task of its own and the store renders  *)
(* after each, so the screen also shows the states between them.           *)
(* ProtectedHome chooses board, results or lobby; useVisibleRoundResults   *)
(* holds results back while the board is to animate the collection of the  *)
(* completed compositions; GameResultsView celebrates a winner and then    *)
(* reveals the scores player by player with a row of timers; and the board *)
(* infers from two successive snapshots which card to let fly.             *)
(*                                                                         *)
(* React runs the effects of a store update before the next task, so a     *)
(* render and its effects are one step.  Timers and animations end in      *)
(* steps of their own, in the order of their delays within one schedule.   *)
(* The deals, cards in hands and the table's open compositions are         *)
(* GameState's; here a play lays a new composition of three cards or adds  *)
(* one card, and may complete a composition of two cards: as much as the   *)
(* inference can tell apart.                                               *)
(***************************************************************************)
EXTENDS Integers, Sequences, FiniteSets, SequencesExt

CONSTANTS
  NumPlayers,   \* the players, in the order of their seats
  Viewer,       \* whose screen this is
  HandSize,     \* cards dealt to each player
  Gains,        \* penalty points a losing hand may hold
  FirstTotals,  \* the totals at the start of the first round seen
  MaxMoves      \* bound on moves, room changes and faults, taken together

ASSUME ParametersAssumption ==
  /\ NumPlayers \in Nat \ {0, 1} /\ Viewer \in 1 .. NumPlayers
  /\ HandSize \in Nat \ {0} /\ Gains \subseteq Nat \ {0}
  /\ FirstTotals \in [1 .. NumPlayers -> 0 .. 100]
  /\ MaxMoves \in Nat

VARIABLES
  server,      \* the room and the game as the server holds them
  queue,       \* messages written to the client's socket and not read yet
  client,      \* room, game and completedGame of the store
  transition,  \* RoundResultsTransition
  results,     \* the state of a mounted GameResultsView
  board,       \* the animations of a mounted board
  reduced,     \* whether the user wants less motion
  moves        \* moves, room changes and faults so far

vars == <<server, queue, client, transition, results, board, reduced,
          moves>>

Players == 1 .. NumPlayers
Plays == {[cards |-> 3, completes |-> FALSE],
          [cards |-> 3, completes |-> TRUE],
          [cards |-> 1, completes |-> TRUE]}
CompletedCards == 2   \* cards of one completed composition

NoGame == [ver |-> 0]
NoRoom == [phase |-> "none"]
NoResult == [room |-> NoRoom, game |-> NoGame]

----------------------------------------------------------------------------
(* The server. *)

settledScore(total) == [total |-> total, gained |-> 0, unadjusted |-> total]

startRound(totals, round, ver) ==
  [ver |-> ver, round |-> round, turn |-> 1,
   player |-> 1 + (round % NumPlayers), drawn |-> "none",
   hand |-> [p \in Players |-> HandSize], done |-> 0,
   pile |-> << <<ver, 0>> >>, winner |-> 0,
   scores |-> [p \in Players |-> settledScore(totals[p])],
   act |-> [kind |-> "start", actor |-> 0, card |-> <<ver, 0>>]]

\* What a card drawn from the deck is to the other players.
FaceDown == <<0, 0>>

drawFrom(g, source) ==
  [g EXCEPT !.ver = @ + 1, !.drawn = source, !.hand[g.player] = @ + 1,
            !.pile = IF source = "discard" THEN Tail(@) ELSE @,
            !.act = [kind |-> source, actor |-> g.player,
                     card |-> IF source = "discard" THEN Head(g.pile)
                              ELSE FaceDown]]

playTable(g, play) ==
  [g EXCEPT !.ver = @ + 1, !.hand[g.player] = @ - play.cards,
            !.done = IF play.completes THEN @ + CompletedCards ELSE @,
            !.act = [kind |-> "play", actor |-> g.player, card |-> FaceDown]]

(* removeCompletedCompositionsToDiscard, then the discarded card on top. *)
discardedOnto(g, ver) ==
  [i \in 1 .. g.done + 1 |-> <<ver, i - 1>>] \o g.pile

(* The turn passes on.  `from` is the version the move started from: a     *)
(* play and a discard may be one command, and so one snapshot.             *)
discardCard(g, from) ==
  [g EXCEPT !.ver = from + 1, !.hand[g.player] = @ - 1, !.done = 0,
            !.pile = discardedOnto(g, from + 1),
            !.turn = IF g.hand[g.player] = 1 THEN @ ELSE @ + 1,
            !.player = IF g.hand[g.player] = 1 THEN @
                       ELSE 1 + (@ % NumPlayers),
            !.drawn = "none",
            !.act = [kind |-> IF g.done = 0 THEN "place" ELSE "collect",
                     actor |-> g.player, card |-> <<from + 1, 0>>]]

roundScores(g, winner, gains) ==
  [p \in Players |->
     IF p = winner THEN settledScore(g.scores[p].total)
     ELSE [total |-> g.scores[p].total + gains[p], gained |-> gains[p],
           unadjusted |-> g.scores[p].total + gains[p]]]

allOtherPlayersOverHundred(s, winner) ==
  \A p \in Players \ {winner} : s[p].total > 100

(* Over a hundred one flies down to the highest total that is not. *)
applyOverHundredAdjustment(s) ==
  [p \in Players |->
     IF s[p].total <= 100 THEN s[p]
     ELSE [s[p] EXCEPT !.total =
             Max({s[q].total : q \in {q \in Players : s[q].total <= 100}})]]

finishRound(g, s) ==
  [g EXCEPT !.winner = g.player,
            !.scores = IF allOtherPlayersOverHundred(s, g.player) THEN s
                       ELSE applyOverHundredAdjustment(s)]

RoomState(room) == [type |-> "room_state", room |-> room, game |-> NoGame]
GameState(room, g) == [type |-> "game_state", room |-> room, game |-> g]

(* broadcastActionSuccess: both states, and the reset after the last move. *)
broadcastActionSuccess(room, g) ==
  LET resetRoom == [room EXCEPT !.phase = "lobby"]
      over == room.phase = "game_over"
  IN  /\ server' = IF over THEN [room |-> resetRoom, game |-> NoGame]
                   ELSE [room |-> room, game |-> g]
      /\ queue' = queue \o <<RoomState(room), GameState(room, g)>> \o
                  (IF over THEN <<RoomState(resetRoom)>> ELSE <<>>)

----------------------------------------------------------------------------
(* Inference from two snapshots. *)

NoCollection == [collected |-> 0]
NoTransfer == [source |-> "none"]

inferCompletedCompositionCollection(previous, current) ==
  LET added == Len(current.pile) - Len(previous.pile)
  IN  IF /\ added > 1
         /\ SubSeq(current.pile, added + 1, Len(current.pile)) = previous.pile
      THEN [collected |-> added - 1, actor |-> previous.player,
            card |-> current.pile[1]]
      ELSE NoCollection

sameTurn(previous, current) ==
  /\ previous.round = current.round
  /\ previous.turn = current.turn
  /\ previous.player = current.player

(* A slip: the discard is credited to whoever is on turn now. *)
inferCardTransferSlip(previous, current) ==
  IF /\ current.player # Viewer /\ ~sameTurn(previous, current)
     /\ Len(current.pile) > Len(previous.pile)
  THEN [source |-> "player", actor |-> current.player,
        card |-> current.pile[1]]
  ELSE NoTransfer

inferCardTransfer(previous, current) ==
  IF /\ current.player # Viewer /\ sameTurn(previous, current)
     /\ previous.drawn = "none" /\ current.drawn # "none"
     /\ current.hand[current.player] = previous.hand[current.player] + 1
  THEN IF current.drawn = "deck"
       THEN [source |-> "deck", actor |-> current.player, card |-> FaceDown]
       ELSE IF previous.pile # <<>>
       THEN [source |-> "discard", actor |-> current.player,
             card |-> previous.pile[1]]
       ELSE NoTransfer
  ELSE IF /\ previous.player # Viewer /\ ~sameTurn(previous, current)
          /\ current.pile # <<>> /\ Len(current.pile) > Len(previous.pile)
  THEN [source |-> "player", actor |-> previous.player,
        card |-> current.pile[1]]
  ELSE NoTransfer

----------------------------------------------------------------------------
(* The board's animations.  Both components remember the game they last    *)
(* rendered, which is the client's game as long as the board is mounted,   *)
(* and the completed compositions then on the table.                       *)

NoSequence == [stage |-> "none"]
EmptyBoard == [sequence |-> NoSequence, flight |-> NoTransfer]

CompletedCompositionAnimation(sequence, previous, current, collection) ==
  IF /\ sequence = NoSequence /\ collection # NoCollection
     /\ previous.done = collection.collected
  THEN [stage |-> "collect", actor |-> collection.actor,
        card |-> collection.card, from |-> previous.ver, to |-> current.ver,
        act |-> current.act]
  ELSE sequence

CardTransferAnimation(flight, previous, current, collection, transfer) ==
  IF \/ transfer = NoTransfer
     \/ transfer.source = "player" /\ collection # NoCollection
  THEN flight
  ELSE [source |-> transfer.source, actor |-> transfer.actor,
        card |-> transfer.card, from |-> previous.ver, to |-> current.ver,
        act |-> current.act]

animate(b, previous, current) ==
  LET collection == inferCompletedCompositionCollection(previous, current)
      transfer == inferCardTransfer(previous, current)
  IN  [sequence |-> CompletedCompositionAnimation(b.sequence, previous,
                                                  current, collection),
       flight |-> CardTransferAnimation(b.flight, previous, current,
                                        collection, transfer)]

----------------------------------------------------------------------------
(* Which screen is shown. *)

isResultsPhase(c) == c.room.phase \in {"round_over", "game_over"}
resultGame(c) == IF isResultsPhase(c) THEN c.game ELSE c.completed.game
resultRoom(c) ==
  IF isResultsPhase(c) /\ resultGame(c) # NoGame THEN c.room
  ELSE c.completed.room
nextResults(c) ==
  IF resultGame(c) = NoGame THEN NoResult
  ELSE [room |-> resultRoom(c), game |-> resultGame(c)]

shouldDeferResults(t, c) ==
  \/ t.pending # NoResult
  \/ /\ resultGame(c) # NoGame /\ t.currentGame # NoGame /\ c.game # NoGame
     /\ inferCompletedCompositionCollection(t.currentGame, c.game)
          # NoCollection

(* A slip: results once deferred are shown as they were then. *)
useVisibleRoundResultsSlip(t, c) ==
  IF t.currentGame = c.game /\ t.result = nextResults(c) THEN t
  ELSE LET defer == shouldDeferResults(t, c)
       IN  [currentGame |-> c.game, result |-> nextResults(c),
            visible |-> IF defer THEN NoResult ELSE nextResults(c),
            pending |-> IF t.pending # NoResult THEN t.pending
                        ELSE IF defer THEN nextResults(c) ELSE NoResult]

(* The part that runs while rendering.  transitionId is left out: it only  *)
(* restarts the timer, which is set exactly while results are pending.     *)
useVisibleRoundResults(t, c) ==
  IF t.currentGame = c.game /\ t.result = nextResults(c) THEN t
  ELSE LET defer == shouldDeferResults(t, c)
       IN  [currentGame |-> c.game, result |-> nextResults(c),
            visible |-> IF defer THEN NoResult ELSE nextResults(c),
            pending |-> IF defer THEN nextResults(c) ELSE NoResult]

isGameRouteSnapshotResolving(c) ==
  c.room.phase \notin {"none", "lobby"} /\ c.game = NoGame

view(c, t) ==
  IF isGameRouteSnapshotResolving(c) THEN "loading"
  ELSE IF t.visible # NoResult THEN "results"
  ELSE IF c.room.phase \in {"none", "lobby"} THEN "lobby"
  ELSE "board"

----------------------------------------------------------------------------
(* The results screen. *)

(* displayedTotal of the score in a phase. *)
resultScoreState(s, phase) ==
  CASE phase = "previous" -> IF s.unadjusted > s.gained
                             THEN s.unadjusted - s.gained ELSE 0
    [] phase = "round" -> s.unadjusted
    [] phase = "adjusted" -> s.total

(* Counting up ends at the round's score, counting down at the adjusted.   *)
ResultPoints(s, phase) ==
  resultScoreState(s, CASE phase = "counting" -> "round"
                        [] phase = "adjusting" -> "adjusted"
                        [] OTHER -> phase)

rankingRows(g, phase) ==
  SortSeq([p \in Players |-> p],
    LAMBDA p, q :
      \/ resultScoreState(g.scores[p], phase)
           < resultScoreState(g.scores[q], phase)
      \/ /\ resultScoreState(g.scores[p], phase)
              = resultScoreState(g.scores[q], phase)
         /\ p < q)

hasAdjustment(s) ==
  resultScoreState(s, "round") # resultScoreState(s, "adjusted")
changes(s) ==
  \/ resultScoreState(s, "previous") # resultScoreState(s, "round")
  \/ hasAdjustment(s)

scoreTimeline(g) ==
  SelectSeq(rankingRows(g, "previous"), LAMBDA p : changes(g.scores[p]))

phasesOf(s) ==
  IF hasAdjustment(s) THEN <<"counting", "round", "adjusting", "adjusted">>
  ELSE <<"counting", "round", "adjusted">>

(* scheduleScoreReveal: the timers in the order in which they run out. *)
scheduleScoreReveal(g) ==
  FlattenSeq([i \in 1 .. Len(scoreTimeline(g)) |->
                LET p == scoreTimeline(g)[i]
                IN  [j \in 1 .. Len(phasesOf(g.scores[p])) |->
                       [player |-> p, phase |-> phasesOf(g.scores[p])[j]]]])
  \o << [player |-> 0, phase |-> "adjusted"] >>

noPhases == [p \in Players |-> "previous"]
adjustedScorePhases == [p \in Players |-> "adjusted"]

(* A room has one code, so the live room's players stand for the result's. *)
playersForResults(visible, c) ==
  IF c.room = NoRoom THEN visible.room.players ELSE c.room.players

NoTakeover == <<>>
winnerTakeoverKey(visible, c) ==
  IF /\ visible.room.phase = "game_over"
     /\ visible.game.winner \in playersForResults(visible, c)
  THEN <<visible.game.round, visible.game.winner>>
  ELSE NoTakeover

winnerTakeover(visible, c, dismissed) ==
  /\ winnerTakeoverKey(visible, c) # NoTakeover
  /\ winnerTakeoverKey(visible, c) # dismissed

scoreTimelineKey(g, less, paused) ==
  [round |-> g.round, reduced |-> less, scores |-> g.scores,
   paused |-> paused]

NoKey == [round |-> 0]
Unmounted == [dismissed |-> NoTakeover, key |-> NoKey, timers |-> <<>>,
              again |-> FALSE,
              reveal |-> [key |-> NoKey, phases |-> noPhases,
                          reordered |-> FALSE]]

(* The effect of the results screen: a new key clears the timers and, if   *)
(* nothing is to wait for, sets new ones.  What was revealed stays in the  *)
(* state under its own key, and shows again should that key come back, as  *)
(* when the motion setting is changed and changed back; `again` notes it.  *)
useResultScoreReveal(r, g, key) ==
  IF key = r.key THEN r
  ELSE [r EXCEPT !.key = key,
                 !.again = (r.reveal.key = key),
                 !.timers = IF key.paused \/ key.reduced THEN <<>>
                            ELSE scheduleScoreReveal(g)]

GameResultsView(r, visible, c, less) ==
  useResultScoreReveal(r, visible.game,
    scoreTimelineKey(visible.game, less,
                     winnerTakeover(visible, c, r.dismissed)))

(* A slip: what was revealed is shown whatever it was revealed for. *)
revealStateSlip(r) ==
  IF r.key.paused THEN Unmounted.reveal
  ELSE IF r.key.reduced
  THEN [key |-> r.key, phases |-> adjustedScorePhases, reordered |-> TRUE]
  ELSE r.reveal

revealState(r) ==
  IF r.key.paused THEN Unmounted.reveal
  ELSE IF r.key.reduced
  THEN [key |-> r.key, phases |-> adjustedScorePhases, reordered |-> TRUE]
  ELSE IF r.reveal.key = r.key THEN r.reveal
  ELSE Unmounted.reveal

(* ResultsScoreTable: the phase in which each player's score is shown. *)
scorePhase(r, g) ==
  [p \in Players |->
     IF r.key.reduced \/ ~changes(g.scores[p]) THEN "adjusted"
     ELSE revealState(r).phases[p]]

----------------------------------------------------------------------------
(* A render of the page with store `c` and transition `t`. *)

screen == view(client, transition)

renderBoard(c, shown) ==
  IF shown # "board" THEN EmptyBoard
  ELSE IF screen # "board" \/ c.game = client.game THEN board
  ELSE animate(board, client.game, c.game)

renderResults(r, c, t, shown, less) ==
  IF shown # "results" THEN Unmounted
  ELSE GameResultsView(r, t.visible, c, less)

Render(c, t, r, less) ==
  /\ client' = c
  /\ reduced' = less
  /\ transition' = t
  /\ results' = renderResults(r, c, t, view(c, t), less)
  /\ board' = renderBoard(c, view(c, t))

Update(c) == Render(c, useVisibleRoundResults(transition, c), results, reduced)

----------------------------------------------------------------------------
(* Moves. *)

FirstGame == startRound(FirstTotals, 1, 1)
FirstRoom == [phase |-> "in_progress", rev |-> 0, players |-> Players]

Init ==
  /\ server = [room |-> FirstRoom, game |-> FirstGame]
  /\ queue = <<>>
  /\ client = [room |-> FirstRoom, game |-> FirstGame, completed |-> NoResult]
  /\ transition = [currentGame |-> FirstGame, result |-> NoResult,
                   visible |-> NoResult, pending |-> NoResult]
  /\ results = Unmounted
  /\ board = EmptyBoard
  /\ reduced \in BOOLEAN
  /\ moves = 0

Spend == moves < MaxMoves /\ moves' = moves + 1
screenVars == <<client, transition, results, board, reduced>>
InProgress == server.room.phase = "in_progress"

Draw(source) ==
  /\ Spend /\ InProgress /\ server.game.drawn = "none"
  /\ source = "discard" => server.game.pile # <<>>
  /\ broadcastActionSuccess(server.room, drawFrom(server.game, source))
  /\ UNCHANGED screenVars

canPlay(g, play) == g.drawn # "none" /\ g.hand[g.player] > play.cards

PlayTable(play) ==
  /\ Spend /\ InProgress /\ canPlay(server.game, play)
  /\ broadcastActionSuccess(server.room, playTable(server.game, play))
  /\ UNCHANGED screenVars

(* The discard of g, after which the round goes on or is won. *)
endTurn(g) ==
  LET next == discardCard(g, server.game.ver)
  IN  IF next.hand[g.player] > 0
      THEN broadcastActionSuccess(server.room, next)
      ELSE \E gains \in [Players \ {g.player} -> Gains] :
             LET s == roundScores(next, g.player, gains)
             IN  broadcastActionSuccess(
                   [server.room EXCEPT !.phase =
                      IF allOtherPlayersOverHundred(s, g.player)
                      THEN "game_over" ELSE "round_over"],
                   finishRound(next, s))

Discard ==
  /\ Spend /\ InProgress /\ server.game.drawn # "none"
  /\ endTurn(server.game)
  /\ UNCHANGED screenVars

PlayTableAndDiscard(play) ==
  /\ Spend /\ InProgress /\ canPlay(server.game, play)
  /\ endTurn(playTable(server.game, play))
  /\ UNCHANGED screenVars

(* startNextRound and chooseDealing; the choice itself is Room's. *)
StartNextRound ==
  /\ Spend /\ server.room.phase = "round_over"
  /\ broadcastActionSuccess(
       [server.room EXCEPT !.phase = "in_progress"],
       startRound([p \in Players |-> server.game.scores[p].total],
                  server.game.round + 1, server.game.ver + 1))
  /\ UNCHANGED screenVars

(* A new game in the same room.  Versions go on, so that none comes twice, *)
(* with a gap that stands for the end of the game before: its first        *)
(* snapshot never looks like the next after that game's last.              *)
StartGame ==
  /\ Spend /\ server.room.phase = "lobby" /\ server.room.players = Players
  /\ broadcastActionSuccess(
       [server.room EXCEPT !.phase = "in_progress"],
       startRound([p \in Players |-> 0], 1, 2 * moves + 3))
  /\ UNCHANGED screenVars

(* All voted to end the game: nobody wins. *)
EndWithoutWinner ==
  /\ Spend /\ server.room.phase \in {"in_progress", "round_over"}
  /\ broadcastActionSuccess(
       [server.room EXCEPT !.phase = "game_over"],
       [server.game EXCEPT !.winner = 0, !.ver = @ + 1,
                           !.act = [kind |-> "end", actor |-> 0,
                                    card |-> FaceDown]])
  /\ UNCHANGED screenVars

(* Only room_state: somebody's connection or emote. *)
RoomChanges ==
  /\ Spend
  /\ server' = [server EXCEPT !.room.rev = 1 - @]
  /\ queue' = Append(queue, RoomState(server'.room))
  /\ UNCHANGED screenVars

PlayerLeaves(p) ==
  /\ Spend /\ server.room.phase = "lobby"
  /\ p \in server.room.players \ {Viewer}
  /\ server' = [server EXCEPT !.room.players = @ \ {p}]
  /\ queue' = Append(queue, RoomState(server'.room))
  /\ UNCHANGED screenVars

(* The connection breaks and comes back: what was under way is lost, and   *)
(* the server tells how things are now.                                    *)
Reconnect ==
  /\ Spend
  /\ queue' = <<RoomState(server.room)>> \o
              (IF server.game = NoGame THEN <<>>
               ELSE <<GameState(server.room, server.game)>>)
  /\ UNCHANGED <<server, screenVars>>

----------------------------------------------------------------------------
(* The client's steps. *)

reduceRoomState(c, room) ==
  [room |-> room,
   game |-> IF room.phase = "lobby" THEN NoGame ELSE c.game,
   completed |-> IF room.phase = "game_over" /\ c.game # NoGame
                 THEN [room |-> room, game |-> c.game] ELSE c.completed]

reduceGameState(room, g) ==
  [room |-> room, game |-> g,
   completed |-> IF room.phase = "game_over"
                 THEN [room |-> room, game |-> g] ELSE NoResult]

Receive ==
  /\ queue # <<>>
  /\ queue' = Tail(queue)
  /\ Update(IF Head(queue).type = "room_state"
            THEN reduceRoomState(client, Head(queue).room)
            ELSE reduceGameState(Head(queue).room, Head(queue).game))
  /\ UNCHANGED <<server, moves>>

(* A slip: results of a game that is not the store's any more are kept. *)
RevealResultsSlip ==
  /\ transition.pending # NoResult
  /\ transition.pending.game = client.game
  /\ Render(client, [transition EXCEPT !.visible = transition.pending,
                                       !.pending = NoResult],
            results, reduced)
  /\ UNCHANGED <<server, queue, moves>>

(* The timer of useVisibleRoundResults. *)
RevealResults ==
  /\ transition.pending # NoResult
  /\ Render(client, [transition EXCEPT !.visible = transition.pending,
                                       !.pending = NoResult],
            results, reduced)
  /\ UNCHANGED <<server, queue, moves>>

(* The winner's takeover ends, by its timer or by its button. *)
CompleteTakeover ==
  /\ screen = "results"
  /\ winnerTakeover(transition.visible, client, results.dismissed)
  /\ Render(client, transition,
            [results EXCEPT !.dismissed =
               winnerTakeoverKey(transition.visible, client)],
            reduced)
  /\ UNCHANGED <<server, queue, moves>>

setScoreReveal(r, step) ==
  [key |-> r.key,
   phases |-> IF step.player = 0 THEN adjustedScorePhases
              ELSE [(IF r.reveal.key = r.key THEN r.reveal.phases
                     ELSE noPhases) EXCEPT ![step.player] = step.phase],
   reordered |-> step.player = 0]

ScoreTimer ==
  /\ results.timers # <<>>
  /\ results' = [results EXCEPT
                   !.reveal = setScoreReveal(results, Head(results.timers)),
                   !.timers = Tail(@)]
  /\ UNCHANGED <<server, queue, client, transition, board, reduced, moves>>

CollectionStep ==
  /\ board.sequence # NoSequence
  /\ board' = [board EXCEPT !.sequence =
                 IF @.stage = "collect" THEN [@ EXCEPT !.stage = "discard"]
                 ELSE NoSequence]
  /\ UNCHANGED <<server, queue, client, transition, results, reduced, moves>>

FlightEnds ==
  /\ board.flight # NoTransfer
  /\ board' = [board EXCEPT !.flight = NoTransfer]
  /\ UNCHANGED <<server, queue, client, transition, results, reduced, moves>>

(* "Back to lobby" on the results of a finished game. *)
dismissCompletedGame ==
  /\ screen = "results" /\ transition.visible.room.phase = "game_over"
  /\ client.completed # NoResult
  /\ Update([client EXCEPT !.completed = NoResult])
  /\ UNCHANGED <<server, queue, moves>>

ToggleMotion ==
  /\ Spend
  /\ Render(client, transition, results, ~reduced)
  /\ UNCHANGED <<server, queue>>

ServerStep ==
  \/ \E source \in {"deck", "discard"} : Draw(source)
  \/ \E play \in Plays : PlayTable(play)
  \/ Discard
  \/ \E play \in Plays : PlayTableAndDiscard(play)
  \/ StartNextRound
  \/ StartGame
  \/ EndWithoutWinner
  \/ RoomChanges
  \/ \E p \in Players : PlayerLeaves(p)

ClientStep ==
  \/ Receive
  \/ RevealResults
  \/ CompleteTakeover
  \/ ScoreTimer
  \/ CollectionStep
  \/ FlightEnds

Next ==
  \/ ServerStep
  \/ Reconnect
  \/ ClientStep
  \/ dismissCompletedGame
  \/ ToggleMotion

(* Written messages arrive, and timers and animations end. *)
Fairness ==
  /\ WF_vars(Receive)
  /\ WF_vars(RevealResults)
  /\ WF_vars(CompleteTakeover)
  /\ WF_vars(ScoreTimer)
  /\ WF_vars(CollectionStep)
  /\ WF_vars(FlightEnds)

Spec == Init /\ [][Next]_vars /\ Fairness

----------------------------------------------------------------------------
(* Properties. *)

Games == [ver : Nat \ {0}, round : Nat, turn : Nat, player : Players,
          drawn : {"none", "deck", "discard"}, hand : [Players -> Nat],
          done : Nat, pile : Seq(Nat \X Nat), winner : 0 .. NumPlayers,
          scores : [Players -> [total : Nat, gained : Nat,
                                unadjusted : Nat]],
          act : [kind : {"start", "deck", "discard", "play", "place",
                         "collect", "end"},
                 actor : 0 .. NumPlayers, card : Nat \X Nat]]
Rooms == [phase : {"lobby", "in_progress", "round_over", "game_over"},
          rev : {0, 1}, players : SUBSET Players]
Results == {NoResult} \cup [room : Rooms, game : Games]
Phases == {"previous", "counting", "round", "adjusting", "adjusted"}

(* The types; a shown or pending result always has both its room and its   *)
(* game, and a finished round is never on the board with cards played into *)
(* a negative hand (hands are naturals).                                   *)
TypeOK ==
  /\ server \in [room : Rooms, game : Games \cup {NoGame}]
  /\ queue \in Seq([type : {"room_state", "game_state"}, room : Rooms,
                    game : Games \cup {NoGame}])
  /\ client \in [room : Rooms, game : Games \cup {NoGame},
                 completed : Results]
  /\ transition \in [currentGame : Games \cup {NoGame}, result : Results,
                     visible : Results, pending : Results]
  /\ results.reveal.phases \in [Players -> Phases]
  /\ results.timers \in Seq([player : 0 .. NumPlayers, phase : Phases])
  /\ board.sequence.stage \in {"none", "collect", "discard"}
  /\ board.flight.source \in {"none", "deck", "discard", "player"}
  /\ reduced \in BOOLEAN /\ moves \in 0 .. MaxMoves

(* Whatever arrives while results are held back, the results shown or held *)
(* back are the ones of the store now, and one of the two always is.       *)
ResultsAccounted ==
  {transition.visible, transition.pending} = {NoResult, nextResults(client)}

(* Between snapshots of which none was missed, the card that flies is the  *)
(* card that moved, credited to the player who moved it, never the         *)
(* viewer's own; and no move is animated twice.                            *)
AnimationsAreReal ==
  LET real(a, kind) ==
        a.to = a.from + 1 =>
          a.act = [kind |-> kind, actor |-> a.actor, card |-> a.card]
      flight == board.flight
      sequence == board.sequence
  IN  /\ flight # NoTransfer =>
           /\ flight.actor # Viewer
           /\ real(flight, IF flight.source = "player" THEN "place"
                           ELSE flight.source)
      /\ sequence # NoSequence => real(sequence, "collect")
      /\ flight # NoTransfer /\ sequence # NoSequence =>
           flight.to # sequence.to

(* What the score table shows after the first k timers of a game. *)
revealedAfter(g, k) ==
  LET steps == scheduleScoreReveal(g)
      ofPlayer(p) == {i \in 1 .. k : steps[i].player \in {0, p}}
  IN  [p \in Players |->
         IF ~changes(g.scores[p]) THEN "adjusted"
         ELSE IF ofPlayer(p) = {} THEN "previous"
         ELSE steps[Max(ofPlayer(p))].phase]

tableShown == scorePhase(results, transition.visible.game)
pointsShown(p) ==
  ResultPoints(transition.visible.game.scores[p], tableShown[p])

(* The scores are revealed one timer at a time, in the order of the        *)
(* ranking before the round, and anew for other scores: nothing is         *)
(* revealed under the winner's takeover or carried over from the snapshot  *)
(* before, and the ranking is reordered only at the end.  (A key that      *)
(* comes back replays over what it had revealed: results.again.)           *)
ScoresInTurn ==
  [][screen' = "results" /\ ~reduced' /\ ~results'.again =>
       LET g == transition'.visible.game
           last == Len(scheduleScoreReveal(g))
       IN  \E k \in 0 .. last :
             /\ tableShown' = revealedAfter(g, k)
             /\ revealState(results').reordered => k = last
             /\ k > 0 =>
                  /\ screen = "results" /\ results'.key = results.key
                  /\ tableShown \in {revealedAfter(g, k),
                                     revealedAfter(g, k - 1)}]_vars

(* Results there are come to be shown, and all their scores with them:     *)
(* nothing that is deferred, paused or replaced stays so for good.         *)
ResultsSettle ==
  <>[](nextResults(client) # NoResult =>
         /\ screen = "results"
         /\ \A p \in Players :
              pointsShown(p) = transition.visible.game.scores[p].total
         /\ revealState(results).reordered)

(* The board is still mounted, and so knows the snapshot before, when      *)
(* results are held back for its animation.                                *)
BoardKeptWhileDeferring ==
  [][transition'.pending # NoResult /\ transition.pending = NoResult =>
       screen = "board"]_vars

=============================================================================
