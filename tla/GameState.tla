------------------------------- MODULE GameState -------------------------------
(***************************************************************************)
(* The rules engine: internal/game/state.go with hand.go, card_pile.go and *)
(* the round counters of statistics.go.  One GameState from its creation   *)
(* to the end of the game, with every player of the room seated.           *)
(*                                                                         *)
(* Only successful calls are actions: a call that returns an error is      *)
(* undone by the lobby's transaction.                                      *)
(***************************************************************************)
EXTENDS TablePlay, Functions

CONSTANTS
  NumPlayers,       \* players seated when the game starts; seats count from 0
  GameDeck,         \* NewGameDeck: the cards in their unshuffled order
  InitialHandSize,  \* 12 in the code
  PointsLimit,      \* 100 in the code
  Orders(_),        \* bound: the orders, permutations of 1..n, that n cards may be shuffled to
  CutSizes,         \* bound: the cuts a deal chooser may make
  MaxTurns,         \* bound: turns of a round
  MaxRounds         \* bound: rounds of a game

Seats == 0..(NumPlayers - 1)

ASSUME GameAssumption ==
  /\ NumPlayers \in 2..4
  /\ Deck \subseteq [rank : 0..King, suit : 0..4, copy : Nat]
  /\ GameDeck \in Seq(Deck)
  /\ Deck = ToSet(GameDeck)
  /\ IsInjective(GameDeck)
  /\ InitialHandSize \in Nat \ {0}
  /\ PointsLimit \in Nat
  /\ CutSizes \subseteq Nat
  /\ MaxTurns \in Nat /\ MaxRounds \in Nat

\* The 108 cards of the code are more than four hands, the card turned up and one
\* to draw.
ASSUME DeckIsLargeEnough == Len(GameDeck) >= InitialHandSize * NumPlayers + 2

\* A pile after Shuffle, within the orders considered.
Shuffle(pile) ==
  {[i \in 1..Len(pile) |-> pile[f[i]]] :
     f \in {g \in Orders(Len(pile)) : g \in Bijection(1..Len(pile), 1..Len(pile))}}

VARIABLES
  hand, totalPoints, pointsGained, hasOpened, forfeited, statistics, \* per player
  activeCompositions,
  drawPile, discardPile,   \* the first card is the top card
  phase, round, dealerIndex, turn, roundWinnerIndex, gameMode

cardVars   == <<hand, activeCompositions, drawPile, discardPile>>
scoreVars  == <<totalPoints, pointsGained, statistics, roundWinnerIndex, phase>>
roundVars  == <<round, dealerIndex, gameMode>>
vars       == <<cardVars, scoreVars, roundVars, hasOpened, forfeited, turn>>

NoCard == [rank |-> 0, suit |-> 0, copy |-> 0]

Phases == {"lobby", "in_progress", "round_over", "game_over"}
Modes  == {"full", "quick"}
-----------------------------------------------------------------------------
(***************************************************************************)
(* Seats and turns.                                                        *)
(***************************************************************************)
activePlayerIndexes == {p \in Seats : ~forfeited[p]}

\* How many seats clockwise from one seat to another: 1 to NumPlayers.
distance(from, to) == IF to > from THEN to - from ELSE to - from + NumPlayers

\* A slip: the next seat, whether its player is still in the game or not.
nextSeat(active, index) == (index + 1) % NumPlayers

nextActivePlayerIndex(active, index) ==
  IF active = {} THEN index
  ELSE CHOOSE p \in active : \A q \in active : distance(index, p) <= distance(index, q)

previousActivePlayerIndex(active, index) ==
  IF active = {} THEN index
  ELSE CHOOSE p \in active : \A q \in active : distance(p, index) <= distance(q, index)

newTurn(number, playerIndex) ==
  [number |-> number, playerIndex |-> playerIndex, hasDrawn |-> FALSE,
   mustUseDiscardDraw |-> FALSE, discardDrawCard |-> NoCard]

\* finishRound, ForfeitPlayer and EndWithoutWinner stop the turn where it is.
stoppedTurn(t) == newTurn(t.number, t.playerIndex)

\* Slips: the recycled cards stay on the discard pile; the refill is forgotten.
recycleLeavingDiscards(draw, discard) ==
  IF draw # <<>> \/ Len(discard) <= 1 THEN [draw |-> draw, discard |-> discard]
  ELSE [draw |-> Reverse(Tail(discard)), discard |-> discard]

recycleForgotten(draw, discard) == [draw |-> draw, discard |-> discard]

\* An empty draw pile is refilled from the discard pile, all but its top card.
recycleDiscardIntoDrawPileIfNeeded(draw, discard) ==
  LET n == Len(discard)
  IN  IF draw # <<>> \/ n <= 1 THEN [draw |-> draw, discard |-> discard]
      ELSE [draw    |-> [i \in 1..(n - 1) |-> discard[n + 1 - i]],
            discard |-> <<discard[1]>>]

advanceTurn(active, draw, discard) ==
  LET piles == recycleDiscardIntoDrawPileIfNeeded(draw, discard)
  IN  /\ turn.number < MaxTurns
      /\ turn' = newTurn(turn.number + 1, nextActivePlayerIndex(active, turn.playerIndex))
      /\ drawPile' = piles.draw
      /\ discardPile' = piles.discard
-----------------------------------------------------------------------------
(***************************************************************************)
(* Scoring.                                                                *)
(***************************************************************************)

\* The sum of the cards' points, as the number of pips on them.
HandPoints(cards) ==
  IF Cardinality(cards) = 1 /\ \A c \in cards : c.rank = Ace THEN 1
  ELSE Cardinality({pip \in cards \X (1..20) : pip[2] <= CardPoints(pip[1])})

hasSameSuitCollection(cards) ==
  /\ Cardinality(cards) = InitialHandSize
  /\ \A c, d \in cards : ~IsJoker(c) /\ ~IsJoker(d) => c.suit = d.suit

hasSixIdenticalPairs(cards) ==
  LET Equal(c) == {d \in cards : cardsEqual(c, d)}
      jokers   == {c \in cards : IsJoker(c)}
      odd      == {Equal(c) : c \in {d \in cards \ jokers : Cardinality(Equal(d)) % 2 = 1}}
  IN  /\ Cardinality(cards) = InitialHandSize
      /\ Cardinality(jokers) >= Cardinality(odd)

hasSpecialWinningHand(cards) == hasSameSuitCollection(cards) \/ hasSixIdenticalPairs(cards)

recordRoundResult(stats, rnd, won) ==
  IF stats.roundsPlayed < rnd \/ stats.lastRecordedRound = rnd THEN stats
  ELSE [stats EXCEPT !.lastRecordedRound = rnd,
                     !.roundsWon = IF won THEN @ + 1 ELSE @]

\* Slip: one player over the limit ends the game.
anyOtherPlayerOverHundred(totals, winner) ==
  \E p \in activePlayerIndexes \ {winner} : totals[p] > PointsLimit

allOtherPlayersOverHundred(totals, winner) ==
  \A p \in activePlayerIndexes \ {winner} : totals[p] > PointsLimit

\* Slips: the highest score of all players, or the lowest that is within the limit.
fallBackToHighest(totals) ==
  LET highest == CHOOSE p \in activePlayerIndexes :
                   \A q \in activePlayerIndexes : totals[q] <= totals[p]
  IN  [p \in Seats |-> IF p \in activePlayerIndexes /\ totals[p] > PointsLimit
                       THEN totals[highest] ELSE totals[p]]

fallBackToLowest(totals) ==
  LET lowest == CHOOSE p \in activePlayerIndexes :
                  \A q \in activePlayerIndexes : totals[p] <= totals[q]
  IN  [p \in Seats |-> IF p \in activePlayerIndexes /\ totals[p] > PointsLimit
                       THEN totals[lowest] ELSE totals[p]]

\* Whoever is over the limit falls back to the best score of those who are not.
applyOverHundredAdjustment(totals) ==
  LET remaining == {p \in activePlayerIndexes : totals[p] <= PointsLimit}
      highest   == CHOOSE p \in remaining : \A q \in remaining : totals[q] <= totals[p]
  IN  [p \in Seats |-> IF p \in activePlayerIndexes \ remaining /\ remaining # {}
                       THEN totals[highest] ELSE totals[p]]

\* hands and stats are those at the end of the round.
finishRound(winner, hands, stats) ==
  LET gained == [p \in Seats |-> IF p = winner \/ forfeited[p] THEN 0 ELSE HandPoints(hands[p])]
      totals == [p \in Seats |-> totalPoints[p] + gained[p]]
      over   == gameMode' = "quick" \/ allOtherPlayersOverHundred(totals, winner)
  IN  /\ roundWinnerIndex' = winner
      /\ pointsGained' = gained
      /\ statistics' = [p \in Seats |-> recordRoundResult(stats[p], round, p = winner)]
      /\ totalPoints' = IF over THEN totals ELSE applyOverHundredAdjustment(totals)
      /\ phase' = IF over THEN "game_over" ELSE "round_over"
-----------------------------------------------------------------------------
(***************************************************************************)
(* Dealing.                                                                *)
(***************************************************************************)

\* The place of an active player in the clockwise order that starts after the dealer.
dealPosition(active, dealer, p) ==
  Cardinality({q \in active : distance(dealer, q) <= distance(dealer, p)})

\* Which cards of the main pile, counted from the top, a player receives.
dealRoundRobinActive(active, dealer, p) ==
  {j * Cardinality(active) + dealPosition(active, dealer, p) : j \in 0..(InitialHandSize - 1)}

dealInBlocksActive(order, p) ==
  LET block == CHOOSE i \in DOMAIN order : order[i] = p
  IN  {(block - 1) * InitialHandSize + j : j \in 1..InitialHandSize}

\* A deal: one card at a time from the dealer's left, or a hand at a time in the
\* order the deal chooser names.
Deals(active) ==
  [type : {"round_robin"}, order : {<<>>}, cutSize : CutSizes]
    \cup [type : {"in_blocks"}, order : Bijection(1..Cardinality(active), active),
          cutSize : CutSizes]

dealInitialHands(active, dealer, deal, main) ==
  [p \in Seats |->
     IF p \notin active THEN {}
     ELSE {main[k] : k \in IF deal.type = "round_robin"
                           THEN dealRoundRobinActive(active, dealer, p)
                           ELSE dealInBlocksActive(deal.order, p)}]

\* resetRoundState and startRound.  The first seat dealt a special hand wins the
\* round before it is played.
startRound(dealer, chooser, deal, deck) ==
  LET active   == activePlayerIndexes
      required == InitialHandSize * Cardinality(active)
      main     == SubSeq(deck, deal.cutSize + 1, Len(deck))
      setAside == SubSeq(deck, 1, deal.cutSize)
      rest     == SubSeq(main, required + 1, Len(main)) \o setAside
      hands    == dealInitialHands(active, dealer, deal, main)
      special  == {p \in active : hasSpecialWinningHand(hands[p])}
      stats    == [p \in Seats |->
                     [statistics[p] EXCEPT !.roundsPlayed = IF p \in active THEN @ + 1 ELSE @]]
  IN  /\ Cardinality(active) >= 2
      /\ dealer \in active
      /\ chooser = previousActivePlayerIndex(active, dealer)
      /\ Len(deck) >= required + 1
      /\ deal.cutSize <= Len(deck) - required
      /\ dealerIndex' = dealer
      /\ hand' = hands
      /\ hasOpened' = [p \in Seats |-> FALSE]
      /\ activeCompositions' = {}
      /\ drawPile' = Tail(rest)
      /\ discardPile' = <<Head(rest)>>
      /\ UNCHANGED forfeited
      /\ IF special # {}
         THEN /\ finishRound(Min(special), hands, stats)
              /\ turn' = newTurn(1, 0)
         ELSE /\ turn' = newTurn(1, nextActivePlayerIndex(active, dealer))
              /\ phase' = "in_progress"
              /\ roundWinnerIndex' = -1
              /\ pointsGained' = [p \in Seats |-> 0]
              /\ statistics' = stats
              /\ UNCHANGED totalPoints

StartGameWithMode(dealer, chooser, deal, mode) ==
  /\ phase = "lobby"
  /\ gameMode' = mode
  /\ startRound(dealer, chooser, deal, drawPile)
  /\ UNCHANGED round

\* The round number moves on only after the new round was dealt.
StartNextRound(deal, deck) ==
  /\ phase = "round_over"
  /\ round < MaxRounds
  /\ UNCHANGED gameMode
  /\ LET dealer == nextActivePlayerIndex(activePlayerIndexes, dealerIndex)
     IN  startRound(dealer, previousActivePlayerIndex(activePlayerIndexes, dealer), deal, deck)
  /\ round' = round + 1
-----------------------------------------------------------------------------
(***************************************************************************)
(* A turn.                                                                 *)
(***************************************************************************)
\* Slip: the player may draw again in the same turn.
DrawFromDeckAgain ==
  LET piles == recycleDiscardIntoDrawPileIfNeeded(drawPile, discardPile)
  IN  /\ phase = "in_progress"
      /\ piles.draw # <<>>
      /\ hand' = [hand EXCEPT ![turn.playerIndex] = @ \cup {Head(piles.draw)}]
      /\ drawPile' = Tail(piles.draw)
      /\ discardPile' = piles.discard
      /\ turn' = [turn EXCEPT !.hasDrawn = TRUE]
      /\ UNCHANGED <<activeCompositions, scoreVars, roundVars, hasOpened, forfeited>>

DrawFromDeck ==
  LET piles == recycleDiscardIntoDrawPileIfNeeded(drawPile, discardPile)
      p     == turn.playerIndex
  IN  /\ phase = "in_progress"
      /\ ~forfeited[p]
      /\ ~turn.hasDrawn
      /\ piles.draw # <<>>
      /\ hand' = [hand EXCEPT ![p] = @ \cup {Head(piles.draw)}]
      /\ drawPile' = Tail(piles.draw)
      /\ discardPile' = piles.discard
      /\ turn' = [newTurn(turn.number, p) EXCEPT !.hasDrawn = TRUE]
      /\ UNCHANGED <<activeCompositions, scoreVars, roundVars, hasOpened, forfeited>>

DrawFromDiscard ==
  LET p == turn.playerIndex
      d == Head(discardPile)
  IN  /\ phase = "in_progress"
      /\ ~forfeited[p]
      /\ ~turn.hasDrawn
      /\ discardPile # <<>>
      /\ canTakeDiscardNow(hand[p], d, hasOpened[p], activeCompositions)
      /\ hand' = [hand EXCEPT ![p] = @ \cup {d}]
      /\ discardPile' = Tail(discardPile)
      /\ turn' = [turn EXCEPT !.hasDrawn = TRUE, !.mustUseDiscardDraw = TRUE,
                              !.discardDrawCard = d]
      /\ UNCHANGED <<activeCompositions, drawPile, scoreVars, roundVars, hasOpened, forfeited>>

\* The hand and the table that an accepted request leaves the current player.
tablePlay(table, req) ==
  LET p == turn.playerIndex
  IN  IF /\ phase = "in_progress"
         /\ turn.hasDrawn
         /\ ~forfeited[p]
         /\ req.comps # {} \/ req.additions # {} \/ req.reclaims # {}
         /\ turn.mustUseDiscardDraw => tablePlayUsesCard(req, turn.discardDrawCard)
      THEN applyTablePlayState(hand[p], hasOpened[p], table, req)
      ELSE {}

PlayTable(req) ==
  LET p == turn.playerIndex
  IN  \E next \in tablePlay(activeCompositions, req) :
        /\ hand' = [hand EXCEPT ![p] = next.hand]
        /\ activeCompositions' = next.table
        /\ hasOpened' = [hasOpened EXCEPT ![p] = TRUE]
        /\ turn' = [turn EXCEPT !.mustUseDiscardDraw = FALSE]
        /\ UNCHANGED <<drawPile, discardPile, scoreVars, roundVars, forfeited>>

\* The cards of the completed compositions as they lie on the discard pile: each
\* composition's cards together and in their order.
removeCompletedCompositionsToDiscard(table) ==
  LET complete == {c \in table : isComplete(c)}
  IN  {t \in SetToSeqs(UNION {ToSet(c.cards) : c \in complete}) :
         \A c \in complete : \E o \in 0..Len(t) :
           o + Len(c.cards) <= Len(t) /\ SubSeq(t, o + 1, o + Len(c.cards)) = c.cards}

\* The current player, with this hand and this table, discards one of these cards.
discardAndEndTurn(cards, table, card) ==
  LET p    == turn.playerIndex
      left == cards \ {card}
  IN  /\ hand' = [hand EXCEPT ![p] = left]
      /\ activeCompositions' = {c \in table : ~isComplete(c)}
      /\ UNCHANGED <<roundVars, forfeited>>
      /\ \E completed \in removeCompletedCompositionsToDiscard(table) :
           LET pile == <<card>> \o completed \o discardPile
           IN  IF left = {} \/ hasSpecialWinningHand(left)
               THEN /\ finishRound(p, [hand EXCEPT ![p] = left], statistics)
                    /\ turn' = stoppedTurn(turn)
                    /\ discardPile' = pile
                    /\ UNCHANGED drawPile
               ELSE /\ advanceTurn(activePlayerIndexes, drawPile, pile)
                    /\ UNCHANGED scoreVars

DiscardFromHand(card) ==
  /\ phase = "in_progress"
  /\ turn.hasDrawn
  /\ ~turn.mustUseDiscardDraw
  /\ ~forfeited[turn.playerIndex]
  /\ discardAndEndTurn(hand[turn.playerIndex], activeCompositions, card)
  /\ UNCHANGED hasOpened

\* The compositions as RestoreGameState rebuilds them from their cards.
restoredTable ==
  IF \A c \in activeCompositions : newComposition(c.cards, c.variant) # {}
  THEN {{CHOOSE d \in newComposition(c.cards, c.variant) : TRUE : c \in activeCompositions}}
  ELSE {}

\* The request is applied to a restored copy, which replaces the game only if the
\* discard succeeds too.
PlayTableAndDiscard(table, req) ==
  \E next \in tablePlay(table, req) :
    /\ \E card \in next.hand : discardAndEndTurn(next.hand, next.table, card)
    /\ hasOpened' = [hasOpened EXCEPT ![turn.playerIndex] = TRUE]
-----------------------------------------------------------------------------
(***************************************************************************)
(* Leaving and ending.                                                     *)
(***************************************************************************)
ForfeitPlayer(p) ==
  LET active == activePlayerIndexes \ {p}
      order  == 1 + Max({0} \cup {statistics[q].forfeitOrder : q \in Seats \ {p}})
      stats  == [statistics EXCEPT ![p].forfeitOrder = order]
  IN  /\ phase \in {"in_progress", "round_over"}
      /\ ~forfeited[p]
      /\ hand' = [hand EXCEPT ![p] = {}]
      /\ pointsGained' = [pointsGained EXCEPT ![p] = 0]
      /\ forfeited' = [forfeited EXCEPT ![p] = TRUE]
      /\ UNCHANGED <<activeCompositions, totalPoints, hasOpened, roundVars>>
      /\ \E draw \in IF hand[p] = {} THEN {drawPile} ELSE Shuffle(drawPile \o SetToSeq(hand[p])) :
           IF Cardinality(active) # 1 /\ phase = "in_progress" /\ turn.playerIndex = p
           THEN advanceTurn(active, draw, discardPile)
           ELSE /\ drawPile' = draw
                /\ UNCHANGED discardPile
                /\ turn' = IF Cardinality(active) = 1 THEN stoppedTurn(turn) ELSE turn
      /\ IF Cardinality(active) = 1
         THEN \E winner \in active :
                /\ statistics' = [q \in Seats |-> recordRoundResult(stats[q], round, q = winner)]
                /\ roundWinnerIndex' = winner
                /\ phase' = "game_over"
         ELSE /\ statistics' = stats
              /\ UNCHANGED <<roundWinnerIndex, phase>>

EndWithoutWinner ==
  /\ phase \in {"in_progress", "round_over"}
  /\ phase' = "game_over"
  /\ roundWinnerIndex' = -1
  /\ turn' = stoppedTurn(turn)
  /\ UNCHANGED <<cardVars, totalPoints, pointsGained, statistics, roundVars, hasOpened, forfeited>>
-----------------------------------------------------------------------------
Init ==
  /\ hand = [p \in Seats |-> {}]
  /\ totalPoints = [p \in Seats |-> 0]
  /\ pointsGained = [p \in Seats |-> 0]
  /\ hasOpened = [p \in Seats |-> FALSE]
  /\ forfeited = [p \in Seats |-> FALSE]
  /\ statistics = [p \in Seats |-> [roundsPlayed |-> 0, roundsWon |-> 0,
                                    lastRecordedRound |-> 0, forfeitOrder |-> 0]]
  /\ activeCompositions = {}
  /\ drawPile \in Shuffle(GameDeck)
  /\ discardPile = <<>>
  /\ phase = "lobby"
  /\ round = 1
  /\ dealerIndex = 0
  /\ turn = newTurn(1, 0)
  /\ roundWinnerIndex = -1
  /\ gameMode = "full"

Next ==
  \/ \E dealer, chooser \in Seats, deal \in Deals(activePlayerIndexes), mode \in Modes :
       StartGameWithMode(dealer, chooser, deal, mode)
  \/ \E deal \in Deals(activePlayerIndexes), deck \in Shuffle(GameDeck) : StartNextRound(deal, deck)
  \/ DrawFromDeck
  \/ DrawFromDiscard
  \/ \E req \in Requests(hand[turn.playerIndex], activeCompositions) : PlayTable(req)
  \/ \E table \in restoredTable :
       \E req \in Requests(hand[turn.playerIndex], table) : PlayTableAndDiscard(table, req)
  \/ \E card \in hand[turn.playerIndex] : DiscardFromHand(card)
  \/ \E p \in Seats : ForfeitPlayer(p)
  \/ EndWithoutWinner

Spec == Init /\ [][Next]_vars
-----------------------------------------------------------------------------
(***************************************************************************)
(* Properties.                                                             *)
(***************************************************************************)
Turns ==
  [number : Nat, playerIndex : Seats, hasDrawn : BOOLEAN, mustUseDiscardDraw : BOOLEAN,
   discardDrawCard : Deck \cup {NoCard}]

Counters == [roundsPlayed : Nat, roundsWon : Nat, lastRecordedRound : Nat, forfeitOrder : Nat]

\* Every field of GameState holds what its Go type and its uses allow.
TypeOK ==
  /\ hand \in [Seats -> SUBSET Deck]
  /\ totalPoints \in [Seats -> Nat]
  /\ pointsGained \in [Seats -> Nat]
  /\ hasOpened \in [Seats -> BOOLEAN]
  /\ forfeited \in [Seats -> BOOLEAN]
  /\ statistics \in [Seats -> Counters]
  /\ activeCompositions \subseteq Compositions
  /\ drawPile \in Seq(Deck)
  /\ discardPile \in Seq(Deck)
  /\ phase \in Phases
  /\ round \in Nat \ {0}
  /\ dealerIndex \in Seats
  /\ turn \in Turns
  /\ roundWinnerIndex \in Seats \cup {-1}
  /\ gameMode \in Modes

\* The cards of a table, and a table on which no card lies twice.
cardsOf(table) == UNION {ToSet(c.cards) : c \in table}

noCardTwice(table) ==
  /\ \A c \in table : IsInjective(c.cards)
  /\ \A c, d \in table : c = d \/ ToSet(c.cards) \cap ToSet(d.cards) = {}

\* Dealing, playing, reclaiming, completing, recycling and forfeiting never lose or
\* duplicate a card: every physical card is in exactly one place, once.
CardsConserved ==
  LET held    == UNION {hand[p] : p \in Seats}
      table   == cardsOf(activeCompositions)
      draw    == ToSet(drawPile)
      discard == ToSet(discardPile)
  IN  /\ held \cup table \cup draw \cup discard = Deck
      /\ held \cap table = {} /\ (held \cup table) \cap draw = {}
      /\ (held \cup table \cup draw) \cap discard = {}
      /\ \A p, q \in Seats : p = q \/ hand[p] \cap hand[q] = {}
      /\ noCardTwice(activeCompositions)
      /\ IsInjective(drawPile) /\ IsInjective(discardPile)

\* DrawFromDeck's ErrNotEnoughCardsInDrawPile is unreachable: whoever has to draw
\* finds a card, and the discard pile can be recycled in time for the next player.
DrawNeverBlocks ==
  phase = "in_progress" /\ ~turn.hasDrawn =>
    recycleDiscardIntoDrawPileIfNeeded(drawPile, discardPile).draw # <<>>

\* During a round the turn belongs to a player who is still in the game, there is
\* somebody to play against, and nobody in the game is without cards.
TurnIsPlayable ==
  phase = "in_progress" =>
    /\ ~forfeited[turn.playerIndex]
    /\ Cardinality(activePlayerIndexes) >= 2
    /\ \A p \in activePlayerIndexes : hand[p] # {}

\* canTakeDiscardNow numbers the cards of a hand with the bits of a uint32, and the
\* special hands are recognised by their size: plays, reclaims and discards never let
\* a hand grow beyond its first size and the card drawn this turn.
HandStaysBounded ==
  phase = "in_progress" =>
    \A p \in Seats : Cardinality(hand[p]) <=
      IF turn.hasDrawn /\ turn.playerIndex = p THEN InitialHandSize + 1 ELSE InitialHandSize

\* A round only starts, and is only played, while every player in the game is within
\* the limit: the over-hundred adjustment leaves nobody above it, also after forfeits.
NobodyPlaysAboveLimit ==
  phase \in {"in_progress", "round_over"} =>
    \A p \in activePlayerIndexes : totalPoints[p] <= PointsLimit

\* Whoever is recorded as the winner of a finished game is still in the game and has
\* strictly fewer points than everybody else who is.
WinnerHasFewestPoints ==
  phase = "game_over" /\ roundWinnerIndex # -1 =>
    /\ ~forfeited[roundWinnerIndex]
    /\ \A p \in activePlayerIndexes \ {roundWinnerIndex} :
         totalPoints[roundWinnerIndex] < totalPoints[p]

\* RULES.md: players above the limit "reset to the highest score among remaining
\* players".  The adjustment never turns the ranking round: whoever had no more points
\* than another player when the round was counted has no more after it.
AdjustmentKeepsRanking ==
  [][phase' = "round_over" /\ ~(phase = "round_over" /\ round' = round) =>
       \A p, q \in activePlayerIndexes :
         totalPoints[p] + pointsGained'[p] <= totalPoints[q] + pointsGained'[q]
           => totalPoints'[p] <= totalPoints'[q]]_vars

\* RULES.md allows taking the discard "if that card can be used immediately in that
\* turn": after DrawFromDiscard some table play with that card is accepted.
DiscardDrawIsPlayable ==
  phase = "in_progress" /\ turn.mustUseDiscardDraw =>
    \E req \in Requests(hand[turn.playerIndex], activeCompositions) :
      tablePlay(activeCompositions, req) # {}

\* STATISTICS.md: the winner of a round gets "rounds_won += 1".  Between rounds the
\* rounds won by all players are the rounds that were finished.
RoundsWonAccounted ==
  phase = "round_over" => MapThenSumSet(LAMBDA p : statistics[p].roundsWon, Seats) = round
================================================================================
