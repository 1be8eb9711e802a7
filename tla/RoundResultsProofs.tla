-------------------------- MODULE RoundResultsProofs --------------------------
(***************************************************************************)
(* What is shown or held back when a round ends are the store's results,   *)
(* and what flies over the board is what moved, for every number of        *)
(* players, hand size and penalty, and for any number of moves.            *)
(***************************************************************************)
EXTENDS RoundResults, SequenceTheorems, TLAPS

-----------------------------------------------------------------------------
(***************************************************************************)
(* Results.                                                                *)
(***************************************************************************)
\* What the hook remembers is the store of now: its game, and the results there
\* are to show, either shown or held back.
Remembered ==
  /\ transition.currentGame = client.game
  /\ transition.result = nextResults(client)
  /\ \/ transition.visible = NoResult /\ transition.pending = transition.result
     \/ transition.visible = transition.result /\ transition.pending = NoResult

-----------------------------------------------------------------------------
(***************************************************************************)
(* Snapshots.  A card of the pile is named by the version that put it      *)
(* there, and a pile is empty only while its last card is in the hand of   *)
(* the player who drew it.                                                 *)
(***************************************************************************)
IsSnapshot(g) ==
  /\ g \in [ver : Nat \ {0}, round : Nat, turn : Nat, player : Players,
            drawn : {"none", "deck", "discard"}, hand : [Players -> Nat],
            done : Nat, pile : Seq(Nat \X Nat), winner : {g.winner},
            scores : {g.scores}, act : {g.act}]
  /\ \A i \in DOMAIN g.pile : g.pile[i][1] <= g.ver
  /\ g.drawn # "discard" => g.pile # <<>>

\* The turn is where it was, and a hand that is empty stays so.
SameTurn(g, h) ==
  /\ h.round = g.round /\ h.turn = g.turn /\ h.player = g.player
  /\ h.hand[h.player] # 0 => g.hand[g.player] # 0

\* A card is drawn.
Drew(g, h) ==
  /\ SameTurn(g, h) /\ g.drawn = "none" /\ h.drawn \in {"deck", "discard"}
  /\ h.drawn = "deck" => h.pile = g.pile
  /\ h.drawn = "discard" => g.pile # <<>> /\ h.pile = Tail(g.pile)
  /\ h.act = [kind |-> h.drawn, actor |-> g.player,
              card |-> IF h.drawn = "discard" THEN g.pile[1] ELSE FaceDown]

\* Cards are played, or the game is ended by a vote.
Stayed(g, h) == SameTurn(g, h) /\ h.drawn = g.drawn /\ h.pile = g.pile

\* A card is discarded, the completed compositions below it; with it the round
\* may be won.
Discarded(g, h) ==
  \E done \in {g.done, g.done + CompletedCards} :
    /\ h.round = g.round /\ h.drawn = "none"
    /\ h.turn = g.turn + 1 \/ (SameTurn(g, h) /\ h.hand[h.player] = 0)
    /\ h.pile = [i \in 1 .. done + 1 |-> <<h.ver, i - 1>>] \o g.pile
    /\ h.act = [kind |-> IF done = 0 THEN "place" ELSE "collect",
                actor |-> g.player, card |-> <<h.ver, 0>>]

\* The next round is dealt.
Dealt(g, h) ==
  /\ h.round = g.round + 1 /\ h.pile = << <<h.ver, 0>> >>
  /\ h.drawn = "none" /\ g.pile # <<>>

\* h is g after one move.
Moved(g, h) ==
  /\ h.ver = g.ver + 1
  /\ \/ Drew(g, h)
     \/ Stayed(g, h)
     \/ Discarded(g, h)
     \/ Dealt(g, h)

\* h is a later snapshot than g: of a later game, round or turn, or of the same
\* turn, in which the pile only shrinks until the round is won.
Later(g, h) ==
  \/ \A i \in DOMAIN h.pile : h.pile[i][1] > g.ver
  \/ g.round < h.round
  \/ g.round = h.round /\ g.turn < h.turn
  \/ /\ g.round = h.round /\ g.turn = h.turn
     /\ h.hand[h.player] # 0 => Len(h.pile) <= Len(g.pile)

\* Of two snapshots under way, h follows g; a move apart, if their versions say so.
Follows(g, h) ==
  g # NoGame /\ h # NoGame /\ g # h =>
    g.ver < h.ver /\ (h.ver = g.ver + 1 => Moved(g, h)) /\ Later(g, h)

\* No version in use is above the one that a new game would start with.
Known(g, n) == IsSnapshot(g) /\ g.ver <= 2 * n + 1

\* Everybody in the game has cards.
AllHold(g) == \A p \in Players : g.hand[p] >= 1

ServerOK ==
  /\ server.room.phase \in {"lobby", "in_progress", "round_over"}
  /\ server.game = NoGame <=> server.room.phase = "lobby"
  /\ server.room.phase = "in_progress" =>
       AllHold(server.game)
  /\ server.room.phase = "round_over" => server.game.pile # <<>>

\* The client's game, what is under way to it and the server's, in this order.
Ordered(shown, q, last, n) ==
  /\ shown # NoGame => Known(shown, n)
  /\ last # NoGame => Known(last, n)
  /\ Follows(shown, last)
  /\ \A i \in DOMAIN q : q[i].type # "room_state" =>
       /\ Known(q[i].game, n)
       /\ Follows(shown, q[i].game)
       /\ Follows(q[i].game, last)
  /\ \A i, j \in DOMAIN q :
       i < j /\ q[i].type # "room_state" /\ q[j].type # "room_state" =>
         Follows(q[i].game, q[j].game)

InOrder == Ordered(client.game, queue, server.game, moves)

\* A message queue and the parts of the state have the form they are given.
IsQueue(q) == Len(q) \in Nat /\ q = [i \in 1 .. Len(q) |-> q[i]]

Shapes ==
  /\ moves \in Nat /\ IsQueue(queue)
  /\ server = [room |-> server.room, game |-> server.game]
  /\ server.room \in Rooms
  /\ client = [room |-> client.room, game |-> client.game,
               completed |-> client.completed]
  /\ transition = [currentGame |-> transition.currentGame,
                   result |-> transition.result,
                   visible |-> transition.visible,
                   pending |-> transition.pending]
  /\ board = [sequence |-> board.sequence, flight |-> board.flight]

\* What a single animation says of the move it shows.
RealMove(a, kind) ==
  a.to = a.from + 1 => a.act = [kind |-> kind, actor |-> a.actor, card |-> a.card]

RealFlight(f) ==
  f # NoTransfer =>
    f.actor # Viewer /\ RealMove(f, IF f.source = "player" THEN "place" ELSE f.source)

RealSequence(s) == s # NoSequence => RealMove(s, "collect")

SequenceShape(s) ==
  s # NoSequence => s = [stage |-> s.stage, actor |-> s.actor, card |-> s.card,
                         from |-> s.from, to |-> s.to, act |-> s.act]

\* The board b shows real moves, none of them twice and none after version v.
RealBoard(b, v) ==
  /\ RealFlight(b.flight) /\ RealSequence(b.sequence)
  /\ b.flight # NoTransfer /\ b.sequence # NoSequence => b.flight.to # b.sequence.to
  /\ b.flight # NoTransfer => b.flight.to \in Nat /\ b.flight.to <= v
  /\ b.sequence # NoSequence => b.sequence.to \in Nat /\ b.sequence.to <= v
  /\ SequenceShape(b.sequence)

\* Only a board that is shown animates, and nothing that it was not shown yet.
BoardOK ==
  /\ board # EmptyBoard => screen = "board"
  /\ RealBoard(board, client.game.ver)

ResultsInv == Shapes /\ Remembered /\ ServerOK /\ InOrder /\ BoardOK

-----------------------------------------------------------------------------
(***************************************************************************)
(* What a move makes of a snapshot.                                        *)
(***************************************************************************)
\* A sequence without its first item.
LEMMA TailItems ==
  ASSUME NEW S, NEW s \in Seq(S), s # <<>>
  PROVE  \A i \in DOMAIN Tail(s) : i + 1 \in DOMAIN s /\ Tail(s)[i] = s[i + 1]
<1> DEFINE r == Tail(s)
           m == Len(s)
           l == Len(r)
<1>1. /\ r \in Seq(S) /\ l = m - 1
      /\ \A i \in 1 .. l : r[i] = s[i + 1]
  BY HeadTailProperties
<1>2. l \in Nat /\ m \in Nat /\ DOMAIN r = 1 .. l /\ DOMAIN s = 1 .. m
  BY <1>1
<1> HIDE DEF r, l, m
<1>3. \A i \in 1 .. l : i + 1 \in 1 .. m
  BY <1>1, <1>2
<1>4. \A i \in DOMAIN r : i + 1 \in DOMAIN s /\ r[i] = s[i + 1]
  BY <1>1, <1>2, <1>3
<1> QED BY <1>4 DEF r

\* Drawing.
LEMMA DrawMoves ==
  ASSUME NEW g, IsSnapshot(g), AllHold(g), NEW source \in {"deck", "discard"},
         g.drawn = "none"
  PROVE  LET h == drawFrom(g, source)
         IN  IsSnapshot(h) /\ AllHold(h) /\ Moved(g, h)
<1> DEFINE h == drawFrom(g, source)
           hand == [g.hand EXCEPT ![g.player] = @ + 1]
           pile == IF source = "discard" THEN Tail(g.pile) ELSE g.pile
           act == [kind |-> source, actor |-> g.player,
                   card |-> IF source = "discard" THEN Head(g.pile) ELSE FaceDown]
<1>1. /\ h.ver = g.ver + 1 /\ h.round = g.round /\ h.turn = g.turn
      /\ h.player = g.player /\ h.drawn = source /\ h.hand = hand
      /\ h.done = g.done /\ h.pile = pile /\ h.winner = g.winner
      /\ h.scores = g.scores /\ h.act = act
  BY DEF drawFrom, IsSnapshot
<1>2. hand \in [Players -> Nat] /\ (\A p \in Players : hand[p] >= 1)
  BY DEF IsSnapshot, AllHold
<1>3. g.pile # <<>> /\ g.pile \in Seq(Nat \X Nat)
  BY DEF IsSnapshot
<1>4. Head(g.pile) = g.pile[1] /\ Tail(g.pile) \in Seq(Nat \X Nat)
  BY <1>3, HeadTailProperties
<1>5. \A i \in DOMAIN Tail(g.pile) : i + 1 \in DOMAIN g.pile /\ Tail(g.pile)[i] = g.pile[i + 1]
  BY ONLY <1>3, TailItems
<1>6. pile \in Seq(Nat \X Nat)
  BY <1>3, <1>4
<1>7. \A i \in DOMAIN pile : pile[i][1] <= g.ver + 1
  <2> SUFFICES ASSUME NEW i \in DOMAIN pile
               PROVE  pile[i][1] <= g.ver + 1
    OBVIOUS
  <2>1. PICK j \in DOMAIN g.pile : pile[i] = g.pile[j]
    BY <1>5
  <2>2. g.pile[j] \in Nat \X Nat
    BY <1>3
  <2> HIDE DEF pile
  <2>3. g.pile[j][1] <= g.ver /\ g.pile[j][1] \in Nat /\ g.ver \in Nat
    BY <2>2 DEF IsSnapshot
  <2> QED BY <2>1, <2>3
<1>8. g.ver \in Nat /\ g.player \in Players
  BY DEF IsSnapshot
<1>9. IsSnapshot(h)
  <2>1. h = [g EXCEPT !.ver = g.ver + 1, !.drawn = source, !.hand = hand,
                      !.pile = pile, !.act = act]
    BY DEF drawFrom, IsSnapshot
  <2>2. source # "discard" => pile # <<>>
    BY <1>3
  <2>3. g.ver + 1 \in Nat \ {0} /\ source \in {"none", "deck", "discard"}
    BY <1>8
  <2> HIDE DEF hand, pile, act
  <2>4. h \in [ver : Nat \ {0}, round : Nat, turn : Nat, player : Players,
               drawn : {"none", "deck", "discard"}, hand : [Players -> Nat],
               done : Nat, pile : Seq(Nat \X Nat), winner : {g.winner},
               scores : {g.scores}, act : {act}]
    <3> HIDE DEF h
    <3> QED BY <1>2, <1>6, <2>1, <2>3 DEF IsSnapshot
  <2> HIDE DEF h
  <2> QED BY <1>1, <1>7, <2>2, <2>4 DEF IsSnapshot
<1>10. AllHold(h)
  <2> HIDE DEF h, hand, pile, act
  <2> QED BY <1>1, <1>2 DEF AllHold
<1>11. Moved(g, h)
  <2>1. g.hand[g.player] # 0
    BY <1>8 DEF AllHold
  <2>2. h.ver = g.ver + 1 /\ h.round = g.round /\ h.turn = g.turn
        /\ h.player = g.player /\ h.drawn = source /\ h.pile = pile /\ h.act = act
    <3> HIDE DEF hand, pile, act
    <3> QED BY <1>1
  <2>3. SameTurn(g, h)
    BY <2>1, <2>2 DEF SameTurn
  <2>4. Drew(g, h)
    BY <2>2, <2>3, <1>3, <1>4 DEF Drew
  <2> QED BY <2>2, <2>4 DEF Moved
<1> QED BY <1>9, <1>10, <1>11

\* Playing cards.
LEMMA PlayMoves ==
  ASSUME NEW g, IsSnapshot(g), AllHold(g), NEW play \in Plays, canPlay(g, play)
  PROVE  LET h == playTable(g, play)
         IN  /\ IsSnapshot(h) /\ AllHold(h) /\ Moved(g, h)
             /\ h.done \in {g.done, g.done + CompletedCards} /\ h.pile = g.pile
             /\ h.drawn = g.drawn /\ SameTurn(g, h)
<1> DEFINE h == playTable(g, play)
           hand == [g.hand EXCEPT ![g.player] = @ - play.cards]
           done == IF play.completes THEN g.done + CompletedCards ELSE g.done
           act == [kind |-> "play", actor |-> g.player, card |-> FaceDown]
<1>1. /\ h.ver = g.ver + 1 /\ h.round = g.round /\ h.turn = g.turn
      /\ h.player = g.player /\ h.drawn = g.drawn /\ h.hand = hand
      /\ h.done = done /\ h.pile = g.pile /\ h.winner = g.winner
      /\ h.scores = g.scores /\ h.act = act
  BY DEF playTable, IsSnapshot
<1>2. play.cards \in Nat \ {0}
  BY DEF Plays
<1>3. g.hand[g.player] > play.cards /\ g.hand \in [Players -> Nat] /\ g.player \in Players
      /\ g.ver \in Nat /\ g.done \in Nat /\ g.pile \in Seq(Nat \X Nat)
  BY DEF canPlay, IsSnapshot
<1>4. hand \in [Players -> Nat] /\ (\A p \in Players : hand[p] >= 1)
  BY <1>2, <1>3 DEF AllHold
<1>5. done \in Nat /\ done \in {g.done, g.done + CompletedCards}
  BY <1>3 DEF CompletedCards
<1>6. \A i \in DOMAIN g.pile : g.pile[i][1] <= g.ver + 1
  <2> SUFFICES ASSUME NEW i \in DOMAIN g.pile
               PROVE  g.pile[i][1] <= g.ver + 1
    OBVIOUS
  <2>1. g.pile[i] \in Nat \X Nat
    BY <1>3
  <2> QED BY <1>3, <2>1 DEF IsSnapshot
<1>0. h = [g EXCEPT !.ver = g.ver + 1, !.hand = hand, !.done = done, !.act = act]
  BY DEF playTable, IsSnapshot
<1> HIDE DEF hand, done, act
<1>7. IsSnapshot(h)
  <2>1. g.ver + 1 \in Nat \ {0}
    BY <1>3
  <2>2. h \in [ver : Nat \ {0}, round : Nat, turn : Nat, player : Players,
               drawn : {"none", "deck", "discard"}, hand : [Players -> Nat],
               done : Nat, pile : Seq(Nat \X Nat), winner : {g.winner},
               scores : {g.scores}, act : {act}]
    <3> HIDE DEF h
    <3> QED BY <1>0, <1>4, <1>5, <2>1 DEF IsSnapshot
  <2> HIDE DEF h
  <2> QED BY <1>1, <1>6, <2>2 DEF IsSnapshot
<1>8. AllHold(h)
  <2> HIDE DEF h
  <2> QED BY <1>1, <1>4 DEF AllHold
<1>9. g.hand[g.player] # 0
  BY <1>3 DEF AllHold
<1>10. SameTurn(g, h)
  BY <1>1, <1>9 DEF SameTurn
<1>11. Stayed(g, h)
  BY <1>1, <1>10 DEF Stayed
<1>12. Moved(g, h)
  BY <1>1, <1>11 DEF Moved
<1> QED BY <1>1, <1>5, <1>7, <1>8, <1>10, <1>12
\* The pile after a discard: the new cards carry the new version.
LEMMA PileAfterDiscard ==
  ASSUME NEW g, IsSnapshot(g), NEW ver \in Nat, NEW old \in Nat, old <= ver,
         \A i \in DOMAIN g.pile : g.pile[i][1] <= old
  PROVE  LET pile == discardedOnto(g, ver)
         IN  /\ pile \in Seq(Nat \X Nat) /\ pile # <<>>
             /\ Len(pile) = g.done + 1 + Len(g.pile)
             /\ \A i \in DOMAIN pile : pile[i][1] <= ver
<1> DEFINE n == g.done + 1
           new == [i \in 1 .. n |-> <<ver, i - 1>>]
           below == g.pile
           S == Nat \X Nat
           pile == discardedOnto(g, ver)
<1>1. g.done \in Nat /\ n \in Nat /\ below \in Seq(S)
  BY DEF IsSnapshot
<1>2. new \in Seq(S) /\ Len(new) = n
  <2>1. new \in [1 .. n -> S]
    <3> SUFFICES ASSUME NEW i \in 1 .. n
                 PROVE  <<ver, i - 1>> \in S
      OBVIOUS
    <3>1. i - 1 \in Nat
      BY <1>1
    <3> QED BY <3>1
  <2> HIDE DEF n, S, new
  <2> QED BY <1>1, <2>1
<1>3. pile = new \o below
  BY DEF discardedOnto
<1>4. \A i \in DOMAIN new : new[i][1] = ver
  OBVIOUS
<1>9. \A x \in S : x[1] \in Nat
  OBVIOUS
<1>10. \A i \in DOMAIN below : below[i][1] <= old
  OBVIOUS
<1> HIDE DEF n, S, new, below, pile
<1>5. pile \in Seq(S) /\ Len(pile) = n + Len(below)
  BY <1>1, <1>2, <1>3, ConcatProperties
<1>6. Len(below) \in Nat
  BY <1>1
<1>7. pile # <<>>
  <2>1. n > 0
    BY <1>1 DEF n
  <2>2. Len(pile) > 0
    BY <1>1, <1>5, <1>6, <2>1
  <2> QED BY <2>2
<1>8. \A i \in DOMAIN pile : pile[i][1] <= ver
  <2> SUFFICES ASSUME NEW i \in DOMAIN pile
               PROVE  pile[i][1] <= ver
    OBVIOUS
  <2>1. i \in 1 .. (Len(new) + Len(below)) /\ i \in Nat
    BY <1>1, <1>2, <1>5, <1>6
  <2>4. pile[i] = IF i <= Len(new) THEN new[i] ELSE below[i - Len(new)]
    BY <1>1, <1>2, <1>3, <2>1, ConcatProperties
  <2>2. CASE i <= Len(new)
    <3>1. pile[i] = new[i] /\ i \in DOMAIN new
      BY <1>1, <1>2, <2>1, <2>2, <2>4
    <3> QED BY <1>4, <3>1
  <2>3. CASE ~(i <= Len(new))
    <3>1. i - Len(new) \in DOMAIN below /\ pile[i] = below[i - Len(new)]
      BY <1>1, <1>2, <1>6, <2>1, <2>3, <2>4
    <3>2. below[i - Len(new)] \in S
      BY <1>1, <3>1
    <3>3. pile[i][1] \in Nat /\ pile[i][1] <= old
      BY <1>9, <1>10, <3>1, <3>2
    <3> QED BY <3>3
  <2> QED BY <2>2, <2>3
<1>11. Len(pile) = g.done + 1 + Len(g.pile)
  BY <1>5 DEF n, below
<1> QED BY <1>5, <1>7, <1>8, <1>11 DEF pile, S

\* Discarding: from g, or from what playing first made of it.
LEMMA DiscardMoves ==
  ASSUME NEW g, IsSnapshot(g), NEW b, IsSnapshot(b), AllHold(b),
         b.pile = g.pile, b.done \in {g.done, g.done + CompletedCards},
         b.round = g.round, b.turn = g.turn, b.player = g.player
  PROVE  LET h == discardCard(b, g.ver)
         IN  /\ IsSnapshot(h) /\ Moved(g, h)
             /\ h.pile # <<>> /\ h.drawn = "none"
             /\ h.hand[b.player] > 0 => AllHold(h)
<1> DEFINE h == discardCard(b, g.ver)
           last == b.hand[b.player] = 1
           hand == [b.hand EXCEPT ![b.player] = @ - 1]
           pile == discardedOnto(b, g.ver + 1)
           turn == IF last THEN b.turn ELSE b.turn + 1
           player == IF last THEN b.player ELSE 1 + (b.player % NumPlayers)
           act == [kind |-> IF b.done = 0 THEN "place" ELSE "collect",
                   actor |-> b.player, card |-> <<g.ver + 1, 0>>]
<1>1. /\ h.ver = g.ver + 1 /\ h.round = b.round /\ h.turn = turn
      /\ h.player = player /\ h.drawn = "none" /\ h.hand = hand
      /\ h.done = 0 /\ h.pile = pile /\ h.winner = b.winner
      /\ h.scores = b.scores /\ h.act = act
  BY DEF discardCard, IsSnapshot
<1>2. h = [b EXCEPT !.ver = g.ver + 1, !.hand = hand, !.done = 0, !.pile = pile,
                    !.turn = turn, !.player = player, !.drawn = "none", !.act = act]
  BY DEF discardCard, IsSnapshot
<1>3. /\ g.ver \in Nat /\ b.hand \in [Players -> Nat] /\ b.player \in Players
      /\ b.turn \in Nat /\ b.round \in Nat /\ b.done \in Nat
  BY DEF IsSnapshot
<1>4. b.hand[b.player] \in Nat /\ b.hand[b.player] >= 1
  BY <1>3 DEF AllHold
<1>5. hand \in [Players -> Nat] /\ hand[b.player] = b.hand[b.player] - 1
      /\ (\A p \in Players \ {b.player} : hand[p] = b.hand[p])
  BY <1>3, <1>4
<1>6. turn \in Nat
  BY <1>3
<1>7. player \in Players
  <2>1. b.player \in Nat /\ NumPlayers \in Nat /\ NumPlayers > 0 /\ b.player <= NumPlayers
    BY <1>3, ParametersAssumption DEF Players
  <2>2. b.player % NumPlayers \in 0 .. NumPlayers - 1
    BY <2>1
  <2> QED BY <1>3, <2>1, <2>2 DEF Players
<1>8. /\ pile \in Seq(Nat \X Nat) /\ pile # <<>>
      /\ \A i \in DOMAIN pile : pile[i][1] <= g.ver + 1
  <2>1. \A i \in DOMAIN b.pile : b.pile[i][1] <= g.ver
    BY DEF IsSnapshot
  <2>2. g.ver + 1 \in Nat /\ g.ver <= g.ver + 1
    BY <1>3
  <2> HIDE DEF hand, turn, player, act, h
  <2> QED BY <1>3, <2>1, <2>2, PileAfterDiscard
<1>9. pile = [i \in 1 .. b.done + 1 |-> <<g.ver + 1, i - 1>>] \o g.pile
  BY DEF discardedOnto
<1>10. g.ver + 1 \in Nat \ {0}
  BY <1>3
<1> HIDE DEF hand, pile, turn, player, act
<1>11. h \in [ver : Nat \ {0}, round : Nat, turn : Nat, player : Players,
              drawn : {"none", "deck", "discard"}, hand : [Players -> Nat],
              done : Nat, pile : Seq(Nat \X Nat), winner : {b.winner},
              scores : {b.scores}, act : {act}]
  <2> HIDE DEF h
  <2> QED BY <1>2, <1>5, <1>6, <1>7, <1>8, <1>10 DEF IsSnapshot
<1> HIDE DEF h
<1>12. IsSnapshot(h)
  BY <1>1, <1>8, <1>11 DEF IsSnapshot
<1>13. h.hand[b.player] > 0 => AllHold(h)
  BY <1>1, <1>3, <1>4, <1>5 DEF AllHold
<1>14. h.turn = g.turn + 1 \/ (SameTurn(g, h) /\ h.hand[h.player] = 0)
  <2>1. CASE last
    <3>1. h.turn = b.turn /\ h.player = b.player /\ h.hand[h.player] = 0
      BY <1>1, <1>4, <1>5, <2>1 DEF turn, player
    <3> QED BY <1>1, <3>1 DEF SameTurn
  <2>2. CASE ~last
    BY <1>1, <2>2 DEF turn
  <2> QED BY <2>1, <2>2
<1>15. Discarded(g, h)
  <2>1. h.round = g.round /\ h.drawn = "none"
    BY <1>1
  <2>2. h.pile = [i \in 1 .. b.done + 1 |-> <<h.ver, i - 1>>] \o g.pile
    BY <1>1, <1>9
  <2>3. h.act = [kind |-> IF b.done = 0 THEN "place" ELSE "collect",
                 actor |-> g.player, card |-> <<h.ver, 0>>]
    BY <1>1 DEF act
  <2> QED BY <1>14, <2>1, <2>2, <2>3 DEF Discarded
<1>16. Moved(g, h)
  BY <1>1, <1>15 DEF Moved
<1>17. h.pile # <<>> /\ h.drawn = "none"
  BY <1>1, <1>8
<1> QED BY <1>12, <1>13, <1>16, <1>17 DEF h

\* The winner and the scores are no part of what is followed.
LEMMA FinishMoves ==
  ASSUME NEW g, NEW h, IsSnapshot(h), Moved(g, h), NEW s
  PROVE  LET k == finishRound(h, s)
         IN  /\ IsSnapshot(k) /\ Moved(g, k)
             /\ k.pile = h.pile /\ k.drawn = h.drawn
<1> DEFINE k == finishRound(h, s)
           scores == IF allOtherPlayersOverHundred(s, h.player) THEN s
                     ELSE applyOverHundredAdjustment(s)
<1>1. k = [h EXCEPT !.winner = h.player, !.scores = scores]
  BY DEF finishRound
<1> HIDE DEF scores
<1>2. /\ k.ver = h.ver /\ k.round = h.round /\ k.turn = h.turn
      /\ k.player = h.player /\ k.drawn = h.drawn /\ k.hand = h.hand
      /\ k.done = h.done /\ k.pile = h.pile /\ k.winner = h.player
      /\ k.scores = scores /\ k.act = h.act
  BY <1>1 DEF IsSnapshot
<1>3. k \in [ver : Nat \ {0}, round : Nat, turn : Nat, player : Players,
             drawn : {"none", "deck", "discard"}, hand : [Players -> Nat],
             done : Nat, pile : Seq(Nat \X Nat), winner : {h.player},
             scores : {scores}, act : {h.act}]
  <2> HIDE DEF k
  <2> QED BY <1>1 DEF IsSnapshot
<1> HIDE DEF k
<1>4. IsSnapshot(k)
  BY <1>2, <1>3 DEF IsSnapshot
<1>5. Moved(g, k)
  BY <1>2 DEF Moved, Drew, Stayed, Discarded, Dealt, SameTurn
<1> QED BY <1>2, <1>4, <1>5 DEF k

\* Dealing.
LEMMA StartMoves ==
  ASSUME NEW totals, NEW round \in Nat, NEW ver \in Nat \ {0}
  PROVE  LET h == startRound(totals, round, ver)
         IN  /\ IsSnapshot(h) /\ AllHold(h)
             /\ h.ver = ver /\ h.round = round /\ h.drawn = "none"
             /\ h.pile = << <<ver, 0>> >>
<1> DEFINE h == startRound(totals, round, ver)
           hand == [p \in Players |-> HandSize]
           pile == << <<ver, 0>> >>
           scores == [p \in Players |-> settledScore(totals[p])]
           player == 1 + (round % NumPlayers)
           act == [kind |-> "start", actor |-> 0, card |-> <<ver, 0>>]
<1>1. h = [ver |-> ver, round |-> round, turn |-> 1, player |-> player,
           drawn |-> "none", hand |-> hand, done |-> 0, pile |-> pile,
           winner |-> 0, scores |-> scores, act |-> act]
  BY DEF startRound
<1>2. player \in Players
  <2>1. NumPlayers \in Nat /\ NumPlayers > 0
    BY ParametersAssumption
  <2>2. round % NumPlayers \in 0 .. NumPlayers - 1
    BY <2>1
  <2> QED BY <2>1, <2>2 DEF Players
<1>3. hand \in [Players -> Nat] /\ (\A p \in Players : hand[p] >= 1)
  BY ParametersAssumption
<1>4. pile \in Seq(Nat \X Nat) /\ pile # <<>>
      /\ (\A i \in DOMAIN pile : pile[i][1] <= ver)
  OBVIOUS
<1> HIDE DEF hand, pile, scores, player, act
<1>5. IsSnapshot(h)
  <2>1. h \in [ver : Nat \ {0}, round : Nat, turn : Nat, player : Players,
               drawn : {"none", "deck", "discard"}, hand : [Players -> Nat],
               done : Nat, pile : Seq(Nat \X Nat), winner : {0},
               scores : {scores}, act : {act}]
    <3> HIDE DEF h
    <3> QED BY <1>1, <1>2, <1>3, <1>4
  <2>2. h.winner = 0 /\ h.scores = scores /\ h.act = act /\ h.pile = pile /\ h.ver = ver
    <3> HIDE DEF h
    <3> QED BY <1>1
  <2> HIDE DEF h
  <2> QED BY <1>4, <2>1, <2>2 DEF IsSnapshot
<1>6. AllHold(h)
  <2> HIDE DEF h
  <2> QED BY <1>1, <1>3 DEF AllHold
<1>7. h.ver = ver /\ h.round = round /\ h.drawn = "none" /\ h.pile = pile
  <2> HIDE DEF h
  <2> QED BY <1>1
<1> QED BY <1>5, <1>6, <1>7 DEF pile

\* Ending the game by a vote.
LEMMA EndMoves ==
  ASSUME NEW g, IsSnapshot(g), NEW act
  PROVE  LET h == [g EXCEPT !.winner = 0, !.ver = @ + 1, !.act = act]
         IN  IsSnapshot(h) /\ Moved(g, h)
<1> DEFINE h == [g EXCEPT !.winner = 0, !.ver = @ + 1, !.act = act]
<1>1. /\ h.ver = g.ver + 1 /\ h.round = g.round /\ h.turn = g.turn
      /\ h.player = g.player /\ h.drawn = g.drawn /\ h.hand = g.hand
      /\ h.done = g.done /\ h.pile = g.pile /\ h.winner = 0
      /\ h.scores = g.scores /\ h.act = act
  BY DEF IsSnapshot
<1>2. g.ver \in Nat /\ g.pile \in Seq(Nat \X Nat)
  BY DEF IsSnapshot
<1>3. \A i \in DOMAIN g.pile : g.pile[i][1] <= g.ver + 1
  <2> SUFFICES ASSUME NEW i \in DOMAIN g.pile
               PROVE  g.pile[i][1] <= g.ver + 1
    OBVIOUS
  <2>1. g.pile[i] \in Nat \X Nat
    BY <1>2
  <2> QED BY <1>2, <2>1 DEF IsSnapshot
<1>4. h \in [ver : Nat \ {0}, round : Nat, turn : Nat, player : Players,
             drawn : {"none", "deck", "discard"}, hand : [Players -> Nat],
             done : Nat, pile : Seq(Nat \X Nat), winner : {0},
             scores : {g.scores}, act : {act}]
  <2> DEFINE ver == g.ver + 1
  <2>1. ver \in Nat \ {0}
    BY <1>2
  <2>2. h = [g EXCEPT !.winner = 0, !.ver = ver, !.act = act]
    BY DEF IsSnapshot
  <2> HIDE DEF ver, h
  <2> QED BY <2>1, <2>2 DEF IsSnapshot
<1> HIDE DEF h
<1>5. IsSnapshot(h)
  BY <1>1, <1>3, <1>4 DEF IsSnapshot
<1>6. Moved(g, h)
  BY <1>1 DEF Moved, Stayed, SameTurn
<1> QED BY <1>5, <1>6 DEF h
-----------------------------------------------------------------------------
(***************************************************************************)
(* Snapshots under way stay in order.                                      *)
(***************************************************************************)
\* A snapshot is a game.
LEMMA SnapshotIsGame ==
  ASSUME NEW g, IsSnapshot(g)
  PROVE  g # NoGame /\ g.ver \in Nat \ {0}
<1>1. g.ver \in Nat \ {0}
  BY DEF IsSnapshot
<1>2. NoGame.ver = 0
  BY DEF NoGame
<1> QED BY <1>1, <1>2

\* The fields of a snapshot that are compared.
LEMMA SnapshotFields ==
  ASSUME NEW g, IsSnapshot(g)
  PROVE  /\ g.round \in Nat /\ g.turn \in Nat /\ g.ver \in Nat /\ g.done \in Nat
         /\ g.pile \in Seq(Nat \X Nat) /\ Len(g.pile) \in Nat
         /\ DOMAIN g.pile = 1 .. Len(g.pile)
<1>1. /\ g.round \in Nat /\ g.turn \in Nat /\ g.ver \in Nat /\ g.done \in Nat
      /\ g.pile \in Seq(Nat \X Nat)
  BY DEF IsSnapshot
<1> QED BY <1>1

\* A move leads to a later snapshot.
LEMMA MoveIsLater ==
  ASSUME NEW g, NEW n, IsSnapshot(g), IsSnapshot(n), Moved(g, n)
  PROVE  Later(g, n)
<1>1. g.round \in Nat /\ g.turn \in Nat /\ n.round \in Nat /\ n.turn \in Nat
      /\ g.pile \in Seq(Nat \X Nat) /\ Len(g.pile) \in Nat
  BY DEF IsSnapshot
<1>2. CASE Drew(g, n)
  <2>1. n.round = g.round /\ n.turn = g.turn /\ n.drawn \in {"deck", "discard"}
    BY <1>2 DEF Drew, SameTurn
  <2>2. Len(n.pile) <= Len(g.pile)
    <3>1. CASE n.drawn = "deck"
      BY <1>1, <1>2, <3>1 DEF Drew
    <3>2. CASE n.drawn = "discard"
      <4>1. g.pile # <<>> /\ n.pile = Tail(g.pile)
        BY <1>2, <3>2 DEF Drew
      <4>2. Len(n.pile) = Len(g.pile) - 1
        BY <1>1, <4>1, HeadTailProperties
      <4> QED BY <1>1, <4>2
    <3> QED BY <2>1, <3>1, <3>2
  <2> QED BY <2>1, <2>2 DEF Later
<1>3. CASE Stayed(g, n)
  BY <1>1, <1>3 DEF Stayed, SameTurn, Later
<1>4. CASE Discarded(g, n)
  BY <1>1, <1>4 DEF Discarded, SameTurn, Later
<1>5. CASE Dealt(g, n)
  BY <1>1, <1>5 DEF Dealt, Later
<1> QED BY <1>2, <1>3, <1>4, <1>5 DEF Moved

\* What a snapshot is later than stays before the next.
LEMMA LaterOn ==
  ASSUME NEW h, NEW g, NEW n, IsSnapshot(h), IsSnapshot(g), IsSnapshot(n),
         h.ver < g.ver, Later(h, g), Moved(g, n)
  PROVE  Later(h, n)
<1>1. /\ g.pile \in Seq(Nat \X Nat) /\ Len(g.pile) \in Nat
      /\ n.pile \in Seq(Nat \X Nat) /\ Len(n.pile) \in Nat
      /\ DOMAIN g.pile = 1 .. Len(g.pile) /\ g.done \in Nat
  BY SnapshotFields
<1>8. /\ h.round \in Nat /\ h.turn \in Nat /\ h.ver \in Nat
      /\ g.round \in Nat /\ g.turn \in Nat /\ g.ver \in Nat
      /\ n.round \in Nat /\ n.turn \in Nat /\ n.ver \in Nat
      /\ Len(h.pile) \in Nat /\ Len(g.pile) \in Nat /\ Len(n.pile) \in Nat
  BY SnapshotFields
<1>2. n.ver = g.ver + 1
  BY DEF Moved
<1>3. \/ n.round > g.round
      \/ n.round = g.round /\ n.turn > g.turn
      \/ n.round = g.round /\ n.turn = g.turn /\ n.hand[n.player] = 0
      \/ /\ n.round = g.round /\ n.turn = g.turn /\ Len(n.pile) <= Len(g.pile)
         /\ n.hand[n.player] # 0 => g.hand[g.player] # 0
  <2>1. CASE Drew(g, n)
    <3>1. SameTurn(g, n) /\ n.drawn \in {"deck", "discard"}
      BY <2>1 DEF Drew
    <3>2. Len(n.pile) <= Len(g.pile)
      <4>1. CASE n.drawn = "deck"
        BY <1>1, <2>1, <4>1 DEF Drew
      <4>2. CASE n.drawn = "discard"
        <5>1. g.pile # <<>> /\ n.pile = Tail(g.pile)
          BY <2>1, <4>2 DEF Drew
        <5>2. Len(n.pile) = Len(g.pile) - 1
          BY <1>1, <5>1, HeadTailProperties
        <5> QED BY <1>1, <5>2
      <4> QED BY <3>1, <4>1, <4>2
    <3> QED BY <3>1, <3>2 DEF SameTurn
  <2>2. CASE Stayed(g, n)
    BY <1>8, <2>2 DEF Stayed, SameTurn
  <2>3. CASE Discarded(g, n)
    BY <1>8, <2>3 DEF Discarded, SameTurn
  <2>4. CASE Dealt(g, n)
    BY <1>8, <2>4 DEF Dealt
  <2> QED BY <2>1, <2>2, <2>3, <2>4 DEF Moved
<1>4. CASE \A i \in DOMAIN g.pile : g.pile[i][1] > h.ver
  <2> SUFFICES ASSUME NEW i \in DOMAIN n.pile
               PROVE  n.pile[i][1] > h.ver
    BY DEF Later
  <2>1. n.ver > h.ver
    BY <1>2, <1>8
  <2>2. CASE Drew(g, n)
    <3>1. \E j \in DOMAIN g.pile : n.pile[i] = g.pile[j]
      <4>1. CASE n.drawn = "deck"
        BY <2>2, <4>1 DEF Drew
      <4>2. CASE n.drawn = "discard"
        <5>1. g.pile # <<>> /\ n.pile = Tail(g.pile)
          BY <2>2, <4>2 DEF Drew
        <5> DEFINE S == Nat \X Nat
                   pile == g.pile
        <5>3. pile \in Seq(S) /\ pile # <<>> /\ n.pile = Tail(pile)
          BY <1>1, <5>1
        <5> HIDE DEF S, pile
        <5>2. i + 1 \in DOMAIN pile /\ n.pile[i] = pile[i + 1]
          <6>1. /\ Tail(pile) \in Seq(S) /\ Len(Tail(pile)) = Len(pile) - 1
                /\ \A j \in 1 .. Len(Tail(pile)) : Tail(pile)[j] = pile[j + 1]
            BY <5>3, HeadTailProperties
          <6>2. i \in 1 .. Len(Tail(pile)) /\ Len(pile) \in Nat
            BY <5>3, <6>1
          <6>3. i + 1 \in DOMAIN pile
            BY <5>3, <6>1, <6>2
          <6> QED BY <5>3, <6>1, <6>2, <6>3
        <5> USE DEF pile
        <5> QED BY <5>2
      <4> QED BY <2>2, <4>1, <4>2 DEF Drew
    <3> QED BY <1>4, <3>1
  <2>3. CASE Stayed(g, n)
    BY <1>4, <2>3 DEF Stayed
  <2>4. CASE Discarded(g, n)
    <3>1. PICK done \in {g.done, g.done + CompletedCards} :
            n.pile = [j \in 1 .. done + 1 |-> <<n.ver, j - 1>>] \o g.pile
      BY <2>4 DEF Discarded
    <3>2. done \in Nat
      BY <1>1 DEF CompletedCards
    <3> DEFINE new == [j \in 1 .. done + 1 |-> <<n.ver, j - 1>>]
    <3>3. \A j \in 1 .. done + 1 : new[j][1] = n.ver
      OBVIOUS
    <3>4. Len(new) = done + 1 /\ new \in Seq(Nat \X Nat)
      <4>1. new \in [1 .. done + 1 -> Nat \X Nat]
        <5> SUFFICES ASSUME NEW j \in 1 .. done + 1
                     PROVE  <<n.ver, j - 1>> \in Nat \X Nat
          OBVIOUS
        <5>1. j - 1 \in Nat /\ n.ver \in Nat
          BY <1>8, <3>2
        <5> QED BY <5>1
      <4> DEFINE S == Nat \X Nat
                 m == done + 1
      <4>2. m \in Nat /\ new \in [1 .. m -> S]
        BY <3>2, <4>1
      <4> HIDE DEF S, m, new
      <4>3. Len(new) = m /\ new \in Seq(S)
        BY <4>2
      <4> QED BY <4>3 DEF S, m
    <3> HIDE DEF new
    <3>5. n.pile = new \o g.pile
      BY <3>1 DEF new
    <3>6. /\ i \in 1 .. Len(new) + Len(g.pile)
          /\ n.pile[i] = IF i <= Len(new) THEN new[i] ELSE g.pile[i - Len(new)]
      <4> DEFINE S == Nat \X Nat
      <4>1. new \in Seq(S) /\ g.pile \in Seq(S) /\ n.pile \in Seq(S)
        BY <1>1, <3>4
      <4> HIDE DEF S
      <4>2. Len(n.pile) = Len(new) + Len(g.pile)
        BY <3>5, <4>1, ConcatProperties
      <4>3. i \in 1 .. Len(n.pile)
        BY <4>1
      <4> QED BY <3>5, <4>1, <4>2, <4>3, ConcatProperties
    <3>7. CASE i <= Len(new)
      BY <2>1, <3>2, <3>3, <3>4, <3>6, <3>7
    <3>8. CASE ~(i <= Len(new))
      <4>1. i - Len(new) \in DOMAIN g.pile
        <5>1. i \in 1 .. Len(new) + Len(g.pile)
          BY <3>6
        <5>3. Len(new) \in Nat
          <6>1. Len(new) = done + 1
            BY <3>4
          <6> QED BY ONLY <3>2, <6>1
        <5>4. Len(g.pile) \in Nat
          BY <1>8
        <5>2. i - Len(new) \in 1 .. Len(g.pile)
          BY ONLY <3>8, <5>1, <5>3, <5>4
        <5> QED BY <1>1, <5>2
      <4> QED BY <1>4, <3>6, <3>8, <4>1
    <3> QED BY <3>7, <3>8
  <2>5. CASE Dealt(g, n)
    BY <2>1, <2>5 DEF Dealt
  <2> QED BY <2>2, <2>3, <2>4, <2>5 DEF Moved
<1>5. CASE h.round < g.round
  BY <1>3, <1>8, <1>5 DEF Later
<1>6. CASE h.round = g.round /\ h.turn < g.turn
  BY <1>3, <1>8, <1>6 DEF Later
<1>7. CASE /\ h.round = g.round /\ h.turn = g.turn
           /\ g.hand[g.player] # 0 => Len(g.pile) <= Len(h.pile)
  BY <1>3, <1>8, <1>7 DEF Later
<1> QED BY <1>4, <1>5, <1>6, <1>7 DEF Later

\* The next snapshot follows whatever the last one followed.
LEMMA FollowsOn ==
  ASSUME NEW h, NEW g, NEW n, h # NoGame => IsSnapshot(h), IsSnapshot(g),
         IsSnapshot(n), Follows(h, g), Moved(g, n)
  PROVE  Follows(h, n)
<1>0. g # NoGame /\ g.ver \in Nat /\ n.ver = g.ver + 1
  BY SnapshotIsGame DEF Moved
<1> SUFFICES ASSUME h # NoGame, h # n
             PROVE  /\ h.ver < n.ver /\ (n.ver = h.ver + 1 => Moved(h, n))
                    /\ Later(h, n)
  BY DEF Follows
<1>1. CASE h = g
  BY <1>0, <1>1, MoveIsLater
<1>2. CASE h # g
  <2>1. h.ver < g.ver /\ Later(h, g) /\ IsSnapshot(h)
    BY <1>0, <1>2 DEF Follows
  <2>2. h.ver \in Nat
    BY <2>1, SnapshotIsGame
  <2>3. h.ver < n.ver /\ n.ver # h.ver + 1
    BY <1>0, <2>1, <2>2
  <2> QED BY <2>1, <2>3, LaterOn
<1> QED BY <1>1, <1>2

\* A new game follows whatever there was, with a gap.
LEMMA StartFollows ==
  ASSUME NEW h, NEW n, NEW k \in Nat, h # NoGame => Known(h, k), IsSnapshot(n),
         n.ver = 2 * k + 3, n.pile = << <<n.ver, 0>> >>
  PROVE  Follows(h, n)
<1> SUFFICES ASSUME h # NoGame, h # n
             PROVE  /\ h.ver < n.ver /\ (n.ver = h.ver + 1 => Moved(h, n))
                    /\ Later(h, n)
  BY DEF Follows
<1>1. h.ver \in Nat /\ h.ver <= 2 * k + 1
  BY SnapshotIsGame DEF Known
<1>2. h.ver < n.ver /\ n.ver # h.ver + 1
  BY <1>1
<1>3. \A i \in DOMAIN n.pile : n.pile[i][1] > h.ver
  BY <1>1, <1>2
<1> QED BY <1>2, <1>3 DEF Later
-----------------------------------------------------------------------------
(***************************************************************************)
(* Messages.                                                               *)
(***************************************************************************)
\* The entries of a queue.
Entries(q) == {q[i] : i \in DOMAIN q}

\* A queue is a sequence of its entries, and so is a sequence of anything.
LEMMA QueueIsSequence ==
  ASSUME NEW q, IsQueue(q)
  PROVE  q \in Seq(Entries(q)) /\ DOMAIN q = 1 .. Len(q)
<1>1. Len(q) \in Nat /\ q = [i \in 1 .. Len(q) |-> q[i]]
  BY DEF IsQueue
<1> DEFINE n == Len(q)
           S == Entries(q)
<1>2. DOMAIN q = 1 .. n
  BY <1>1
<1>3. \A i \in 1 .. n : q[i] \in S
  BY <1>2 DEF Entries
<1> HIDE DEF n, S
<1>4. q \in [1 .. n -> S]
  BY <1>1, <1>2, <1>3 DEF n
<1>5. n \in Nat
  BY <1>1 DEF n
<1> QED BY <1>2, <1>4, <1>5 DEF n, S

\* The other way round.
LEMMA SequenceIsQueue ==
  ASSUME NEW S, NEW q \in Seq(S)
  PROVE  IsQueue(q) /\ DOMAIN q = 1 .. Len(q)
  BY DEF IsQueue

\* Queues one after the other.
LEMMA QueueAfter ==
  ASSUME NEW q, NEW r, IsQueue(q), IsQueue(r)
  PROVE  /\ IsQueue(q \o r) /\ DOMAIN (q \o r) = 1 .. Len(q) + Len(r)
         /\ Len(q \o r) = Len(q) + Len(r)
         /\ \A i \in 1 .. Len(q) + Len(r) :
              (q \o r)[i] = IF i <= Len(q) THEN q[i] ELSE r[i - Len(q)]
<1> DEFINE S == Entries(q) \cup Entries(r)
<1>1. q \in Seq(Entries(q)) /\ r \in Seq(Entries(r))
  BY QueueIsSequence
<1> DEFINE E == Entries(q)
           F == Entries(r)
<1> HIDE DEF E, F
<1>2. q \in Seq(E) /\ r \in Seq(F)
  BY <1>1 DEF E, F
<1>3. q \in Seq(E \cup F) /\ r \in Seq(E \cup F)
  BY <1>2
<1> DEFINE T == E \cup F
<1>4. q \in Seq(T) /\ r \in Seq(T)
  BY <1>3
<1> HIDE DEF T
<1>5. /\ q \o r \in Seq(T) /\ Len(q \o r) = Len(q) + Len(r)
      /\ \A i \in 1 .. Len(q) + Len(r) :
           (q \o r)[i] = IF i <= Len(q) THEN q[i] ELSE r[i - Len(q)]
  BY <1>4, ConcatProperties
<1>6. IsQueue(q \o r) /\ DOMAIN (q \o r) = 1 .. Len(q \o r)
  BY <1>5, SequenceIsQueue
<1> QED BY <1>5, <1>6

\* Another room state under way changes nothing.
LEMMA OrderedRoomState ==
  ASSUME NEW shown, NEW q, NEW last, NEW n \in Nat, NEW room, IsQueue(q),
         Ordered(shown, q, last, n)
  PROVE  LET r == Append(q, RoomState(room))
         IN  IsQueue(r) /\ Ordered(shown, r, last, n + 1)
<1> DEFINE m == RoomState(room)
           r == Append(q, m)
           t == <<m>>
<1>1. m.type = "room_state"
  BY DEF RoomState
<1>2. IsQueue(t) /\ Len(t) = 1 /\ t[1] = m
  BY DEF IsQueue
<1>3. r = q \o t
  <2>1. q \in Seq(Entries(q))
    BY QueueIsSequence
  <2> HIDE DEF m
  <2> QED BY <2>1
<1> HIDE DEF m, t
<1>4. /\ IsQueue(r) /\ DOMAIN r = 1 .. Len(q) + 1
      /\ \A i \in 1 .. Len(q) + 1 : r[i] = IF i <= Len(q) THEN q[i] ELSE t[i - Len(q)]
  BY <1>2, <1>3, QueueAfter
<1>5. Len(q) \in Nat /\ DOMAIN q = 1 .. Len(q)
  BY QueueIsSequence DEF IsQueue
<1> HIDE DEF r
<1>6. \A i \in DOMAIN r : r[i].type # "room_state" => i \in DOMAIN q /\ r[i] = q[i]
  <2> SUFFICES ASSUME NEW i \in DOMAIN r, r[i].type # "room_state"
               PROVE  i \in DOMAIN q /\ r[i] = q[i]
    OBVIOUS
  <2>1. i \in 1 .. Len(q) + 1
    BY <1>4
  <2>2. CASE i <= Len(q)
    BY <1>4, <1>5, <2>1, <2>2
  <2>3. CASE ~(i <= Len(q))
    <3>1. i = Len(q) + 1 /\ i - Len(q) = 1
      BY <1>5, <2>1, <2>3
    <3>2. r[i] = m
      BY <1>2, <1>4, <2>1, <2>3, <3>1
    <3> QED BY <1>1, <3>2
  <2> QED BY <2>2, <2>3
<1>7. \A g : Known(g, n) => Known(g, n + 1)
  BY SnapshotIsGame DEF Known
<1>8. Ordered(shown, r, last, n + 1)
  BY <1>6, <1>7 DEF Ordered
<1> QED BY <1>4, <1>8 DEF r, m

\* A message that is taken from the queue.
LEMMA OrderedTail ==
  ASSUME NEW shown, NEW q, NEW last, NEW n \in Nat, IsQueue(q), q # <<>>,
         Ordered(shown, q, last, n)
  PROVE  /\ IsQueue(Tail(q)) /\ Ordered(shown, Tail(q), last, n)
         /\ Ordered(NoGame, Tail(q), last, n)
         /\ Head(q).type # "room_state" =>
              /\ Known(Head(q).game, n) /\ Follows(shown, Head(q).game)
              /\ Ordered(Head(q).game, Tail(q), last, n)
<1> DEFINE S == Entries(q)
           r == Tail(q)
<1>1. q \in Seq(S) /\ DOMAIN q = 1 .. Len(q) /\ Len(q) \in Nat
  BY QueueIsSequence DEF IsQueue
<1> HIDE DEF S
<1>2. /\ Head(q) = q[1] /\ r \in Seq(S) /\ Len(r) = Len(q) - 1
      /\ \A i \in 1 .. Len(r) : r[i] = q[i + 1]
  BY <1>1, HeadTailProperties
<1>3. IsQueue(r) /\ DOMAIN r = 1 .. Len(r) /\ Len(r) \in Nat
  BY <1>2, SequenceIsQueue DEF IsQueue
<1>4. \A i \in DOMAIN r : i \in Nat /\ i + 1 \in DOMAIN q /\ r[i] = q[i + 1]
  BY <1>1, <1>2, <1>3
<1>5. 1 \in DOMAIN q
  BY <1>1
<1> HIDE DEF r
<1>6. \A i \in DOMAIN r : r[i].type # "room_state" =>
        Known(r[i].game, n) /\ Follows(shown, r[i].game) /\ Follows(r[i].game, last)
  BY <1>4 DEF Ordered
<1>7. \A i, j \in DOMAIN r :
        i < j /\ r[i].type # "room_state" /\ r[j].type # "room_state" =>
          Follows(r[i].game, r[j].game)
  <2> SUFFICES ASSUME NEW i \in DOMAIN r, NEW j \in DOMAIN r, i < j,
                      r[i].type # "room_state", r[j].type # "room_state"
               PROVE  Follows(r[i].game, r[j].game)
    OBVIOUS
  <2>1. i + 1 < j + 1
    BY <1>4
  <2> QED BY <1>4, <2>1 DEF Ordered
<1>8. Ordered(shown, r, last, n)
  BY <1>6, <1>7 DEF Ordered
<1>9. Ordered(NoGame, r, last, n)
  BY <1>6, <1>7 DEF Ordered, Follows
<1>10. ASSUME Head(q).type # "room_state"
       PROVE  /\ Known(Head(q).game, n) /\ Follows(shown, Head(q).game)
              /\ Ordered(Head(q).game, r, last, n)
  <2>1. /\ Known(q[1].game, n) /\ Follows(shown, q[1].game) /\ Follows(q[1].game, last)
    BY <1>2, <1>5, <1>10 DEF Ordered
  <2>2. \A i \in DOMAIN r : r[i].type # "room_state" => Follows(q[1].game, r[i].game)
    <3> SUFFICES ASSUME NEW i \in DOMAIN r, r[i].type # "room_state"
                 PROVE  Follows(q[1].game, r[i].game)
      OBVIOUS
    <3>1. 1 < i + 1
      BY <1>3
    <3> QED BY <1>2, <1>4, <1>5, <1>10, <3>1 DEF Ordered
  <2> QED BY <1>2, <1>6, <1>7, <2>1, <2>2 DEF Ordered
<1> QED BY <1>3, <1>8, <1>9, <1>10 DEF r

\* Two messages about a move, and a third after the last one.
LEMMA OrderedSend ==
  ASSUME NEW shown, NEW q, NEW last, NEW n \in Nat, NEW room, NEW g, NEW c, NEW last2,
         IsQueue(q), Ordered(shown, q, last, n), Known(g, n + 1),
         c = <<>> \/ \E x : c = <<RoomState(x)>>,
         last2 \in {NoGame, g},
         \A h : (h # NoGame => Known(h, n)) /\ Follows(h, last) => Follows(h, g)
  PROVE  LET r == q \o <<RoomState(room), GameState(room, g)>> \o c
         IN  IsQueue(r) /\ Ordered(shown, r, last2, n + 1)
<1> DEFINE a == RoomState(room)
           b == GameState(room, g)
           t == <<a, b>>
           q1 == q \o t
           r == q1 \o c
<1>1. a.type = "room_state" /\ b.type # "room_state" /\ b.game = g
  BY DEF RoomState, GameState
<1>2. IsQueue(t) /\ Len(t) = 2 /\ t[1] = a /\ t[2] = b
  BY DEF IsQueue
<1>3. IsQueue(c) /\ Len(c) \in Nat /\ (\A i \in 1 .. Len(c) : c[i].type = "room_state")
  <2>1. CASE c = <<>>
    BY <2>1 DEF IsQueue
  <2>2. CASE \E x : c = <<RoomState(x)>>
    <3>1. PICK x : c = <<RoomState(x)>>
      BY <2>2
    <3> DEFINE m == RoomState(x)
    <3>2. m.type = "room_state"
      BY DEF RoomState
    <3> HIDE DEF m
    <3>3. c = <<m>>
      BY <3>1 DEF m
    <3> QED BY <3>2, <3>3 DEF IsQueue
  <2> QED BY <2>1, <2>2
<1>4. Len(q) \in Nat /\ DOMAIN q = 1 .. Len(q)
  BY QueueIsSequence DEF IsQueue
<1> HIDE DEF a, b, t
<1>5. /\ IsQueue(q1) /\ DOMAIN q1 = 1 .. Len(q) + 2 /\ Len(q1) = Len(q) + 2
      /\ \A i \in 1 .. Len(q) + 2 : q1[i] = IF i <= Len(q) THEN q[i] ELSE t[i - Len(q)]
  BY <1>2, QueueAfter
<1> HIDE DEF q1
<1>6. Len(q1) = Len(q) + 2
  BY <1>5
<1>7. /\ IsQueue(r) /\ DOMAIN r = 1 .. Len(q1) + Len(c)
      /\ \A i \in 1 .. Len(q1) + Len(c) : r[i] = IF i <= Len(q1) THEN q1[i] ELSE c[i - Len(q1)]
  BY <1>3, <1>5, QueueAfter
<1> HIDE DEF r
<1>8. \A i \in DOMAIN r : r[i].type # "room_state" =>
        \/ i \in DOMAIN q /\ r[i] = q[i]
        \/ i = Len(q) + 2 /\ r[i].game = g
  <2> SUFFICES ASSUME NEW i \in DOMAIN r, r[i].type # "room_state"
               PROVE  \/ i \in DOMAIN q /\ r[i] = q[i]
                      \/ i = Len(q) + 2 /\ r[i].game = g
    OBVIOUS
  <2>1. i \in 1 .. Len(q) + 2 + Len(c) /\ i \in Nat
    BY <1>3, <1>4, <1>6, <1>7
  <2>2. CASE i <= Len(q)
    <3>1. i <= Len(q1) /\ i \in 1 .. Len(q1) + Len(c) /\ i \in 1 .. Len(q) + 2
      BY <1>3, <1>4, <1>6, <2>1, <2>2
    <3>2. r[i] = q1[i] /\ q1[i] = q[i]
      BY <1>5, <1>7, <2>2, <3>1
    <3> QED BY <1>4, <2>1, <2>2, <3>2
  <2>3. CASE i \in {Len(q) + 1, Len(q) + 2}
    <3>1. i <= Len(q1) /\ i \in 1 .. Len(q1) + Len(c) /\ i \in 1 .. Len(q) + 2 /\ ~(i <= Len(q))
      BY <1>3, <1>4, <1>6, <2>1, <2>3
    <3>2. r[i] = t[i - Len(q)]
      BY <1>5, <1>7, <3>1
    <3>3. CASE i = Len(q) + 1
      <4>1. i - Len(q) = 1
        BY <1>4, <3>3
      <4> QED BY <1>1, <1>2, <3>2, <4>1
    <3>4. CASE i = Len(q) + 2
      <4>1. i - Len(q) = 2
        BY <1>4, <3>4
      <4> QED BY <1>1, <1>2, <3>2, <3>4, <4>1
    <3> QED BY <2>3, <3>3, <3>4
  <2>4. CASE i > Len(q) + 2
    <3>1. ~(i <= Len(q1)) /\ i \in 1 .. Len(q1) + Len(c) /\ i - Len(q1) \in 1 .. Len(c)
      BY <1>3, <1>4, <1>6, <2>1, <2>4
    <3> QED BY <1>3, <1>7, <3>1
  <2> QED BY <1>4, <2>1, <2>2, <2>3, <2>4
<1>9. \A h : Known(h, n) => Known(h, n + 1)
  BY SnapshotIsGame DEF Known
<1>10. Follows(shown, g) /\ (\A i \in DOMAIN q : q[i].type # "room_state" => Follows(q[i].game, g))
  BY DEF Ordered
<1>11. Follows(shown, last2) /\ Follows(g, last2)
       /\ (\A i \in DOMAIN q : q[i].type # "room_state" => Follows(q[i].game, last2))
  BY <1>10 DEF Follows
<1>12. \A i \in DOMAIN r : r[i].type # "room_state" =>
         /\ Known(r[i].game, n + 1) /\ Follows(shown, r[i].game) /\ Follows(r[i].game, last2)
  BY <1>8, <1>9, <1>10, <1>11 DEF Ordered
<1>13. \A i, j \in DOMAIN r :
         i < j /\ r[i].type # "room_state" /\ r[j].type # "room_state" =>
           Follows(r[i].game, r[j].game)
  <2> SUFFICES ASSUME NEW i \in DOMAIN r, NEW j \in DOMAIN r, i < j,
                      r[i].type # "room_state", r[j].type # "room_state"
               PROVE  Follows(r[i].game, r[j].game)
    OBVIOUS
  <2>1. CASE j \in DOMAIN q /\ r[j] = q[j]
    <3>1. ~(i = Len(q) + 2)
      BY <1>4, <2>1
    <3>2. i \in DOMAIN q /\ r[i] = q[i]
      BY <1>8, <3>1
    <3> QED BY <2>1, <3>2 DEF Ordered
  <2>2. CASE j = Len(q) + 2 /\ r[j].game = g
    <3>1. ~(i = Len(q) + 2)
      BY <1>4, <2>2
    <3>2. i \in DOMAIN q /\ r[i] = q[i]
      BY <1>8, <3>1
    <3> QED BY <1>10, <2>2, <3>2
  <2> QED BY <1>8, <2>1, <2>2
<1>14. Ordered(shown, r, last2, n + 1)
  BY <1>9, <1>11, <1>12, <1>13 DEF Ordered
<1> QED BY <1>7, <1>14 DEF r, q1, t, a, b

\* What the server tells a client that comes back.
LEMMA OrderedAnew ==
  ASSUME NEW shown, NEW q, NEW last, NEW n \in Nat, NEW room, Ordered(shown, q, last, n)
  PROVE  LET r == <<RoomState(room)>> \o
                  (IF last = NoGame THEN <<>> ELSE <<GameState(room, last)>>)
         IN  IsQueue(r) /\ Ordered(shown, r, last, n + 1)
<1> DEFINE a == RoomState(room)
           b == GameState(room, last)
           r == <<a>> \o (IF last = NoGame THEN <<>> ELSE <<b>>)
<1>1. a.type = "room_state" /\ b.type # "room_state" /\ b.game = last
  BY DEF RoomState, GameState
<1>2. \A h : Known(h, n) => Known(h, n + 1)
  BY SnapshotIsGame DEF Known
<1> HIDE DEF a, b
<1>3. CASE last = NoGame
  <2>1. r = <<a>>
    BY <1>3
  <2> HIDE DEF r
  <2>2. IsQueue(r) /\ DOMAIN r = {1} /\ r[1] = a
    BY <2>1 DEF IsQueue
  <2>3. Ordered(shown, r, last, n + 1)
    BY <1>1, <1>2, <2>2 DEF Ordered
  <2> QED BY <2>2, <2>3 DEF r, a, b
<1>4. CASE last # NoGame
  <2>0. r = <<a>> \o <<b>>
    BY <1>4
  <2> HIDE DEF r
  <2> DEFINE c == <<a>>
             d == <<b>>
  <2>1. IsQueue(c) /\ IsQueue(d) /\ Len(c) = 1 /\ Len(d) = 1 /\ c[1] = a /\ d[1] = b
    BY DEF IsQueue
  <2>5. r = c \o d
    BY <2>0
  <2> HIDE DEF c, d
  <2>6. /\ IsQueue(r) /\ DOMAIN r = 1 .. 1 + 1
        /\ \A i \in 1 .. 1 + 1 : r[i] = IF i <= 1 THEN c[i] ELSE d[i - 1]
    <3>1. IsQueue(c) /\ IsQueue(d)
      BY <2>1
    <3>2. /\ IsQueue(c \o d) /\ DOMAIN (c \o d) = 1 .. Len(c) + Len(d)
          /\ \A i \in 1 .. Len(c) + Len(d) :
               (c \o d)[i] = IF i <= Len(c) THEN c[i] ELSE d[i - Len(c)]
      BY ONLY <3>1, QueueAfter
    <3> QED BY <2>1, <2>5, <3>2
  <2>2. IsQueue(r) /\ DOMAIN r = {1, 2} /\ r[1] = a /\ r[2] = b
    <3>1. 1 .. 1 + 1 = {1, 2}
      OBVIOUS
    <3>2. r[1] = c[1] /\ r[2] = d[1]
      BY <2>6
    <3> QED BY <2>1, <2>6, <3>1, <3>2
  <2>3. Follows(last, last)
    BY DEF Follows
  <2>4. Ordered(shown, r, last, n + 1)
    BY <1>1, <1>2, <1>4, <2>2, <2>3 DEF Ordered
  <2> QED BY <2>2, <2>4 DEF r, a, b
<1> QED BY <1>3, <1>4
-----------------------------------------------------------------------------
(***************************************************************************)
(* What the board makes of two snapshots.                                  *)
(***************************************************************************)
\* A pile that grew by several cards on top of the old one.
LEMMA CollectionGrows ==
  ASSUME NEW p, NEW n, IsSnapshot(p), IsSnapshot(n),
         inferCompletedCompositionCollection(p, n) # NoCollection
  PROVE  /\ Len(n.pile) > Len(p.pile) + 1
         /\ p.pile # <<>> => \E i \in DOMAIN n.pile : n.pile[i] = p.pile[1]
         /\ inferCompletedCompositionCollection(p, n) =
              [collected |-> Len(n.pile) - Len(p.pile) - 1, actor |-> p.player,
               card |-> n.pile[1]]
<1> DEFINE added == Len(n.pile) - Len(p.pile)
<1>1. /\ added > 1 /\ SubSeq(n.pile, added + 1, Len(n.pile)) = p.pile
      /\ inferCompletedCompositionCollection(p, n) =
           [collected |-> added - 1, actor |-> p.player, card |-> n.pile[1]]
  BY DEF inferCompletedCompositionCollection
<1>2. /\ Len(n.pile) \in Nat /\ Len(p.pile) \in Nat /\ n.pile \in Seq(Nat \X Nat)
      /\ DOMAIN n.pile = 1 .. Len(n.pile) /\ DOMAIN p.pile = 1 .. Len(p.pile)
      /\ p.pile \in Seq(Nat \X Nat)
  BY SnapshotFields
<1> DEFINE k == Len(n.pile)
           l == Len(p.pile)
<1>5. k \in Nat /\ l \in Nat /\ added = k - l /\ added > 1
  BY <1>1, <1>2
<1> HIDE DEF k, l, added
<1>6. k > l + 1
  BY <1>5
<1>3. Len(n.pile) > Len(p.pile) + 1
  BY <1>6 DEF k, l
<1>4. ASSUME p.pile # <<>>
      PROVE  \E i \in DOMAIN n.pile : n.pile[i] = p.pile[1]
  <2>1. Len(p.pile) > 0
    BY <1>2, <1>4
  <2>6. l > 0
    BY <2>1 DEF l
  <2>7. added + 1 \in 1 .. k /\ added + 1 <= k
    BY <1>5, <2>6
  <2>2. added + 1 \in 1 .. Len(n.pile) /\ added + 1 <= Len(n.pile)
    BY <2>7 DEF k
  <2> DEFINE s == n.pile
             a == added + 1
             S == Nat \X Nat
  <2>3. s \in Seq(S) /\ a \in 1 .. Len(s) /\ Len(s) \in Nat
    BY <1>2, <2>2
  <2>4. SubSeq(s, a, Len(s)) = p.pile
    BY <1>1
  <2> HIDE DEF s, a, S
  <2>5. SubSeq(s, a, Len(s))[1] = s[a]
    <3>1. 1 \in 1 .. Len(s) - a + 1
      BY <2>3
    <3>2. SubSeq(s, a, Len(s)) = [i \in 1 .. Len(s) - a + 1 |-> s[i + a - 1]]
      BY <2>3
    <3>3. 1 + a - 1 = a
      BY <2>3
    <3> QED BY <3>1, <3>2, <3>3
  <2> QED BY <1>2, <2>2, <2>4, <2>5 DEF s, a
<1> QED BY <1>1, <1>3, <1>4 DEF added

\* What is inferred from a discard: the completed compositions collected with it.
LEMMA CollectionOfDiscard ==
  ASSUME NEW p, NEW n, IsSnapshot(p), IsSnapshot(n), NEW done \in Nat,
         n.pile = [i \in 1 .. done + 1 |-> <<n.ver, i - 1>>] \o p.pile
  PROVE  /\ n.pile[1] = <<n.ver, 0>>
         /\ done = 0 => inferCompletedCompositionCollection(p, n) = NoCollection
         /\ done # 0 => inferCompletedCompositionCollection(p, n) # NoCollection
<1> DEFINE new == [i \in 1 .. done + 1 |-> <<n.ver, i - 1>>]
           below == p.pile
           m == done + 1
           v == n.ver
<1>1. /\ Len(below) \in Nat /\ below \in Seq(Nat \X Nat)
      /\ DOMAIN below = 1 .. Len(below) /\ v \in Nat
  BY SnapshotFields
<1>2. m \in Nat /\ m >= 1
  OBVIOUS
<1>3. new[1] = <<v, 0>>
  <2>1. 1 \in 1 .. done + 1
    OBVIOUS
  <2> QED BY <2>1
<1>4. new = [i \in 1 .. m |-> <<v, i - 1>>]
  OBVIOUS
<1>5. IsQueue(new) /\ Len(new) = m
  <2> HIDE DEF new, m, v
  <2> QED BY <1>2, <1>4 DEF IsQueue
<1>6. IsQueue(below)
  <2> DEFINE S == Nat \X Nat
  <2>1. below \in Seq(S)
    BY <1>1
  <2> HIDE DEF S, below
  <2> QED BY <2>1, SequenceIsQueue
<1>7. n.pile = new \o below
  OBVIOUS
<1> HIDE DEF new, below
<1> DEFINE pile == n.pile
<1>8. pile = new \o below
  BY <1>7
<1> HIDE DEF pile
<1>9. /\ IsQueue(pile) /\ Len(pile) = m + Len(below)
      /\ \A i \in 1 .. m + Len(below) : pile[i] = IF i <= m THEN new[i] ELSE below[i - m]
  <2>1. /\ IsQueue(new \o below) /\ Len(new \o below) = Len(new) + Len(below)
        /\ \A i \in 1 .. Len(new) + Len(below) :
             (new \o below)[i] = IF i <= Len(new) THEN new[i] ELSE below[i - Len(new)]
    BY ONLY <1>5, <1>6, QueueAfter
  <2> QED BY <1>5, <1>8, <2>1
<1>10. pile[1] = <<v, 0>>
  <2>1. 1 \in 1 .. m + Len(below) /\ 1 <= m
    BY <1>1, <1>2
  <2> QED BY <1>3, <1>9, <2>1
<1>11. Len(pile) - Len(below) = m
  BY <1>1, <1>2, <1>9
<1>12. SubSeq(pile, m + 1, Len(pile)) = below
  <2> DEFINE k == Len(pile)
             l == Len(below)
  <2>1. k \in Nat /\ l \in Nat /\ k = m + l
    BY <1>1, <1>2, <1>9
  <2>2. pile \in Seq(Entries(pile))
    BY <1>9, QueueIsSequence
  <2>3. below = [i \in 1 .. l |-> below[i]]
    BY <1>6 DEF IsQueue
  <2> HIDE DEF k, l, m
  <2>4. k - (m + 1) + 1 = l
    BY <1>2, <2>1
  <2>5. SubSeq(pile, m + 1, k) = [i \in 1 .. l |-> pile[i + (m + 1) - 1]]
    BY <1>2, <2>1, <2>2, <2>4 DEF k
  <2>6. \A i \in 1 .. l : pile[i + (m + 1) - 1] = below[i]
    <3> SUFFICES ASSUME NEW i \in 1 .. l
                 PROVE  pile[i + (m + 1) - 1] = below[i]
      OBVIOUS
    <3> DEFINE j == i + m
    <3>2. j \in 1 .. m + l /\ ~(j <= m) /\ j - m = i /\ i + (m + 1) - 1 = j
      BY <1>2, <2>1
    <3> HIDE DEF j
    <3>3. pile[j] = IF j <= m THEN new[j] ELSE below[j - m]
      BY <1>9, <3>2 DEF l
    <3> QED BY <3>2, <3>3
  <2> QED BY <2>3, <2>5, <2>6 DEF k
<1>13. inferCompletedCompositionCollection(p, n) =
         IF m > 1 THEN [collected |-> m - 1, actor |-> p.player, card |-> pile[1]]
         ELSE NoCollection
  <2> HIDE DEF m
  <2> QED BY <1>11, <1>12 DEF inferCompletedCompositionCollection, pile, below
<1>14. done = 0 => inferCompletedCompositionCollection(p, n) = NoCollection
  BY <1>13
<1>15. ASSUME done # 0
       PROVE  inferCompletedCompositionCollection(p, n) # NoCollection
  <2>1. m > 1 /\ m - 1 # 0
    BY <1>15
  <2>2. inferCompletedCompositionCollection(p, n).collected = m - 1
    BY <1>13, <2>1
  <2>3. NoCollection.collected = 0
    BY DEF NoCollection
  <2> QED BY <2>1, <2>2, <2>3
<1> QED BY <1>10, <1>14, <1>15 DEF pile
\* Nothing is collected by a move that is not a discard.
LEMMA NothingCollected ==
  ASSUME NEW p, NEW n, IsSnapshot(p), IsSnapshot(n), Moved(p, n), ~Discarded(p, n)
  PROVE  inferCompletedCompositionCollection(p, n) = NoCollection
<1> SUFFICES ASSUME inferCompletedCompositionCollection(p, n) # NoCollection
             PROVE  FALSE
  OBVIOUS
<1>1. Len(n.pile) > Len(p.pile) + 1
  BY CollectionGrows
<1>2. Len(n.pile) \in Nat /\ Len(p.pile) \in Nat /\ p.pile \in Seq(Nat \X Nat)
  BY SnapshotFields
<1>3. CASE Drew(p, n)
  <2>1. CASE n.drawn = "deck"
    BY <1>1, <1>2, <1>3, <2>1 DEF Drew
  <2>2. CASE n.drawn = "discard"
    <3>1. p.pile # <<>> /\ n.pile = Tail(p.pile)
      BY <1>3, <2>2 DEF Drew
    <3>2. Len(n.pile) = Len(p.pile) - 1
      BY <1>2, <3>1, HeadTailProperties
    <3> QED BY <1>1, <1>2, <3>2
  <2> QED BY <1>3, <2>1, <2>2 DEF Drew
<1>4. CASE Stayed(p, n)
  BY <1>1, <1>2, <1>4 DEF Stayed
<1>5. CASE Dealt(p, n)
  <2>1. Len(n.pile) = 1
    BY <1>5 DEF Dealt
  <2> QED BY <1>1, <1>2, <2>1
<1> QED BY <1>3, <1>4, <1>5 DEF Moved

\* Two ways to infer that a card moved.
Takes(p, n, f) ==
  /\ n.player # Viewer /\ sameTurn(p, n) /\ p.drawn = "none"
  /\ n.drawn \in {"deck", "discard"}
  /\ n.hand[n.player] = p.hand[n.player] + 1
  /\ f = [source |-> n.drawn, actor |-> n.player,
          card |-> IF n.drawn = "deck" THEN FaceDown ELSE p.pile[1]]

Gives(p, n, f) ==
  /\ p.player # Viewer /\ ~sameTurn(p, n)
  /\ Len(n.pile) > Len(p.pile)
  /\ f = [source |-> "player", actor |-> p.player, card |-> n.pile[1]]

\* What the board infers to have moved was either taken from a pile or given to one.
LEMMA TransferCases ==
  ASSUME NEW p, NEW n, IsSnapshot(n), inferCardTransfer(p, n) # NoTransfer
  PROVE  Takes(p, n, inferCardTransfer(p, n)) \/ Gives(p, n, inferCardTransfer(p, n))
<1>1. n.drawn \in {"none", "deck", "discard"}
  BY DEF IsSnapshot
<1> QED BY <1>1 DEF inferCardTransfer, Takes, Gives

\* A card taken is the card drawn, and nothing is collected meanwhile.
LEMMA TakenIsReal ==
  ASSUME NEW p, NEW n, NEW f, IsSnapshot(p), IsSnapshot(n), Later(p, n), Takes(p, n, f),
         n.ver = p.ver + 1 => Moved(p, n)
  PROVE  /\ f.actor # Viewer
         /\ n.ver = p.ver + 1 =>
              n.act = [kind |-> f.source, actor |-> f.actor, card |-> f.card]
         /\ f.source \in {"deck", "discard"}
         /\ inferCompletedCompositionCollection(p, n) = NoCollection
<1>1. /\ n.player # Viewer /\ n.round = p.round /\ n.turn = p.turn /\ n.player = p.player
      /\ p.drawn = "none" /\ n.drawn \in {"deck", "discard"}
      /\ n.hand[n.player] = p.hand[n.player] + 1
  BY DEF Takes, sameTurn
<1>2. /\ f.source = n.drawn /\ f.actor = n.player
      /\ f.card = IF n.drawn = "deck" THEN FaceDown ELSE p.pile[1]
  BY DEF Takes
<1>3. p.round \in Nat /\ p.turn \in Nat /\ p.hand[n.player] \in Nat
  BY DEF IsSnapshot
<1>4. ASSUME n.ver = p.ver + 1
      PROVE  n.act = [kind |-> f.source, actor |-> f.actor, card |-> f.card]
  <2>1. Drew(p, n)
    <3>1. ~Stayed(p, n)
      BY <1>1 DEF Stayed
    <3>2. ~Discarded(p, n)
      BY <1>1 DEF Discarded
    <3>3. ~Dealt(p, n)
      BY <1>1 DEF Dealt
    <3> QED BY <1>4, <3>1, <3>2, <3>3 DEF Moved
  <2>2. n.act = [kind |-> n.drawn, actor |-> p.player,
                 card |-> IF n.drawn = "discard" THEN p.pile[1] ELSE FaceDown]
    BY <2>1 DEF Drew
  <2>3. CASE n.drawn = "deck"
    BY <1>1, <1>2, <2>2, <2>3
  <2>4. CASE n.drawn = "discard"
    BY <1>1, <1>2, <2>2, <2>4
  <2> QED BY <1>1, <2>3, <2>4
<1>5. inferCompletedCompositionCollection(p, n) = NoCollection
  <2> SUFFICES ASSUME inferCompletedCompositionCollection(p, n) # NoCollection
               PROVE  FALSE
    OBVIOUS
  <2>1. /\ Len(n.pile) > Len(p.pile) + 1
        /\ p.pile # <<>> => \E i \in DOMAIN n.pile : n.pile[i] = p.pile[1]
    BY CollectionGrows
  <2>2. p.pile # <<>> /\ (\A i \in DOMAIN p.pile : p.pile[i][1] <= p.ver)
    BY <1>1 DEF IsSnapshot
  <2>3. CASE \A i \in DOMAIN n.pile : n.pile[i][1] > p.ver
    <3>1. PICK i \in DOMAIN n.pile : n.pile[i] = p.pile[1]
      BY <2>1, <2>2
    <3>2. p.pile[1][1] > p.ver
      BY <2>3, <3>1
    <3>3. p.pile \in Seq(Nat \X Nat) /\ p.ver \in Nat
      BY DEF IsSnapshot
    <3>4. 1 \in DOMAIN p.pile
      BY <2>2, <3>3
    <3>5. p.pile[1] \in Nat \X Nat
      BY <3>3, <3>4
    <3>6. p.pile[1][1] \in Nat /\ p.pile[1][1] <= p.ver
      BY <2>2, <3>4, <3>5
    <3> QED BY <3>2, <3>3, <3>6
  <2>4. CASE p.round < n.round
    BY <1>1, <1>3, <2>4
  <2>5. CASE p.round = n.round /\ p.turn < n.turn
    BY <1>1, <1>3, <2>5
  <2>6. CASE /\ p.round = n.round /\ p.turn = n.turn
             /\ n.hand[n.player] # 0 => Len(n.pile) <= Len(p.pile)
    <3>1. n.hand[n.player] # 0
      BY <1>1, <1>3
    <3>2. Len(n.pile) \in Nat /\ Len(p.pile) \in Nat
      BY SnapshotFields
    <3> QED BY <2>1, <2>6, <3>1, <3>2
  <2> QED BY <2>3, <2>4, <2>5, <2>6 DEF Later
<1> QED BY <1>1, <1>2, <1>4, <1>5

\* A card given is the card placed, unless something is collected with it.
LEMMA GivenIsReal ==
  ASSUME NEW p, NEW n, NEW f, IsSnapshot(p), IsSnapshot(n), Gives(p, n, f),
         n.ver = p.ver + 1 => Moved(p, n),
         inferCompletedCompositionCollection(p, n) = NoCollection
  PROVE  /\ f.actor # Viewer /\ f.source = "player"
         /\ n.ver = p.ver + 1 =>
              n.act = [kind |-> "place", actor |-> f.actor, card |-> f.card]
<1>1. /\ p.player # Viewer /\ Len(n.pile) > Len(p.pile)
      /\ ~(p.round = n.round /\ p.turn = n.turn /\ p.player = n.player)
      /\ f.source = "player" /\ f.actor = p.player /\ f.card = n.pile[1]
  BY DEF Gives, sameTurn
<1>2. ASSUME n.ver = p.ver + 1
      PROVE  n.act = [kind |-> "place", actor |-> f.actor, card |-> f.card]
  <2>1. Discarded(p, n)
    <3>1. ~Drew(p, n) /\ ~Stayed(p, n)
      BY <1>1 DEF Drew, Stayed, SameTurn
    <3>2. ~Dealt(p, n)
      <4> SUFFICES ASSUME Dealt(p, n)
                   PROVE  FALSE
        OBVIOUS
      <4>1. Len(n.pile) = 1 /\ p.pile # <<>>
        BY DEF Dealt
      <4>2. p.pile \in Seq(Nat \X Nat)
        BY DEF IsSnapshot
      <4>3. Len(p.pile) \in Nat \ {0}
        BY <4>1, <4>2
      <4> QED BY <1>1, <4>1, <4>3
    <3> QED BY <1>2, <3>1, <3>2 DEF Moved
  <2>2. PICK done \in {p.done, p.done + CompletedCards} :
          /\ n.pile = [i \in 1 .. done + 1 |-> <<n.ver, i - 1>>] \o p.pile
          /\ n.act = [kind |-> IF done = 0 THEN "place" ELSE "collect",
                      actor |-> p.player, card |-> <<n.ver, 0>>]
    BY <2>1 DEF Discarded
  <2>3. done \in Nat
    BY SnapshotFields DEF CompletedCards
  <2>4. n.pile[1] = <<n.ver, 0>> /\ done = 0
    BY <2>2, <2>3, CollectionOfDiscard
  <2> QED BY <1>1, <2>2, <2>4
<1> QED BY <1>1, <1>2

\* What is collected was completed.
LEMMA CollectedIsReal ==
  ASSUME NEW p, NEW n, IsSnapshot(p), IsSnapshot(n), Moved(p, n),
         inferCompletedCompositionCollection(p, n) # NoCollection
  PROVE  LET c == inferCompletedCompositionCollection(p, n)
         IN  n.act = [kind |-> "collect", actor |-> c.actor, card |-> c.card]
<1>1. Discarded(p, n)
  BY NothingCollected
<1>2. PICK done \in {p.done, p.done + CompletedCards} :
        /\ n.pile = [i \in 1 .. done + 1 |-> <<n.ver, i - 1>>] \o p.pile
        /\ n.act = [kind |-> IF done = 0 THEN "place" ELSE "collect",
                    actor |-> p.player, card |-> <<n.ver, 0>>]
  BY <1>1 DEF Discarded
<1>3. done \in Nat
  BY SnapshotFields DEF CompletedCards
<1>4. n.pile[1] = <<n.ver, 0>> /\ done # 0
  BY <1>2, <1>3, CollectionOfDiscard
<1>5. inferCompletedCompositionCollection(p, n) =
        [collected |-> Len(n.pile) - Len(p.pile) - 1, actor |-> p.player,
         card |-> n.pile[1]]
  BY CollectionGrows
<1> QED BY <1>2, <1>4, <1>5
\* The flight h after a render that had the flight f and infers the collection c.
FlightOK(f, n, c, h) ==
  /\ RealFlight(h)
  /\ h = f \/ (h # NoTransfer /\ h.to = n.ver /\ c = NoCollection)

\* After a later snapshot the card in flight is the one of before or shows the move to this snapshot.
LEMMA FlightAfter ==
  ASSUME NEW f, NEW p, NEW n, IsSnapshot(p), IsSnapshot(n), p.ver < n.ver,
         n.ver = p.ver + 1 => Moved(p, n), Later(p, n), RealFlight(f)
  PROVE  FlightOK(f, n, inferCompletedCompositionCollection(p, n),
                  CardTransferAnimation(f, p, n, inferCompletedCompositionCollection(p, n),
                                        inferCardTransfer(p, n)))
<1> DEFINE c == inferCompletedCompositionCollection(p, n)
           t == inferCardTransfer(p, n)
           h == CardTransferAnimation(f, p, n, c, t)
           new == [source |-> t.source, actor |-> t.actor, card |-> t.card,
                   from |-> p.ver, to |-> n.ver, act |-> n.act]
<1>1. CASE t = NoTransfer \/ (t.source = "player" /\ c # NoCollection)
  <2>1. h = f
    BY <1>1 DEF CardTransferAnimation
  <2> HIDE DEF h, c
  <2>2. FlightOK(f, n, c, h)
    BY <2>1 DEF FlightOK
  <2> QED BY <2>2 DEF h, c
<1>2. CASE ~(t = NoTransfer \/ (t.source = "player" /\ c # NoCollection))
  <2>1. h = new
    BY <1>2 DEF CardTransferAnimation
  <2>2. Takes(p, n, t) \/ Gives(p, n, t)
    BY <1>2, TransferCases
  <2>3. CASE Takes(p, n, t)
    <3>1. /\ t.actor # Viewer
          /\ n.ver = p.ver + 1 =>
               n.act = [kind |-> t.source, actor |-> t.actor, card |-> t.card]
          /\ t.source \in {"deck", "discard"} /\ c = NoCollection
      BY <2>3, TakenIsReal
    <3> HIDE DEF c, t
    <3>2. new.source # "player" /\ new.source # "none"
      BY <3>1
    <3>3. new # NoTransfer
      BY <3>2 DEF NoTransfer
    <3>4. RealFlight(new)
      BY <3>1, <3>2 DEF RealFlight, RealMove
    <3>5. new.to = n.ver
      OBVIOUS
    <3> HIDE DEF h, new
    <3>6. FlightOK(f, n, c, h)
      BY <2>1, <3>1, <3>3, <3>4, <3>5 DEF FlightOK
    <3> QED BY <3>6 DEF h, c, t
  <2>4. CASE Gives(p, n, t)
    <3>1. t.source = "player"
      BY <2>4 DEF Gives
    <3>2. c = NoCollection
      BY <1>2, <3>1
    <3>3. /\ t.actor # Viewer
          /\ n.ver = p.ver + 1 =>
               n.act = [kind |-> "place", actor |-> t.actor, card |-> t.card]
      BY <2>4, <3>2, GivenIsReal
    <3> HIDE DEF c, t
    <3>4. new.source = "player"
      BY <3>1
    <3>5. new # NoTransfer
      BY <3>4 DEF NoTransfer
    <3>6. RealFlight(new)
      BY <3>3, <3>4 DEF RealFlight, RealMove
    <3>7. new.to = n.ver
      OBVIOUS
    <3> HIDE DEF h, new
    <3>8. FlightOK(f, n, c, h)
      BY <2>1, <3>2, <3>5, <3>6, <3>7 DEF FlightOK
    <3> QED BY <3>8 DEF h, c, t
  <2> QED BY <2>2, <2>3, <2>4
<1> QED BY <1>1, <1>2

\* The sequence h after a render that had the sequence s and infers the collection c.
SequenceOK(s, n, c, h) ==
  /\ RealSequence(h) /\ SequenceShape(h)
  /\ h = s \/ (h # NoSequence /\ h.to = n.ver /\ c # NoCollection)

\* So it is with the cards collected from a completed composition.
LEMMA SequenceAfter ==
  ASSUME NEW s, NEW p, NEW n, IsSnapshot(p), IsSnapshot(n), p.ver < n.ver,
         n.ver = p.ver + 1 => Moved(p, n), RealSequence(s), SequenceShape(s)
  PROVE  SequenceOK(s, n, inferCompletedCompositionCollection(p, n),
                    CompletedCompositionAnimation(s, p, n,
                      inferCompletedCompositionCollection(p, n)))
<1> DEFINE c == inferCompletedCompositionCollection(p, n)
           h == CompletedCompositionAnimation(s, p, n, c)
           new == [stage |-> "collect", actor |-> c.actor, card |-> c.card,
                   from |-> p.ver, to |-> n.ver, act |-> n.act]
<1>1. CASE h = s
  <2> HIDE DEF h, c
  <2>1. SequenceOK(s, n, c, h)
    BY <1>1 DEF SequenceOK
  <2> QED BY <2>1 DEF h, c
<1>2. CASE h # s
  <2>1. h = new /\ c # NoCollection
    BY <1>2 DEF CompletedCompositionAnimation
  <2>2. n.ver = p.ver + 1 => n.act = [kind |-> "collect", actor |-> c.actor, card |-> c.card]
    BY <2>1, CollectedIsReal
  <2> HIDE DEF c
  <2>3. new.stage # "none"
    OBVIOUS
  <2>4. new # NoSequence
    BY <2>3 DEF NoSequence
  <2>5. RealSequence(new)
    BY <2>2 DEF RealSequence, RealMove
  <2>6. SequenceShape(new)
    BY DEF SequenceShape
  <2>7. new.to = n.ver
    OBVIOUS
  <2> HIDE DEF h, new
  <2>8. SequenceOK(s, n, c, h)
    BY <2>1, <2>4, <2>5, <2>6, <2>7 DEF SequenceOK
  <2> QED BY <2>8 DEF h, c
<1> QED BY <1>1, <1>2

\* A board animates only what moved, and each move once.
LEMMA AnimateReal ==
  ASSUME NEW b, NEW p, NEW n, IsSnapshot(p), IsSnapshot(n), p.ver < n.ver,
         n.ver = p.ver + 1 => Moved(p, n), Later(p, n), RealBoard(b, p.ver)
  PROVE  RealBoard(animate(b, p, n), n.ver)
<1> DEFINE c == inferCompletedCompositionCollection(p, n)
           f == CardTransferAnimation(b.flight, p, n, c, inferCardTransfer(p, n))
           s == CompletedCompositionAnimation(b.sequence, p, n, c)
           a == animate(b, p, n)
<1>1. a.flight = f /\ a.sequence = s
  BY DEF animate
<1>2. FlightOK(b.flight, n, c, f)
  BY FlightAfter DEF RealBoard
<1>3. SequenceOK(b.sequence, n, c, s)
  BY SequenceAfter DEF RealBoard
<1>5. p.ver \in Nat /\ n.ver \in Nat
  BY SnapshotIsGame
<1> HIDE DEF a, c, f, s
<1>6. f # NoTransfer => f.to \in Nat /\ f.to <= n.ver
  BY <1>2, <1>5 DEF RealBoard, FlightOK
<1>7. s # NoSequence => s.to \in Nat /\ s.to <= n.ver
  BY <1>3, <1>5 DEF RealBoard, SequenceOK
<1>8. f # NoTransfer /\ s # NoSequence => f.to # s.to
  <2>1. CASE f = b.flight /\ s = b.sequence
    BY <2>1 DEF RealBoard
  <2>2. CASE f = b.flight /\ s # b.sequence
    BY <1>3, <1>5, <2>2 DEF RealBoard, SequenceOK
  <2>3. CASE f # b.flight /\ s = b.sequence
    BY <1>2, <1>5, <2>3 DEF RealBoard, FlightOK
  <2>4. CASE f # b.flight /\ s # b.sequence
    BY <1>2, <1>3, <2>4 DEF FlightOK, SequenceOK
  <2> QED BY <2>1, <2>2, <2>3, <2>4
<1>9. RealBoard(a, n.ver)
  BY <1>1, <1>2, <1>3, <1>6, <1>7, <1>8 DEF RealBoard, FlightOK, SequenceOK
<1> QED BY <1>9 DEF a

-----------------------------------------------------------------------------
(***************************************************************************)
(* The steps.                                                              *)
(***************************************************************************)
\* The parts of the invariant that no server step touches.
LEMMA ScreenKept ==
  ASSUME Remembered, BoardOK, UNCHANGED screenVars
  PROVE  Remembered' /\ BoardOK' /\ client' = client
         /\ transition' = transition /\ board' = board
  BY DEF screenVars, Remembered, BoardOK, screen, nextResults, resultGame, resultRoom,
         isResultsPhase, view, isGameRouteSnapshotResolving
\* Once the rest is kept, a server step only has to keep these.
LEMMA ServerKeeps ==
  ASSUME ResultsInv, UNCHANGED screenVars, moves' \in Nat, IsQueue(queue'),
         server' = [room |-> server'.room, game |-> server'.game], server'.room \in Rooms,
         ServerOK', Ordered(client.game, queue', server'.game, moves')
  PROVE  ResultsInv'
<1>1. /\ Remembered' /\ BoardOK' /\ client' = client
      /\ transition' = transition /\ board' = board
  BY ScreenKept DEF ResultsInv
<1>2. Shapes'
  BY <1>1 DEF ResultsInv, Shapes
<1>3. InOrder'
  BY <1>1 DEF InOrder
<1> QED BY <1>1, <1>2, <1>3 DEF ResultsInv

\* A move is broadcast.
LEMMA Broadcast ==
  ASSUME ResultsInv, UNCHANGED screenVars, moves' = moves + 1,
         NEW room \in Rooms, NEW g, broadcastActionSuccess(room, g),
         room.phase # "lobby", Known(g, moves + 1),
         room.phase = "in_progress" => AllHold(g),
         room.phase = "round_over" => g.pile # <<>>,
         \A h : (h # NoGame => Known(h, moves)) /\ Follows(h, server.game) => Follows(h, g)
  PROVE  ResultsInv'
<1> DEFINE resetRoom == [room EXCEPT !.phase = "lobby"]
           over == room.phase = "game_over"
           c == IF over THEN <<RoomState(resetRoom)>> ELSE <<>>
           last == IF over THEN NoGame ELSE g
           room2 == IF over THEN resetRoom ELSE room
           q == queue \o <<RoomState(room), GameState(room, g)>> \o c
<1>1. server' = [room |-> room2, game |-> last] /\ queue' = q
  BY DEF broadcastActionSuccess
<1>2. resetRoom \in Rooms /\ resetRoom.phase = "lobby"
  BY DEF Rooms
<1>3. g # NoGame /\ moves \in Nat /\ moves + 1 \in Nat
  BY SnapshotIsGame DEF Known, ResultsInv, Shapes
<1>4. c = <<>> \/ \E x : c = <<RoomState(x)>>
  OBVIOUS
<1>5. last \in {NoGame, g}
  OBVIOUS
<1>6. IsQueue(q) /\ Ordered(client.game, q, last, moves + 1)
  <2>1. IsQueue(queue) /\ Ordered(client.game, queue, server.game, moves)
    BY DEF ResultsInv, Shapes, InOrder
  <2> HIDE DEF c, last
  <2> QED BY <1>3, <1>4, <1>5, <2>1, OrderedSend
<1>7. /\ room2 \in Rooms /\ room2.phase \in {"lobby", "in_progress", "round_over"}
      /\ last = NoGame <=> room2.phase = "lobby"
      /\ room2.phase = "in_progress" => AllHold(last)
      /\ room2.phase = "round_over" => last.pile # <<>>
  <2>1. CASE over
    BY <1>2, <2>1
  <2>2. CASE ~over
    <3>1. room.phase \in {"in_progress", "round_over"}
      BY <2>2 DEF Rooms
    <3> QED BY <1>3, <2>2, <3>1
  <2> QED BY <2>1, <2>2
<1> HIDE DEF room2, last, q
<1>8. server'.room = room2 /\ server'.game = last
  BY <1>1
<1>9. ServerOK'
  BY <1>7, <1>8 DEF ServerOK, AllHold
<1> QED BY <1>1, <1>3, <1>6, <1>7, <1>8, <1>9, ServerKeeps

\* So is one that leads from the server's game to the next snapshot.
LEMMA MoveIsSent ==
  ASSUME ResultsInv, UNCHANGED screenVars, moves' = moves + 1, server.game # NoGame,
         NEW room \in Rooms, NEW g, broadcastActionSuccess(room, g),
         room.phase # "lobby", IsSnapshot(g), Moved(server.game, g),
         room.phase = "in_progress" => AllHold(g),
         room.phase = "round_over" => g.pile # <<>>
  PROVE  ResultsInv'
<1>1. Known(server.game, moves) /\ moves \in Nat
  BY DEF ResultsInv, InOrder, Ordered, Shapes
<1>2. Known(g, moves + 1)
  <2>1. g.ver = server.game.ver + 1 /\ server.game.ver \in Nat /\ server.game.ver <= 2 * moves + 1
    BY <1>1, SnapshotIsGame DEF Known, Moved
  <2> QED BY <1>1, <2>1 DEF Known
<1>3. \A h : (h # NoGame => Known(h, moves)) /\ Follows(h, server.game) => Follows(h, g)
  BY <1>1, FollowsOn DEF Known
<1> QED BY <1>2, <1>3, Broadcast

\* What is known of the server's game while a round is played.
LEMMA InProgressGame ==
  ASSUME ResultsInv, InProgress
  PROVE  /\ server.game # NoGame /\ IsSnapshot(server.game) /\ AllHold(server.game)
         /\ server.room \in Rooms /\ server.room.phase = "in_progress"
  BY DEF ResultsInv, InProgress, ServerOK, InOrder, Ordered, Known, Shapes

\* The discard that ends a turn, with b what playing made of the server's game.
LEMMA EndTurnSent ==
  ASSUME ResultsInv, UNCHANGED screenVars, moves' = moves + 1, InProgress,
         NEW b, IsSnapshot(b), AllHold(b), b.pile = server.game.pile,
         b.done \in {server.game.done, server.game.done + CompletedCards},
         b.round = server.game.round, b.turn = server.game.turn,
         b.player = server.game.player, endTurn(b)
  PROVE  ResultsInv'
<1> DEFINE g == server.game
           next == discardCard(b, g.ver)
<1>1. /\ g # NoGame /\ IsSnapshot(g) /\ server.room \in Rooms
      /\ server.room.phase = "in_progress"
  BY InProgressGame
<1>2. /\ IsSnapshot(next) /\ Moved(g, next) /\ next.pile # <<>>
      /\ next.hand[b.player] > 0 => AllHold(next)
  BY <1>1, DiscardMoves
<1>3. CASE next.hand[b.player] > 0
  <2>1. broadcastActionSuccess(server.room, next)
    BY <1>3 DEF endTurn
  <2> HIDE DEF next
  <2> QED BY <1>1, <1>2, <1>3, <2>1, MoveIsSent
<1>4. CASE ~(next.hand[b.player] > 0)
  <2>1. PICK gains \in [Players \ {b.player} -> Gains] :
          LET s == roundScores(next, b.player, gains)
          IN  broadcastActionSuccess(
                [server.room EXCEPT !.phase =
                   IF allOtherPlayersOverHundred(s, b.player)
                   THEN "game_over" ELSE "round_over"],
                finishRound(next, s))
    BY <1>4 DEF endTurn
  <2> DEFINE s == roundScores(next, b.player, gains)
             phase == IF allOtherPlayersOverHundred(s, b.player)
                      THEN "game_over" ELSE "round_over"
             room == [server.room EXCEPT !.phase = phase]
             won == finishRound(next, s)
  <2>2. broadcastActionSuccess(room, won)
    BY <2>1
  <2> HIDE DEF next, s
  <2>3. IsSnapshot(won) /\ Moved(g, won) /\ won.pile = next.pile
    BY <1>2, FinishMoves
  <2>4. phase \in {"game_over", "round_over"}
    OBVIOUS
  <2> HIDE DEF phase
  <2>5. room \in Rooms /\ room.phase = phase
    BY <1>1, <2>4 DEF Rooms
  <2> HIDE DEF room, won
  <2> QED BY <1>1, <1>2, <2>2, <2>3, <2>4, <2>5, MoveIsSent
<1> QED BY <1>3, <1>4

\* Draw.
LEMMA DrawKeeps ==
  ASSUME ResultsInv, NEW source \in {"deck", "discard"}, Draw(source)
  PROVE  ResultsInv'
<1>1. /\ UNCHANGED screenVars /\ moves' = moves + 1 /\ InProgress
      /\ server.game.drawn = "none"
      /\ broadcastActionSuccess(server.room, drawFrom(server.game, source))
  BY DEF Draw, Spend
<1>2. /\ server.game # NoGame /\ IsSnapshot(server.game) /\ AllHold(server.game)
      /\ server.room \in Rooms /\ server.room.phase = "in_progress"
  BY <1>1, InProgressGame
<1> DEFINE h == drawFrom(server.game, source)
<1>3. IsSnapshot(h) /\ AllHold(h) /\ Moved(server.game, h)
  BY <1>1, <1>2, DrawMoves
<1> HIDE DEF h
<1>4. broadcastActionSuccess(server.room, h)
  BY <1>1 DEF h
<1> QED BY <1>1, <1>2, <1>3, <1>4, MoveIsSent

\* PlayTable.
LEMMA PlayKeeps ==
  ASSUME ResultsInv, NEW play \in Plays, PlayTable(play)
  PROVE  ResultsInv'
<1>1. /\ UNCHANGED screenVars /\ moves' = moves + 1 /\ InProgress
      /\ canPlay(server.game, play)
      /\ broadcastActionSuccess(server.room, playTable(server.game, play))
  BY DEF PlayTable, Spend
<1>2. /\ server.game # NoGame /\ IsSnapshot(server.game) /\ AllHold(server.game)
      /\ server.room \in Rooms /\ server.room.phase = "in_progress"
  BY <1>1, InProgressGame
<1> DEFINE h == playTable(server.game, play)
<1>3. IsSnapshot(h) /\ AllHold(h) /\ Moved(server.game, h)
  BY <1>1, <1>2, PlayMoves
<1> HIDE DEF h
<1>4. broadcastActionSuccess(server.room, h)
  BY <1>1 DEF h
<1> QED BY <1>1, <1>2, <1>3, <1>4, MoveIsSent

\* Discard.
LEMMA DiscardKeeps ==
  ASSUME ResultsInv, Discard
  PROVE  ResultsInv'
<1>1. UNCHANGED screenVars /\ moves' = moves + 1 /\ InProgress /\ endTurn(server.game)
  BY DEF Discard, Spend
<1>2. IsSnapshot(server.game) /\ AllHold(server.game)
  BY <1>1, InProgressGame
<1> QED BY <1>1, <1>2, EndTurnSent

\* PlayTableAndDiscard.
LEMMA PlayAndDiscardKeeps ==
  ASSUME ResultsInv, NEW play \in Plays, PlayTableAndDiscard(play)
  PROVE  ResultsInv'
<1> DEFINE b == playTable(server.game, play)
<1>1. /\ UNCHANGED screenVars /\ moves' = moves + 1 /\ InProgress
      /\ canPlay(server.game, play) /\ endTurn(b)
  BY DEF PlayTableAndDiscard, Spend
<1>2. IsSnapshot(server.game) /\ AllHold(server.game)
  BY <1>1, InProgressGame
<1>3. /\ IsSnapshot(b) /\ AllHold(b) /\ b.pile = server.game.pile
      /\ b.done \in {server.game.done, server.game.done + CompletedCards}
      /\ SameTurn(server.game, b)
  BY <1>1, <1>2, PlayMoves
<1> HIDE DEF b
<1> QED BY <1>1, <1>3, EndTurnSent DEF SameTurn

\* StartNextRound.
LEMMA NextRoundKeeps ==
  ASSUME ResultsInv, StartNextRound
  PROVE  ResultsInv'
<1> DEFINE g == server.game
           totals == [p \in Players |-> g.scores[p].total]
           h == startRound(totals, g.round + 1, g.ver + 1)
           room == [server.room EXCEPT !.phase = "in_progress"]
<1>1. /\ UNCHANGED screenVars /\ moves' = moves + 1 /\ server.room.phase = "round_over"
      /\ broadcastActionSuccess(room, h)
  BY DEF StartNextRound, Spend
<1>2. g # NoGame /\ IsSnapshot(g) /\ g.pile # <<>> /\ server.room \in Rooms
  BY <1>1 DEF ResultsInv, ServerOK, InOrder, Ordered, Known, Shapes
<1>3. g.round + 1 \in Nat /\ g.ver + 1 \in Nat \ {0}
  BY <1>2, SnapshotFields
<1> HIDE DEF totals
<1>4. /\ IsSnapshot(h) /\ AllHold(h) /\ h.ver = g.ver + 1 /\ h.round = g.round + 1
      /\ h.drawn = "none" /\ h.pile = << <<g.ver + 1, 0>> >>
  BY <1>3, StartMoves
<1>5. room \in Rooms /\ room.phase = "in_progress"
  BY <1>2 DEF Rooms
<1> HIDE DEF h, room
<1>6. Moved(g, h)
  BY <1>2, <1>4 DEF Moved, Dealt
<1> QED BY <1>1, <1>2, <1>4, <1>5, <1>6, MoveIsSent

\* StartGame.
LEMMA StartGameKeeps ==
  ASSUME ResultsInv, StartGame
  PROVE  ResultsInv'
<1> DEFINE n == 2 * moves + 3
           totals == [p \in Players |-> 0]
           h == startRound(totals, 1, n)
           room == [server.room EXCEPT !.phase = "in_progress"]
<1>1. /\ UNCHANGED screenVars /\ moves' = moves + 1 /\ broadcastActionSuccess(room, h)
  BY DEF StartGame, Spend
<1>2. server.room \in Rooms /\ moves \in Nat
  BY DEF ResultsInv, Shapes
<1>3. n \in Nat \ {0} /\ n <= 2 * (moves + 1) + 1
  BY <1>2
<1> HIDE DEF totals, n
<1>8. n \in Nat \ {0} /\ 1 \in Nat
  BY <1>3
<1>4. IsSnapshot(h) /\ AllHold(h) /\ h.ver = n /\ h.pile = << <<n, 0>> >>
  BY ONLY <1>8, StartMoves
<1>5. room \in Rooms /\ room.phase = "in_progress"
  BY <1>2 DEF Rooms
<1> HIDE DEF h, room
<1>6. Known(h, moves + 1)
  BY <1>3, <1>4 DEF Known
<1>7. \A x : (x # NoGame => Known(x, moves)) /\ Follows(x, server.game) => Follows(x, h)
  <2>1. h.ver = 2 * moves + 3 /\ h.pile = << <<h.ver, 0>> >>
    BY <1>4 DEF n
  <2> QED BY <1>2, <1>4, <2>1, StartFollows
<1> QED BY <1>1, <1>4, <1>5, <1>6, <1>7, Broadcast

\* EndWithoutWinner.
LEMMA EndKeeps ==
  ASSUME ResultsInv, EndWithoutWinner
  PROVE  ResultsInv'
<1> DEFINE g == server.game
           act == [kind |-> "end", actor |-> 0, card |-> FaceDown]
           h == [g EXCEPT !.winner = 0, !.ver = @ + 1, !.act = act]
           room == [server.room EXCEPT !.phase = "game_over"]
<1>1. /\ UNCHANGED screenVars /\ moves' = moves + 1
      /\ server.room.phase \in {"in_progress", "round_over"}
      /\ broadcastActionSuccess(room, h)
  BY DEF EndWithoutWinner, Spend
<1>2. g # NoGame /\ IsSnapshot(g) /\ server.room \in Rooms
  BY <1>1 DEF ResultsInv, ServerOK, InOrder, Ordered, Known, Shapes
<1> HIDE DEF act
<1>3. IsSnapshot(h) /\ Moved(g, h)
  BY <1>2, EndMoves
<1>4. room \in Rooms /\ room.phase = "game_over"
  BY <1>2 DEF Rooms
<1> HIDE DEF h, room
<1> QED BY <1>1, <1>2, <1>3, <1>4, MoveIsSent

\* A room state by itself.
LEMMA RoomStateSent ==
  ASSUME ResultsInv, UNCHANGED screenVars, moves' = moves + 1, NEW room \in Rooms,
         room.phase = server.room.phase, server' = [room |-> room, game |-> server.game],
         queue' = Append(queue, RoomState(room))
  PROVE  ResultsInv'
<1>1. moves \in Nat /\ moves + 1 \in Nat /\ IsQueue(queue)
      /\ Ordered(client.game, queue, server.game, moves)
  BY DEF ResultsInv, Shapes, InOrder
<1>2. IsQueue(queue') /\ Ordered(client.game, queue', server.game, moves + 1)
  BY <1>1, OrderedRoomState
<1>3. server'.room = room /\ server'.game = server.game
  OBVIOUS
<1>4. ServerOK'
  BY <1>3 DEF ResultsInv, ServerOK, AllHold
<1> QED BY <1>1, <1>2, <1>3, <1>4, ServerKeeps

\* RoomChanges.
LEMMA RoomChangesKeeps ==
  ASSUME ResultsInv, RoomChanges
  PROVE  ResultsInv'
<1> DEFINE room == [server.room EXCEPT !.rev = 1 - @]
<1>1. server = [room |-> server.room, game |-> server.game] /\ server.room \in Rooms
  BY DEF ResultsInv, Shapes
<1>2. server' = [room |-> room, game |-> server.game]
  BY <1>1 DEF RoomChanges
<1>3. queue' = Append(queue, RoomState(room))
  BY <1>2 DEF RoomChanges
<1>4. room \in Rooms /\ room.phase = server.room.phase
  BY <1>1 DEF Rooms
<1>5. UNCHANGED screenVars /\ moves' = moves + 1
  BY DEF RoomChanges, Spend
<1> HIDE DEF room
<1> QED BY <1>2, <1>3, <1>4, <1>5, RoomStateSent

\* PlayerLeaves.
LEMMA LeaveKeeps ==
  ASSUME ResultsInv, NEW p \in Players, PlayerLeaves(p)
  PROVE  ResultsInv'
<1> DEFINE room == [server.room EXCEPT !.players = @ \ {p}]
<1>1. server = [room |-> server.room, game |-> server.game] /\ server.room \in Rooms
  BY DEF ResultsInv, Shapes
<1>2. server' = [room |-> room, game |-> server.game]
  BY <1>1 DEF PlayerLeaves
<1>3. queue' = Append(queue, RoomState(room))
  BY <1>2 DEF PlayerLeaves
<1>4. room \in Rooms /\ room.phase = server.room.phase
  BY <1>1 DEF Rooms
<1>5. UNCHANGED screenVars /\ moves' = moves + 1
  BY DEF PlayerLeaves, Spend
<1> HIDE DEF room
<1> QED BY <1>2, <1>3, <1>4, <1>5, RoomStateSent

\* Reconnect.
LEMMA ReconnectKeeps ==
  ASSUME ResultsInv, Reconnect
  PROVE  ResultsInv'
<1>1. /\ UNCHANGED screenVars /\ moves' = moves + 1 /\ server' = server
      /\ queue' = <<RoomState(server.room)>> \o
                  (IF server.game = NoGame THEN <<>>
                   ELSE <<GameState(server.room, server.game)>>)
  BY DEF Reconnect, Spend
<1>2. moves \in Nat /\ moves + 1 \in Nat /\ Ordered(client.game, queue, server.game, moves)
      /\ server = [room |-> server.room, game |-> server.game] /\ server.room \in Rooms
  BY DEF ResultsInv, Shapes, InOrder
<1>3. IsQueue(queue') /\ Ordered(client.game, queue', server.game, moves + 1)
  BY <1>1, <1>2, OrderedAnew
<1>4. ServerOK'
  BY <1>1 DEF ResultsInv, ServerOK, AllHold
<1> QED BY <1>1, <1>2, <1>3, <1>4, ServerKeeps
-----------------------------------------------------------------------------
(***************************************************************************)
(* The client's steps.                                                     *)
(***************************************************************************)
\* The hook remembers what it has just been given.
LEMMA UpdateRemembers ==
  ASSUME Shapes, Remembered, NEW c, client' = c,
         transition' = useVisibleRoundResults(transition, c)
  PROVE  /\ Remembered'
         /\ transition' = [currentGame |-> transition'.currentGame,
                           result |-> transition'.result,
                           visible |-> transition'.visible,
                           pending |-> transition'.pending]
<1> DEFINE next == [currentGame |-> c.game, result |-> nextResults(c),
                    visible |-> IF shouldDeferResults(transition, c) THEN NoResult
                                ELSE nextResults(c),
                    pending |-> IF shouldDeferResults(transition, c) THEN nextResults(c)
                                ELSE NoResult]
<1>0. nextResults(client)' = nextResults(c)
  BY DEF nextResults, resultGame, resultRoom, isResultsPhase
<1>1. CASE transition.currentGame = c.game /\ transition.result = nextResults(c)
  <2>1. transition' = transition
    BY <1>1 DEF useVisibleRoundResults
  <2> QED BY <1>0, <1>1, <2>1 DEF Shapes, Remembered
<1>2. CASE ~(transition.currentGame = c.game /\ transition.result = nextResults(c))
  <2>1. transition' = next
    BY <1>2 DEF useVisibleRoundResults
  <2>2. /\ next.currentGame = c.game /\ next.result = nextResults(c)
        /\ \/ next.visible = NoResult /\ next.pending = next.result
           \/ next.visible = next.result /\ next.pending = NoResult
    OBVIOUS
  <2>3. next = [currentGame |-> next.currentGame, result |-> next.result,
                visible |-> next.visible, pending |-> next.pending]
    OBVIOUS
  <2> HIDE DEF next
  <2> QED BY <1>0, <2>1, <2>2, <2>3 DEF Remembered
<1> QED BY <1>1, <1>2

\* A board is shown only with a game.
LEMMA BoardHasGame ==
  ASSUME NEW c, NEW t, view(c, t) = "board"
  PROVE  c.game # NoGame
  BY DEF view, isGameRouteSnapshotResolving

\* A render of a board that is shown nothing but what follows.
LEMMA RenderedBoard ==
  ASSUME Shapes, BoardOK, NEW c, NEW t, client' = c, transition' = t,
         board' = renderBoard(c, view(c, t)),
         c.game # NoGame /\ client.game # NoGame /\ c.game # client.game =>
           /\ IsSnapshot(client.game) /\ IsSnapshot(c.game)
           /\ Follows(client.game, c.game)
  PROVE  /\ BoardOK'
         /\ board' = [sequence |-> board'.sequence, flight |-> board'.flight]
<1>0. screen' = view(c, t)
  BY DEF screen
<1>1. CASE view(c, t) # "board"
  <2>1. board' = EmptyBoard
    BY <1>1 DEF renderBoard
  <2>2. EmptyBoard.flight = NoTransfer /\ EmptyBoard.sequence = NoSequence
        /\ EmptyBoard = [sequence |-> EmptyBoard.sequence, flight |-> EmptyBoard.flight]
    BY DEF EmptyBoard
  <2>3. BoardOK'
    BY <2>1, <2>2 DEF BoardOK, RealBoard, RealFlight, RealSequence, SequenceShape
  <2> QED BY <2>1, <2>2, <2>3
<1>2. CASE view(c, t) = "board" /\ screen # "board"
  <2>1. board' = board /\ board = EmptyBoard
    BY <1>2 DEF renderBoard, BoardOK
  <2>2. EmptyBoard.flight = NoTransfer /\ EmptyBoard.sequence = NoSequence
        /\ EmptyBoard = [sequence |-> EmptyBoard.sequence, flight |-> EmptyBoard.flight]
    BY DEF EmptyBoard
  <2>3. BoardOK'
    BY <2>1, <2>2 DEF BoardOK, RealBoard, RealFlight, RealSequence, SequenceShape
  <2> QED BY <2>1, <2>2, <2>3
<1>3. CASE view(c, t) = "board" /\ screen = "board" /\ c.game = client.game
  <2>1. board' = board
    BY <1>3 DEF renderBoard
  <2>2. client'.game.ver = client.game.ver
    BY <1>3
  <2>3. BoardOK'
    BY <1>0, <1>3, <2>1, <2>2 DEF BoardOK
  <2> QED BY <2>1, <2>3 DEF Shapes
<1>4. CASE view(c, t) = "board" /\ screen = "board" /\ c.game # client.game
  <2>1. c.game # NoGame
    BY <1>4, BoardHasGame
  <2>2. client.game # NoGame
    BY <1>4, BoardHasGame DEF screen
  <2> DEFINE p == client.game
             n == c.game
  <2>3. /\ IsSnapshot(p) /\ IsSnapshot(n) /\ p.ver < n.ver
        /\ n.ver = p.ver + 1 => Moved(p, n)
        /\ Later(p, n)
    BY <1>4, <2>1, <2>2 DEF Follows
  <2>4. RealBoard(board, p.ver)
    BY DEF BoardOK
  <2>5. board' = animate(board, p, n)
    BY <1>4 DEF renderBoard
  <2>6. RealBoard(board', n.ver)
    BY <2>3, <2>4, <2>5, AnimateReal
  <2>7. BoardOK'
    BY <1>0, <1>4, <2>6 DEF BoardOK
  <2>8. board' = [sequence |-> board'.sequence, flight |-> board'.flight]
    BY <2>5 DEF animate
  <2> QED BY <2>7, <2>8
<1> QED BY <1>1, <1>2, <1>3, <1>4

\* A render that leaves the server, the queue and the store's game alone.
LEMMA RenderKeeps ==
  ASSUME ResultsInv, NEW c, NEW t, NEW r, NEW less, Render(c, t, r, less),
         UNCHANGED <<server, queue>>, moves' \in {moves, moves + 1},
         c.game = client.game, Remembered',
         c = [room |-> c.room, game |-> c.game, completed |-> c.completed],
         t = [currentGame |-> t.currentGame, result |-> t.result,
              visible |-> t.visible, pending |-> t.pending]
  PROVE  ResultsInv'
<1>1. /\ client' = c /\ transition' = t /\ board' = renderBoard(c, view(c, t))
      /\ server' = server /\ queue' = queue
  BY DEF Render
<1>2. /\ BoardOK'
      /\ board' = [sequence |-> board'.sequence, flight |-> board'.flight]
  BY <1>1, RenderedBoard DEF ResultsInv
<1>3. moves \in Nat /\ moves' \in Nat /\ moves <= moves'
  BY DEF ResultsInv, Shapes
<1>4. \A g : Known(g, moves) => Known(g, moves')
  BY <1>3, SnapshotIsGame DEF Known
<1>5. InOrder'
  BY <1>1, <1>4 DEF ResultsInv, InOrder, Ordered
<1>6. ServerOK'
  BY <1>1 DEF ResultsInv, ServerOK, AllHold
<1>7. Shapes'
  BY <1>1, <1>2, <1>3 DEF ResultsInv, Shapes
<1> QED BY <1>2, <1>5, <1>6, <1>7 DEF ResultsInv

\* The steps that render what there is already.
LEMMA RevealKeeps ==
  ASSUME ResultsInv, RevealResults
  PROVE  ResultsInv'
<1> DEFINE t == [transition EXCEPT !.visible = transition.pending, !.pending = NoResult]
<1>1. Render(client, t, results, reduced) /\ UNCHANGED <<server, queue>> /\ moves' = moves
      /\ transition.pending # NoResult
  BY DEF RevealResults
<1>2. /\ t.visible = transition.pending /\ t.pending = NoResult
      /\ t.currentGame = transition.currentGame /\ t.result = transition.result
      /\ t = [currentGame |-> t.currentGame, result |-> t.result,
              visible |-> t.visible, pending |-> t.pending]
  <2> DEFINE a == transition.currentGame
             b == transition.result
             v == transition.visible
             w == transition.pending
  <2>1. transition \in [currentGame : {a}, result : {b}, visible : {v}, pending : {w}]
    <3>1. transition = [currentGame |-> a, result |-> b, visible |-> v, pending |-> w]
      BY DEF ResultsInv, Shapes
    <3> HIDE DEF a, b, v, w
    <3> QED BY <3>1
  <2>2. t = [transition EXCEPT !.visible = w, !.pending = NoResult]
    OBVIOUS
  <2> HIDE DEF a, b, v, w, t
  <2>3. t \in [currentGame : {a}, result : {b}, visible : {w}, pending : {NoResult}]
    BY <2>1, <2>2
  <2> QED BY <2>3 DEF a, b, v, w
<1> HIDE DEF t
<1>3. client' = client /\ transition' = t
  BY <1>1 DEF Render
<1>4. nextResults(client)' = nextResults(client)
  BY <1>3 DEF nextResults, resultGame, resultRoom, isResultsPhase
<1>5. Remembered'
  BY <1>1, <1>2, <1>3, <1>4 DEF ResultsInv, Remembered
<1> QED BY <1>1, <1>2, <1>5, RenderKeeps DEF ResultsInv, Shapes

\* A render of the same snapshot and the same results keeps the invariant.
LEMMA SameRenderKeeps ==
  ASSUME ResultsInv, NEW r, NEW less, Render(client, transition, r, less),
         UNCHANGED <<server, queue>>, moves' \in {moves, moves + 1}
  PROVE  ResultsInv'
<1>1. client' = client /\ transition' = transition
  BY DEF Render
<1>2. Remembered'
  BY <1>1 DEF ResultsInv, Remembered, nextResults, resultGame, resultRoom, isResultsPhase
<1> QED BY <1>2, RenderKeeps DEF ResultsInv, Shapes

\* The store lets go of the results of a finished game.
LEMMA DismissKeeps ==
  ASSUME ResultsInv, dismissCompletedGame
  PROVE  ResultsInv'
<1> DEFINE c == [client EXCEPT !.completed = NoResult]
           t == useVisibleRoundResults(transition, c)
<1>1. Render(c, t, results, reduced) /\ UNCHANGED <<server, queue>> /\ moves' = moves
  BY DEF dismissCompletedGame, Update
<1>2. c.game = client.game
      /\ c = [room |-> c.room, game |-> c.game, completed |-> c.completed]
  <2> DEFINE a == client.room
             b == client.game
             v == client.completed
  <2>1. client \in [room : {a}, game : {b}, completed : {v}]
    <3>1. client = [room |-> a, game |-> b, completed |-> v]
      BY DEF ResultsInv, Shapes
    <3> HIDE DEF a, b, v
    <3> QED BY <3>1
  <2> HIDE DEF a, b, v
  <2>3. c \in [room : {a}, game : {b}, completed : {NoResult}]
    BY <2>1
  <2> QED BY <2>3 DEF a, b, v
<1> HIDE DEF c
<1>3. client' = c /\ transition' = t
  BY <1>1 DEF Render
<1>4. /\ Remembered'
      /\ transition' = [currentGame |-> transition'.currentGame,
                        result |-> transition'.result,
                        visible |-> transition'.visible,
                        pending |-> transition'.pending]
  BY <1>3, UpdateRemembers DEF ResultsInv
<1> HIDE DEF t
<1> QED BY <1>1, <1>2, <1>3, <1>4, RenderKeeps

\* A message is read.
LEMMA ReceiveKeeps ==
  ASSUME ResultsInv, Receive
  PROVE  ResultsInv'
<1> DEFINE c == IF Head(queue).type = "room_state"
                THEN reduceRoomState(client, Head(queue).room)
                ELSE reduceGameState(Head(queue).room, Head(queue).game)
           t == useVisibleRoundResults(transition, c)
<1>1. /\ queue # <<>> /\ queue' = Tail(queue) /\ server' = server /\ moves' = moves
      /\ Render(c, t, results, reduced)
  BY DEF Receive, Update
<1>2. moves \in Nat /\ IsQueue(queue) /\ Ordered(client.game, queue, server.game, moves)
  BY DEF ResultsInv, Shapes, InOrder
<1>3. c = [room |-> c.room, game |-> c.game, completed |-> c.completed]
  BY DEF reduceRoomState, reduceGameState
<1>4. /\ IsQueue(Tail(queue))
      /\ Ordered(c.game, Tail(queue), server.game, moves)
      /\ c.game # NoGame /\ client.game # NoGame /\ c.game # client.game =>
           /\ IsSnapshot(client.game) /\ IsSnapshot(c.game)
           /\ Follows(client.game, c.game)
  <2>0. /\ IsQueue(Tail(queue)) /\ Ordered(client.game, Tail(queue), server.game, moves)
        /\ Ordered(NoGame, Tail(queue), server.game, moves)
        /\ Head(queue).type # "room_state" =>
             /\ Known(Head(queue).game, moves) /\ Follows(client.game, Head(queue).game)
             /\ Ordered(Head(queue).game, Tail(queue), server.game, moves)
    BY <1>1, <1>2, OrderedTail
  <2>1. CASE Head(queue).type = "room_state"
    <3>1. c.game \in {NoGame, client.game}
      BY <2>1 DEF reduceRoomState
    <3> HIDE DEF c
    <3> QED BY <2>0, <3>1
  <2>2. CASE Head(queue).type # "room_state"
    <3>1. c.game = Head(queue).game
      BY <2>2 DEF reduceGameState
    <3> HIDE DEF c
    <3> QED BY <1>2, <2>0, <2>2, <3>1 DEF Known, Ordered
  <2> QED BY <2>1, <2>2
<1> HIDE DEF c
<1>5. client' = c /\ transition' = t /\ board' = renderBoard(c, view(c, t))
  BY <1>1 DEF Render
<1>6. /\ Remembered'
      /\ transition' = [currentGame |-> transition'.currentGame,
                        result |-> transition'.result,
                        visible |-> transition'.visible,
                        pending |-> transition'.pending]
  BY <1>5, UpdateRemembers DEF ResultsInv
<1> HIDE DEF t
<1>7. BoardOK' /\ board' = [sequence |-> board'.sequence, flight |-> board'.flight]
  BY <1>4, <1>5, RenderedBoard DEF ResultsInv
<1>8. InOrder'
  BY <1>1, <1>4, <1>5 DEF InOrder
<1>9. ServerOK'
  BY <1>1 DEF ResultsInv, ServerOK, AllHold
<1>10. Shapes'
  BY <1>1, <1>3, <1>4, <1>5, <1>6, <1>7 DEF ResultsInv, Shapes
<1> QED BY <1>6, <1>7, <1>8, <1>9, <1>10 DEF ResultsInv

\* CompleteTakeover and ToggleMotion show the same store anew.
LEMMA TakeoverKeeps ==
  ASSUME ResultsInv, CompleteTakeover
  PROVE  ResultsInv'
<1> DEFINE r == [results EXCEPT !.dismissed =
                   winnerTakeoverKey(transition.visible, client)]
<1>1. Render(client, transition, r, reduced) /\ UNCHANGED <<server, queue>> /\ moves' = moves
  BY DEF CompleteTakeover
<1> HIDE DEF r
<1> QED BY <1>1, SameRenderKeeps

\* So does switching reduced motion.
LEMMA ToggleKeeps ==
  ASSUME ResultsInv, ToggleMotion
  PROVE  ResultsInv'
<1>1. /\ Render(client, transition, results, ~reduced) /\ UNCHANGED <<server, queue>>
      /\ moves' = moves + 1
  BY DEF ToggleMotion, Spend
<1> QED BY <1>1, SameRenderKeeps

\* A step that changes no more than the board and the score table.
LEMMA BoardKeeps ==
  ASSUME ResultsInv, UNCHANGED <<server, queue, client, transition, moves>>,
         board' # EmptyBoard => board # EmptyBoard,
         RealBoard(board', client.game.ver),
         board' = [sequence |-> board'.sequence, flight |-> board'.flight]
  PROVE  ResultsInv'
<1>1. Remembered'
  BY DEF ResultsInv, Remembered, nextResults, resultGame, resultRoom, isResultsPhase
<1>2. screen' = screen
  BY DEF screen, view, isGameRouteSnapshotResolving
<1>3. client'.game.ver = client.game.ver
  OBVIOUS
<1>4. BoardOK'
  BY <1>2, <1>3 DEF ResultsInv, BoardOK
<1>5. ServerOK'
  BY DEF ResultsInv, ServerOK, AllHold
<1>6. InOrder'
  BY DEF ResultsInv, InOrder
<1>7. Shapes'
  BY DEF ResultsInv, Shapes
<1> QED BY <1>1, <1>4, <1>5, <1>6, <1>7 DEF ResultsInv

\* ScoreTimer, and a step that changes nothing.
LEMMA BoardUntouched ==
  ASSUME ResultsInv, UNCHANGED <<server, queue, client, transition, board, moves>>
  PROVE  ResultsInv'
<1>1. RealBoard(board', client.game.ver)
  BY DEF ResultsInv, BoardOK
<1>2. board' = [sequence |-> board'.sequence, flight |-> board'.flight]
  BY DEF ResultsInv, Shapes
<1> QED BY <1>1, <1>2, BoardKeeps

\* CollectionStep.
LEMMA CollectionKeeps ==
  ASSUME ResultsInv, CollectionStep
  PROVE  ResultsInv'
<1> DEFINE s == board.sequence
           f == board.flight
           moved == [s EXCEPT !.stage = "discard"]
           next == IF s.stage = "collect" THEN moved ELSE NoSequence
<1>1. /\ s # NoSequence /\ UNCHANGED <<server, queue, client, transition, moves>>
      /\ board' = [board EXCEPT !.sequence = next]
  BY DEF CollectionStep
<1>2. board = [sequence |-> s, flight |-> f]
  BY DEF ResultsInv, Shapes
<1>3. RealBoard(board, client.game.ver) /\ SequenceShape(s)
  BY DEF ResultsInv, BoardOK, RealBoard
<1>4. /\ moved.stage = "discard" /\ moved.actor = s.actor /\ moved.card = s.card
      /\ moved.from = s.from /\ moved.to = s.to /\ moved.act = s.act
      /\ moved = [stage |-> moved.stage, actor |-> moved.actor, card |-> moved.card,
                  from |-> moved.from, to |-> moved.to, act |-> moved.act]
  <2> DEFINE a == s.actor
             b == s.card
             c == s.from
             d == s.to
             e == s.act
             g == s.stage
  <2>1. s = [stage |-> g, actor |-> a, card |-> b, from |-> c, to |-> d, act |-> e]
    BY <1>1, <1>3 DEF SequenceShape
  <2> HIDE DEF a, b, c, d, e, g, s
  <2>2. s \in [stage : {g}, actor : {a}, card : {b}, from : {c}, to : {d}, act : {e}]
    BY <2>1
  <2>3. moved \in [stage : {"discard"}, actor : {a}, card : {b}, from : {c}, to : {d},
                   act : {e}]
    BY <2>2
  <2> HIDE DEF moved
  <2> QED BY <2>3 DEF a, b, c, d, e
<1>5. moved # NoSequence
  <2> HIDE DEF moved
  <2>1. moved.stage # "none"
    BY <1>4
  <2> QED BY <2>1 DEF NoSequence
<1>6. board'.sequence = next /\ board'.flight = f
      /\ board' = [sequence |-> board'.sequence, flight |-> board'.flight]
  <2> HIDE DEF s, f, next
  <2>1. board \in [sequence : {s}, flight : {f}]
    BY <1>2
  <2>2. board' \in [sequence : {next}, flight : {f}]
    BY <1>1, <2>1
  <2> QED BY <2>2
<1>7. RealBoard(board', client.game.ver)
  <2>1. CASE next = NoSequence
    BY <1>3, <1>6, <2>1 DEF RealBoard, RealSequence, SequenceShape
  <2>2. CASE next # NoSequence
    <3>1. next = moved
      BY <2>2
    <3> HIDE DEF next, moved
    <3>2. RealSequence(moved) /\ SequenceShape(moved)
      BY <1>1, <1>3, <1>4, <1>5 DEF RealBoard, RealSequence, RealMove, SequenceShape
    <3> QED BY <1>1, <1>3, <1>4, <1>6, <3>1, <3>2 DEF RealBoard
  <2> QED BY <2>1, <2>2
<1>8. board # EmptyBoard
  BY <1>1 DEF EmptyBoard
<1> QED BY <1>1, <1>6, <1>7, <1>8, BoardKeeps

\* FlightEnds.
LEMMA FlightKeeps ==
  ASSUME ResultsInv, FlightEnds
  PROVE  ResultsInv'
<1> DEFINE s == board.sequence
           f == board.flight
<1>1. /\ f # NoTransfer /\ UNCHANGED <<server, queue, client, transition, moves>>
      /\ board' = [board EXCEPT !.flight = NoTransfer]
  BY DEF FlightEnds
<1>2. board = [sequence |-> s, flight |-> f]
  BY DEF ResultsInv, Shapes
<1>3. RealBoard(board, client.game.ver)
  BY DEF ResultsInv, BoardOK
<1>4. board'.sequence = s /\ board'.flight = NoTransfer
      /\ board' = [sequence |-> board'.sequence, flight |-> board'.flight]
  <2> HIDE DEF s, f
  <2>1. board \in [sequence : {s}, flight : {f}]
    BY <1>2
  <2>2. board' \in [sequence : {s}, flight : {NoTransfer}]
    BY <1>1, <2>1
  <2> QED BY <2>2
<1>5. RealBoard(board', client.game.ver)
  BY <1>3, <1>4 DEF RealBoard, RealFlight
<1>6. board # EmptyBoard
  BY <1>1 DEF EmptyBoard
<1> QED BY <1>1, <1>4, <1>5, <1>6, BoardKeeps

-----------------------------------------------------------------------------
(***************************************************************************)
(* The invariant, and what follows from it.                                *)
(***************************************************************************)
LEMMA InitialResults == Init => ResultsInv
<1> SUFFICES ASSUME Init
             PROVE  ResultsInv
  OBVIOUS
<1>1. IsSnapshot(FirstGame) /\ AllHold(FirstGame) /\ FirstGame.ver = 1
  <2>1. 1 \in Nat /\ 1 \in Nat \ {0}
    OBVIOUS
  <2> QED BY <2>1, StartMoves DEF FirstGame
<1>2. FirstRoom \in Rooms /\ FirstRoom.phase = "in_progress"
  BY DEF FirstRoom, Rooms
<1>3. FirstGame # NoGame
  BY <1>1, SnapshotIsGame
<1>4. /\ server.room = FirstRoom /\ server.game = FirstGame /\ queue = <<>>
      /\ client.room = FirstRoom /\ client.game = FirstGame /\ client.completed = NoResult
      /\ transition.currentGame = FirstGame /\ transition.result = NoResult
      /\ transition.visible = NoResult /\ transition.pending = NoResult
      /\ board = EmptyBoard /\ moves = 0
      /\ server = [room |-> server.room, game |-> server.game]
      /\ client = [room |-> client.room, game |-> client.game,
                   completed |-> client.completed]
      /\ transition = [currentGame |-> transition.currentGame,
                       result |-> transition.result,
                       visible |-> transition.visible,
                       pending |-> transition.pending]
  <2> HIDE DEF FirstGame, FirstRoom, NoResult, EmptyBoard
  <2> QED BY DEF Init
<1>5. nextResults(client) = NoResult
  BY <1>2, <1>4 DEF nextResults, resultGame, isResultsPhase, NoResult
<1>6. Remembered
  BY <1>4, <1>5 DEF Remembered
<1>7. ServerOK
  BY <1>1, <1>2, <1>3, <1>4 DEF ServerOK
<1>8. InOrder
  <2>1. Known(FirstGame, 0)
    BY <1>1 DEF Known
  <2>2. Follows(FirstGame, FirstGame)
    BY DEF Follows
  <2>3. DOMAIN queue = {}
    BY <1>4
  <2> QED BY <1>4, <2>1, <2>2, <2>3 DEF InOrder, Ordered
<1>9. /\ EmptyBoard.flight = NoTransfer /\ EmptyBoard.sequence = NoSequence
      /\ EmptyBoard = [sequence |-> EmptyBoard.sequence, flight |-> EmptyBoard.flight]
  BY DEF EmptyBoard
<1>10. BoardOK
  BY <1>4, <1>9 DEF BoardOK, RealBoard, RealFlight, RealSequence, SequenceShape
<1>11. IsQueue(queue)
  BY <1>4 DEF IsQueue
<1>12. Shapes
  BY <1>2, <1>4, <1>9, <1>11 DEF Shapes
<1> QED BY <1>6, <1>7, <1>8, <1>10, <1>12 DEF ResultsInv

\* Every step keeps the invariant.
LEMMA NextKeeps ==
  ASSUME ResultsInv, [Next]_vars
  PROVE  ResultsInv'
<1>1. CASE ServerStep
  <2>1. ASSUME NEW source \in {"deck", "discard"}, Draw(source)
        PROVE  ResultsInv'
    BY <2>1, DrawKeeps
  <2>2. ASSUME NEW play \in Plays, PlayTable(play)
        PROVE  ResultsInv'
    BY <2>2, PlayKeeps
  <2>3. CASE Discard
    BY <2>3, DiscardKeeps
  <2>4. ASSUME NEW play \in Plays, PlayTableAndDiscard(play)
        PROVE  ResultsInv'
    BY <2>4, PlayAndDiscardKeeps
  <2>5. CASE StartNextRound
    BY <2>5, NextRoundKeeps
  <2>6. CASE StartGame
    BY <2>6, StartGameKeeps
  <2>7. CASE EndWithoutWinner
    BY <2>7, EndKeeps
  <2>8. CASE RoomChanges
    BY <2>8, RoomChangesKeeps
  <2>9. ASSUME NEW p \in Players, PlayerLeaves(p)
        PROVE  ResultsInv'
    BY <2>9, LeaveKeeps
  <2> QED
    BY <1>1, <2>1, <2>2, <2>3, <2>4, <2>5, <2>6, <2>7, <2>8, <2>9 DEF ServerStep
<1>2. CASE ClientStep
  <2>1. CASE Receive
    BY <2>1, ReceiveKeeps
  <2>2. CASE RevealResults
    BY <2>2, RevealKeeps
  <2>3. CASE CompleteTakeover
    BY <2>3, TakeoverKeeps
  <2>4. CASE ScoreTimer
    BY <2>4, BoardUntouched DEF ScoreTimer
  <2>5. CASE CollectionStep
    BY <2>5, CollectionKeeps
  <2>6. CASE FlightEnds
    BY <2>6, FlightKeeps
  <2> QED BY <1>2, <2>1, <2>2, <2>3, <2>4, <2>5, <2>6 DEF ClientStep
<1>3. CASE Reconnect
  BY <1>3, ReconnectKeeps
<1>4. CASE dismissCompletedGame
  BY <1>4, DismissKeeps
<1>5. CASE ToggleMotion
  BY <1>5, ToggleKeeps
<1>6. CASE UNCHANGED vars
  BY <1>6, BoardUntouched DEF vars
<1> QED BY <1>1, <1>2, <1>3, <1>4, <1>5, <1>6 DEF Next

\* The invariant holds both properties.
LEMMA ResultsImply ==
  ASSUME ResultsInv
  PROVE  ResultsAccounted /\ AnimationsAreReal
<1>1. ResultsAccounted
  BY DEF ResultsInv, Remembered, ResultsAccounted
<1>2. AnimationsAreReal
  BY DEF ResultsInv, BoardOK, RealBoard, RealFlight, RealSequence, RealMove,
         AnimationsAreReal
<1> QED BY <1>1, <1>2

\* The hook, the messages under way and the board agree with the server's moves.
THEOREM ResultsCorrect == Spec => []ResultsInv
<1>1. Init => ResultsInv
  BY InitialResults
<1>2. ResultsInv /\ [Next]_vars => ResultsInv'
  BY NextKeeps
<1> QED BY <1>1, <1>2, PTL DEF Spec

\* Whatever arrives while results are held back by useVisibleRoundResults, what is
\* shown or held back is what the store has now, and one of the two always is.
THEOREM ResultsAreAccounted == Spec => []ResultsAccounted
<1>1. ResultsInv => ResultsAccounted
  BY ResultsImply
<1> QED BY <1>1, ResultsCorrect, PTL

\* Between snapshots of which none was missed, what flies over the board is the card
\* that moved, credited to the player who moved it, and no move is animated twice.
THEOREM AnimationsShowMoves == Spec => []AnimationsAreReal
<1>1. ResultsInv => AnimationsAreReal
  BY ResultsImply
<1> QED BY <1>1, ResultsCorrect, PTL
=============================================================================
