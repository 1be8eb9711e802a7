------------------------------ MODULE MCGameState ------------------------------
EXTENDS GameState

Card(rank, suit, copy) == [rank |-> rank, suit |-> suit, copy |-> copy]

\* Two hands of four: a run in suit 1 that can grow, a set of fives that can be
\* completed, two jokers, and two cards to draw before the pile is recycled.
MCGameDeck ==
  <<Card(4, 1, 1), Card(5, 2, 1), Card(6, 1, 1), Card(5, 3, 1),
    Card(0, 0, 1), Card(5, 1, 1), Card(7, 1, 1), Card(2, 2, 1),
    Card(5, 4, 1), Card(0, 0, 2), Card(5, 1, 2)>>

MCDeck == ToSet(MCGameDeck)

\* The deck as it is, or turned over.
MCOrders(n) == {[i \in 1..n |-> i], [i \in 1..n |-> n + 1 - i]}

\* One order only: the dealer and the deal already vary the hands.
MCFixedOrder(n) == {[i \in 1..n |-> i]}

\* Three hands of two, in two suits: rounds are won by special hands, and no hand is
\* large enough to open.
MCRoundsDeck ==
  <<Card(4, 1, 1), Card(5, 2, 1), Card(6, 3, 1), Card(2, 2, 1),
    Card(3, 3, 1), Card(7, 1, 1), Card(4, 1, 2), Card(0, 0, 1)>>

MCRoundsCards == ToSet(MCRoundsDeck)

NoLayouts(S) == {}

\* A set is laid down in one order, a run in each order in which it reads upwards.
\* Jokers keep theirs: they cannot be told apart.
layoutTable ==
  [S \in UNION {kSubset(k, MCDeck) : k \in 3..4} |->
     IF isValidSet(SetToSeq(S)) THEN {SetToSeq(S)}
     ELSE {t \in SetToSeqs(S) :
             /\ \E c \in inferComposition(t) : \A i \in DOMAIN t : cardsEqual(c.cards[i], t[i])
             /\ \A i, j \in jokerCardIndices(t) : i < j => t[i].copy < t[j].copy}]

MCLayouts(S) == IF S \in DOMAIN layoutTable THEN layoutTable[S] ELSE {}
================================================================================
