--------------------------- MODULE MCTableComposition ---------------------------
EXTENDS TableComposition

Card(rank, suit, copy) == [rank |-> rank, suit |-> suit, copy |-> copy]

\* Both ends of the rank circle in one suit, with the second ace, three jokers, and
\* two more threes so that sets compete with runs.
MCDeck ==
  {Card(r, 1, 1) : r \in {1, 2, 3, 4, 12, 13}} \cup {Card(1, 1, 2)}
    \cup {Card(0, 0, k) : k \in 1..3}
    \cup {Card(3, s, 1) : s \in 2..3}

\* The middle of one suit and three of the four jokers: long runs whose jokers can
\* stand at either end.
MCMiddleDeck ==
  {Card(r, 1, 1) : r \in 4..8} \cup {Card(0, 0, k) : k \in 1..3}

\* Four naturals of one suit, with gaps, and all jokers.
MCJokerDeck == {Card(r, 1, 1) : r \in {3, 4, 5, 7}} \cup {Card(0, 0, k) : k \in 1..4}
================================================================================
