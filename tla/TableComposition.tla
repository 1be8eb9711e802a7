---------------------------- MODULE TableComposition ----------------------------
(***************************************************************************)
(* The life of one composition on the table: a client lays it down, later  *)
(* plays extend it or reclaim its jokers, and the server may save it and   *)
(* rebuild it from its cards at any moment (every play-and-discard and     *)
(* every restart does).                                                    *)
(*                                                                         *)
(* The names of the specification say that it is the table's, so that it   *)
(* can be reasoned about together with the engine's (GameStateProofs).     *)
(***************************************************************************)
EXTENDS Composition

CONSTANTS
  Cards,        \* the physical cards
  MaxLaid,      \* bound: cards a client lays down as a new composition
  MaxInserted   \* bound: cards a client inserts in one addition

ASSUME CardsAssumption ==
  /\ Cards \subseteq [rank : 0..King, suit : 0..4, copy : Nat]
  /\ \A c \in Cards : IsJoker(c) => c.suit = 0

ASSUME BoundsAssumption == MaxLaid \in Nat /\ MaxInserted \in Nat

VARIABLES
  comp,   \* the composition on the table, or NoComposition
  offer   \* the card sequence, in the client's order, that was validated last

tableVars == <<comp, offer>>

NoComposition == [variant |-> "none", cards |-> <<>>]

\* Every order in which up to n cards of S can be submitted.
Submissions(S, n) ==
  UNION {{t \in [1..k -> S] : \A i, j \in 1..k : t[i] = t[j] => i = j} : k \in 1..n}

Unlaid == Cards \ ToSet(comp.cards)

\* A client's request to lay down a new composition has arrived.
TableInit ==
  /\ comp = NoComposition
  /\ offer \in Submissions(Cards, MaxLaid)

\* A rejected request changes nothing.
LayDown ==
  /\ comp = NoComposition
  /\ comp' \in laidComposition(offer)
  /\ UNCHANGED offer

Insert(insertIndex, cards) ==
  /\ comp # NoComposition
  /\ offer' = SubSeq(comp.cards, 1, insertIndex) \o cards
                \o SubSeq(comp.cards, insertIndex + 1, Len(comp.cards))
  /\ comp' \in WithInsertedCards(comp, insertIndex, cards)

Reclaim(i, replacement) ==
  /\ comp # NoComposition
  /\ comp' \in ReclaimJoker(comp, i, replacement)
  /\ offer' = [comp.cards EXCEPT ![i] = replacement]

\* persistence.go keeps the variant and the cards and builds the rest anew.
Restore ==
  /\ comp # NoComposition
  /\ comp' \in newComposition(comp.cards, comp.variant)
  /\ offer' = comp.cards

TableNext ==
  \/ LayDown
  \/ \E cards \in Submissions(Unlaid, MaxInserted) :
       \E insertIndex \in 0..Len(comp.cards) : Insert(insertIndex, cards)
  \/ \E replacement \in Unlaid : \E i \in DOMAIN comp.cards : Reclaim(i, replacement)
  \/ Restore

TableSpec == TableInit /\ [][TableNext]_tableVars

-----------------------------------------------------------------------------
(***************************************************************************)
(* Reference definitions, written from RULES.md.                           *)
(***************************************************************************)

\* A reading of cards as a run: a window of consecutive ranks, some aces low.
Reads(cards, start, lows) ==
  LET real    == nonJokerCards(cards)
      rank(i) == IF cards[i].rank = Ace /\ i \notin lows THEN 14 ELSE cards[i].rank
  IN  /\ \A i \in real : rank(i) \in start..(start + Len(cards) - 1)
      /\ \A i, j \in real : i # j => rank(i) # rank(j)

LegalRun(cards) ==
  /\ Len(cards) \in 3..14
  /\ \A i, j \in nonJokerCards(cards) : cards[i].suit = cards[j].suit
  /\ \E start \in 1..(15 - Len(cards)) :
       \E lows \in SUBSET {i \in DOMAIN cards : cards[i].rank = Ace} :
         Reads(cards, start, lows)

-----------------------------------------------------------------------------
(***************************************************************************)
(* Properties.                                                             *)
(***************************************************************************)

\* The table holds cards of the game, each once, and rebuilding never loses one.
TableTypeOK ==
  /\ comp = NoComposition \/ comp.variant \in Variants
  /\ ToSet(comp.cards) \subseteq Cards
  /\ Cardinality(ToSet(comp.cards)) = Len(comp.cards)

\* isValidRun's two algorithms (rank counts without jokers, window fitting with
\* them) accept exactly the sequences that have a reading as consecutive ranks of
\* one suit, for every order the cards are submitted in.
RunValidityIsExact == isValidRun(offer) <=> LegalRun(offer)

\* RestoreGameState fails, and with it the server's start, when a saved composition
\* is not valid: whatever plays made of it, a composition can be rebuilt from its
\* cards, with the same cards and the same value.
RestoreNeverRefuses ==
  comp # NoComposition =>
    \E c \in newComposition(comp.cards, comp.variant) :
      ToSet(c.cards) = ToSet(comp.cards) /\ Points(c) = Points(comp)

\* persistence_test.go compares the players' views before and after a restore.  A
\* restore is also on the path of every play-and-discard.  Rebuilding a composition
\* from its saved cards must give the composition that was saved.
RestoreIsIdentity == comp # NoComposition => newComposition(comp.cards, comp.variant) = {comp}

\* A card that a joker stands for can always take its place.  In a run with up to
\* three jokers the other cards keep theirs, so that the remaining jokers still stand
\* for the cards they stood for; with all four jokers of the deck they may not
\* (JokersKeepTheirPlaces).
ReclaimKeepsTheRest ==
  \A i \in DOMAIN comp.cards, r \in Unlaid :
    canReclaimJoker(comp, i, r) =>
      \E c \in ReclaimJoker(comp, i, r) :
        LET replaced == [comp.cards EXCEPT ![i] = r] IN
        /\ ToSet(c.cards) = ToSet(replaced)
        /\ Cardinality(jokerCardIndices(comp.cards)) < 4 =>
             \A k \in DOMAIN replaced : cardsEqual(c.cards[k], replaced[k])

\* composition_test.go finds the replacement where the joker was, in a run with one
\* joker; so should it be in every run.
JokersKeepTheirPlaces ==
  \A i \in DOMAIN comp.cards, r \in Unlaid :
    \A c \in ReclaimJoker(comp, i, r) : c.cards[i] = r

\* RULES.md lets a player reclaim a joker "by replacing it with the exact card the
\* joker is currently representing": in a run every joker stands for one card.
RunJokerStandsForOneCard ==
  comp.variant = "run" =>
    \A i \in jokerCardIndices(comp.cards) : Cardinality(jokerRepresentations(comp, i)) = 1

\* RULES.md: jokers "count toward the 40 points according to the card they
\* represent", and an ace that begins a run counts 1.
PointsFollowRepresentation ==
  comp.variant = "run" /\ jokerCardIndices(comp.cards) # {} =>
    \A b \in bestRunOrder(comp.cards) :
      Points(comp) = runCardsPoints(b.start..(b.start + Len(comp.cards) - 1), b.start = 1)
================================================================================
