------------------------------ MODULE Composition ------------------------------
(***************************************************************************)
(* The rules of sets and runs: internal/game/composition.go, with the      *)
(* cards of card.go.                                                       *)
(*                                                                         *)
(* A card is a physical card of the double deck: its rank and suit, and    *)
(* the copy that tells it from the equal card of the other deck.  The code *)
(* only ever compares rank and suit, so the copy is invisible to it.  A    *)
(* joker has rank and suit 0, as Card{isJoker: true} has.                  *)
(*                                                                         *)
(* A constructor that may fail returns the set of its results: one         *)
(* composition, or none.  The joker representations that the code stores   *)
(* beside the cards are a function of the cards, jokerRepresentations.     *)
(***************************************************************************)
EXTENDS Integers, Sequences, FiniteSets, FiniteSetsExt, SequencesExt

Ace   == 1
Two   == 2
Jack  == 11
King  == 13
Suits == 1..4

Variants == {"set", "run"}

IsJoker(c) == c.rank = 0

cardsEqual(a, b) == a.rank = b.rank /\ a.suit = b.suit

\* card.go: the points of a card left in a hand.
CardPoints(c) ==
  IF IsJoker(c) THEN 20
  ELSE IF c.rank = Ace \/ c.rank >= Jack THEN 10
  ELSE c.rank

rankPoints(rank, aceLow) ==
  IF rank = Ace THEN (IF aceLow THEN 1 ELSE 10)
  ELSE IF rank >= Jack THEN 10
  ELSE rank

\* Positions of a card sequence: the natural cards, and the jokers.
nonJokerCards(cards)    == {i \in DOMAIN cards : ~IsJoker(cards[i])}
jokerCardIndices(cards) == {i \in DOMAIN cards : IsJoker(cards[i])}

-----------------------------------------------------------------------------
(***************************************************************************)
(* Sequence ranks.  A run occupies a window start..start+n-1 of the ranks  *)
(* 1..14, in which an ace is 1 or 14.                                      *)
(***************************************************************************)
sequenceRankToCardRank(rank) == IF rank = 14 THEN Ace ELSE rank

\* The sequence rank of each natural card: with two aces the first is low.
sequenceRanksForCards(cards, aceLow) ==
  LET aces == {i \in nonJokerCards(cards) : cards[i].rank = Ace}
      Low(i) == \/ aceLow
                \/ Cardinality(aces) = 2 /\ \A j \in aces : i <= j
  IN  [i \in nonJokerCards(cards) |->
         IF i \notin aces THEN cards[i].rank ELSE IF Low(i) THEN 1 ELSE 14]

\* Gaps take jokers first, then the ranks above, then the ranks below: the
\* jokers complete the highest window that starts no higher than the lowest card.
fitWindow(cards, aceLow) ==
  LET n     == Len(cards)
      ranks == sequenceRanksForCards(cards, aceLow)
      low   == Min({ranks[i] : i \in DOMAIN ranks})
      high  == Min({14, low + n - 1})
  IN  IF nonJokerCards(cards) = {} THEN 1..n ELSE (high - n + 1)..high

\* Slip: two cards may have the same rank.
tryFitSequenceWithRepeats(cards, aceLow) ==
  LET ranks == sequenceRanksForCards(cards, aceLow)
  IN  Len(cards) <= 14 /\ \A i, j \in DOMAIN ranks : ranks[i] - ranks[j] < Len(cards)

tryFitSequence(cards, aceLow) ==
  LET ranks == sequenceRanksForCards(cards, aceLow)
  IN  /\ Len(cards) <= 14
      /\ nonJokerCards(cards) = {} => Len(cards) >= 3
      /\ \A i, j \in DOMAIN ranks : ranks[i] = ranks[j] => i = j
      /\ \A i, j \in DOMAIN ranks : ranks[i] - ranks[j] < Len(cards)

\* A run without jokers: the counts of every rank are those of one window.
naturalRunIsValid(cards) ==
  LET n == Len(cards)
      Count(rank) == Cardinality({i \in DOMAIN cards : cards[i].rank = rank})
      In(rank, start) == IF rank \in start..(start + n - 1) THEN 1 ELSE 0
  IN  \E start \in 1..(15 - n) :
        /\ Count(Ace) = In(1, start) + In(14, start)
        /\ \A rank \in Two..King : Count(rank) = In(rank, start)

isValidRun(cards) ==
  /\ Len(cards) \in 3..14
  /\ \A i, j \in nonJokerCards(cards) : cards[i].suit = cards[j].suit
  /\ IF jokerCardIndices(cards) = {}
     THEN naturalRunIsValid(cards)
     ELSE \E aceLow \in BOOLEAN : tryFitSequence(cards, aceLow)

isValidSet(cards) ==
  /\ Len(cards) \in 3..4
  /\ \A i, j \in nonJokerCards(cards) :
       i # j => cards[i].rank = cards[j].rank /\ cards[i].suit # cards[j].suit

isValid(variant, cards) ==
  IF variant = "set" THEN isValidSet(cards) ELSE isValidRun(cards)

-----------------------------------------------------------------------------
(***************************************************************************)
(* Reading a run in order.  A candidate lays the cards out over a window;  *)
(* which of several jokers fills which gap is immaterial.                  *)
(***************************************************************************)
candidateFits(cards, ranks, start) ==
  LET held == {ranks[i] : i \in DOMAIN ranks}
      gaps == {k \in DOMAIN cards : start + k - 1 \notin held}
  IN  /\ \A r \in held : r \in start..(start + Len(cards) - 1)
      /\ Cardinality(gaps) = Cardinality(jokerCardIndices(cards))

candidateOrder(cards, ranks, start) ==
  LET gaps  == {k \in DOMAIN cards : \A i \in DOMAIN ranks : ranks[i] # start + k - 1}
      fill  == CHOOSE f \in Bijection(gaps, jokerCardIndices(cards)) : TRUE
      At(k) == IF k \in DOMAIN fill THEN fill[k]
               ELSE CHOOSE i \in DOMAIN ranks : ranks[i] = start + k - 1
  IN  [k \in DOMAIN cards |-> cards[At(k)]]

\* A candidate, and the positions at which it agrees with the cards as they came.
runOrderCandidate(cards, start, ordered) ==
  [start   |-> start,
   ordered |-> ordered,
   matches |-> {i \in DOMAIN cards : cardsEqual(cards[i], ordered[i])}]

\* Every candidate, numbered in the order the code tries them: aces high, then low;
\* windows from the lowest.
runOrderCandidates(cards) ==
  LET starts   == 15 - Len(cards)
      Ranks(k) == sequenceRanksForCards(cards, k > starts)
      Start(k) == IF k > starts THEN k - starts ELSE k
  IN  [k \in {k \in 1..(2 * starts) : candidateFits(cards, Ranks(k), Start(k))} |->
         runOrderCandidate(cards, Start(k), candidateOrder(cards, Ranks(k), Start(k)))]

runOrderCandidatesEqual(a, b) ==
  /\ a.start = b.start
  /\ \A i \in DOMAIN a.ordered : cardsEqual(a.ordered[i], b.ordered[i])

\* Of the candidates numbered in K the first that agrees with the cards best.
bestCandidate(cs, K) ==
  {b \in K : \A k \in K : \/ Cardinality(cs[k].matches) < Cardinality(cs[b].matches)
                          \/ Cardinality(cs[k].matches) = Cardinality(cs[b].matches) /\ b <= k}

\* Candidate k agrees with the cards as well as the best before it, and differs from it.
tiesWith(cs, k, b) ==
  /\ Cardinality(cs[k].matches) = Cardinality(cs[b].matches)
  /\ ~runOrderCandidatesEqual(cs[k], cs[b])

(***************************************************************************)
(* The first exact candidate wins, unless two different candidates tie for *)
(* the best match before it is reached: then there is no answer.  Without  *)
(* an exact candidate the best match is the answer.                        *)
(***************************************************************************)
chosenCandidates(cs, exact) ==
  LET tied == {k \in DOMAIN cs \ exact :
                 \E b \in bestCandidate(cs, {i \in DOMAIN cs : i < k}) : tiesWith(cs, k, b)}
  IN  IF exact # {} THEN {k \in exact : \A j \in exact \cup tied : k <= j}
      ELSE IF tied # {} THEN {}
      ELSE bestCandidate(cs, DOMAIN cs)

foundOrders(cs, exact) ==
  {[start |-> cs[k].start, ordered |-> cs[k].ordered, exact |-> k \in exact] :
     k \in chosenCandidates(cs, exact)}

bestRunOrder(cards) ==
  LET Exact(cs) == {k \in DOMAIN cs : cs[k].matches = DOMAIN cards}
      Found(cs) == foundOrders(cs, Exact(cs))
  IN  IF nonJokerCards(cards) = {} THEN {[start |-> 1, ordered |-> cards, exact |-> TRUE]}
      ELSE Found(runOrderCandidates(cards))

runCardsAreOrdered(cards) == \E b \in bestRunOrder(cards) : b.exact

runCardsAreReverseOrdered(cards) == runCardsAreOrdered(Reverse(cards))

normalizeRunCards(cards) ==
  LET Ordered(forward, backward) ==
        IF forward # {} THEN (CHOOSE b \in forward : TRUE).ordered
        ELSE IF backward # {} THEN (CHOOSE b \in backward : TRUE).ordered
        ELSE cards
  IN  Ordered(bestRunOrder(cards), bestRunOrder(Reverse(cards)))

-----------------------------------------------------------------------------
(***************************************************************************)
(* What a joker stands for: the set of cards it may be, as rank and suit.  *)
(* The set is empty where the code keeps no representation.                *)
(***************************************************************************)
Face(rank, suit) == [rank |-> rank, suit |-> suit]

jokerRepresentations(comp, i) ==
  LET cards == comp.cards
      real  == nonJokerCards(cards)
      suit  == IF real = {} THEN 1 ELSE cards[Min(real)].suit
      used  == {cards[k].suit : k \in real}
      rank  == cards[Min(real)].rank
  IN  IF comp.variant = "run"
      THEN {Face(sequenceRankToCardRank(b.start + i - 1), suit) : b \in bestRunOrder(cards)}
      ELSE IF real = {} THEN {Face(r, s) : r \in Ace..King, s \in Suits}
      ELSE {Face(rank, s) : s \in Suits \ used}

\* The code builds a composition only from valid cards; a run is put in order.
newComposition(cards, variant) ==
  IF ~isValid(variant, cards) THEN {}
  ELSE {[variant |-> variant,
         cards   |-> IF variant = "run" THEN normalizeRunCards(cards) ELSE cards]}

\* ws_server.go: the cards a client lays down are a set if they can be one.
inferComposition(cards) ==
  IF isValidSet(cards) THEN newComposition(cards, "set") ELSE newComposition(cards, "run")

\* state.go lets a new run be laid down only if it reads in order, forwards or
\* backwards, and puts it in order again.
laidComposition(cards) ==
  {[c EXCEPT !.cards = IF c.variant = "run" THEN normalizeRunCards(@) ELSE @] :
     c \in {d \in inferComposition(cards) :
              d.variant = "run" => runCardsAreOrdered(d.cards) \/ runCardsAreReverseOrdered(d.cards)}}

\* Slip: the extended composition is not validated.
WithUncheckedCards(comp, insertIndex, cards) ==
  {[comp EXCEPT !.cards = SubSeq(@, 1, insertIndex) \o cards
                            \o SubSeq(@, insertIndex + 1, Len(@))]}

WithInsertedCards(comp, insertIndex, cards) ==
  IF insertIndex \notin 0..Len(comp.cards) THEN {}
  ELSE newComposition(SubSeq(comp.cards, 1, insertIndex) \o cards
                        \o SubSeq(comp.cards, insertIndex + 1, Len(comp.cards)),
                      comp.variant)

\* Positions count from 1.  The joker must stand for exactly the replacement.
canReclaimJoker(comp, i, replacement) ==
  /\ i \in jokerCardIndices(comp.cards)
  /\ ~IsJoker(replacement)
  /\ jokerRepresentations(comp, i) = {Face(replacement.rank, replacement.suit)}

\* Slip: the replacement is put at the end instead of in the joker's place.
ReclaimAppending(comp, i, replacement) ==
  IF ~canReclaimJoker(comp, i, replacement) THEN {}
  ELSE {[comp EXCEPT !.cards = SubSeq(@, 1, i - 1) \o SubSeq(@, i + 1, Len(@)) \o <<replacement>>]}

ReclaimJoker(comp, i, replacement) ==
  IF ~canReclaimJoker(comp, i, replacement) THEN {}
  ELSE newComposition([comp.cards EXCEPT ![i] = replacement], comp.variant)

isAmbiguousSetReclaim(comp, i, replacement) ==
  /\ comp.variant = "set"
  /\ i \in jokerCardIndices(comp.cards)
  /\ ~IsJoker(replacement)
  /\ Cardinality(jokerRepresentations(comp, i)) > 1
  /\ Face(replacement.rank, replacement.suit) \in jokerRepresentations(comp, i)

-----------------------------------------------------------------------------
\* A set counts its rank for every card, jokers included; four jokers are aces.
setPoints(cards) ==
  LET real == nonJokerCards(cards)
  IN  Len(cards) * rankPoints(IF real = {} THEN Ace ELSE cards[Min(real)].rank, FALSE)

\* With both aces in the window one of them counts low.
runCardsPoints(window, aceLow) ==
  LET aces == window \cap {1, 14}
  IN  MapThenSumSet(LAMBDA r : rankPoints(r, FALSE), window \ aces)
        + CASE Cardinality(aces) = 0 -> 0
            [] Cardinality(aces) = 1 -> rankPoints(Ace, aceLow)
            [] OTHER -> rankPoints(Ace, TRUE) + rankPoints(Ace, aceLow)

\* The better of the two readings of the aces.
runPoints(cards) ==
  Max({0} \cup {runCardsPoints(fitWindow(cards, aceLow), aceLow) :
                  aceLow \in {a \in BOOLEAN : tryFitSequence(cards, a)}})

Points(comp) == IF comp.variant = "set" THEN setPoints(comp.cards) ELSE runPoints(comp.cards)

\* All four suits of a rank, or the fourteen ranks of a suit, without a joker.
isComplete(comp) ==
  /\ jokerCardIndices(comp.cards) = {}
  /\ Len(comp.cards) = IF comp.variant = "set" THEN 4 ELSE 14
  /\ isValid(comp.variant, comp.cards)
================================================================================
