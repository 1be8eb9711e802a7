------------------------------- MODULE TablePlay -------------------------------
(***************************************************************************)
(* Table plays: the requests a player may send during a turn, how state.go *)
(* applies them (applyTablePlayState), and the search that decides whether *)
(* the top discard may be taken (canTakeDiscardNow).                       *)
(*                                                                         *)
(* The table is the set of compositions on it; a request names a           *)
(* composition where the code's request has its index.  A request has      *)
(*   comps      new compositions, card sequences in the client's order,    *)
(*   additions  [target, at, cards]: cards put after the first at cards,   *)
(*   reclaims   [target, joker, card]: card takes the place of a joker.    *)
(* Bound: at most one addition and one reclaim of a request concern the    *)
(* same composition.                                                       *)
(* Hands are sets of physical cards: the code finds a card by rank and     *)
(* suit, and which of two equal cards it takes cannot be observed.         *)
(***************************************************************************)
EXTENDS Composition

CONSTANTS
  Deck,            \* the physical cards
  OpeningPoints,   \* 40 in the code
  Layouts(_),      \* bound: the orders a client submits a set of cards in
  MaxNewComps,     \* bound: new compositions in one request
  MaxAdditions,    \* bound: additions in one request
  MaxAdded,        \* bound: cards in one addition
  MaxReclaims      \* bound: joker reclaims in one request

ASSUME RequestBounds ==
  /\ OpeningPoints \in Nat
  /\ MaxNewComps \in Nat /\ MaxAdditions \in Nat /\ MaxAdded \in Nat /\ MaxReclaims \in Nat

ASSUME LayoutsAssumption ==
  \A S \in SUBSET Deck : \A t \in Layouts(S) : t \in [1..Cardinality(S) -> S]

Compositions == [variant : Variants, cards : Seq(Deck)]

AtMost(n, S) == {ToSet(t) : t \in UNION {[1..k -> S] : k \in 0..n}}

\* Bound: the changes of a request concern different compositions.
onePerTarget(changes) == \A a, b \in changes : a.target = b.target => a = b
-----------------------------------------------------------------------------
(***************************************************************************)
(* Applying a request.                                                     *)
(***************************************************************************)
reclaimedCards(reclaims) == {r.target.cards[r.joker] : r \in reclaims}

playedCards(req) ==
  (UNION {ToSet(cards) : cards \in req.comps})
    \cup (UNION {ToSet(a.cards) : a \in req.additions}) \cup {r.card : r \in req.reclaims}

\* RemoveCards fails when a card is named more often than it is held.
namesNoCardTwice(req) ==
  LET laid    == UNION {ToSet(cards) : cards \in req.comps}
      added   == UNION {ToSet(a.cards) : a \in req.additions}
      swapped == {r.card : r \in req.reclaims}
  IN  /\ \A cards \in req.comps : IsInjective(cards)
      /\ \A a \in req.additions : IsInjective(a.cards)
      /\ \A s, t \in req.comps : s = t \/ ToSet(s) \cap ToSet(t) = {}
      /\ \A a, b \in req.additions : a = b \/ ToSet(a.cards) \cap ToSet(b.cards) = {}
      /\ \A q, r \in req.reclaims : q.card = r.card => q = r
      /\ laid \cap added = {} /\ (laid \cup added) \cap swapped = {}

\* A composition with its joker reclaimed, or with cards added and the points they
\* add to it; none if the rules forbid it.
withReclaims(c, reclaims) ==
  IF reclaims = {} THEN {c} ELSE UNION {ReclaimJoker(c, r.joker, r.card) : r \in reclaims}

withAdditions(c, additions) ==
  IF additions = {} THEN {[comp |-> c, points |-> 0]}
  ELSE {[comp |-> e, points |-> Points(e) - Points(c)] :
          e \in UNION {WithInsertedCards(c, a.at, a.cards) : a \in additions}}

\* What the changes to one composition make of it, and the points they add.  A
\* reclaim from a set whose joker is still ambiguous waits until the addition has
\* been made, and its position moves with the cards inserted before it.
updatedComposition(target, additions, reclaims) ==
  LET inserted == UNION {{<<a, k>> : k \in DOMAIN a.cards} : a \in additions}
      Moved(r) == [r EXCEPT !.joker = @ + Cardinality({ak \in inserted : ak[1].at < r.joker})]
      Update(deferred) ==
        UNION {{[x EXCEPT !.comp = c] : c \in withReclaims(x.comp, {Moved(r) : r \in deferred})} :
                 x \in UNION {withAdditions(c, additions) :
                                c \in withReclaims(target, reclaims \ deferred)}}
  IN  Update({r \in reclaims : isAmbiguousSetReclaim(target, r.joker, r.card)})

updatedTable(table, req) ==
  [c \in table |-> updatedComposition(c, {a \in req.additions : a.target = c},
                                         {r \in req.reclaims : r.target = c})]

\* The points a request's changes add to the compositions of the table.
addedPoints(updated) ==
  MapThenSumSet(LAMBDA c : (CHOOSE u \in updated[c] : TRUE).points, DOMAIN updated)

\* One new composition can be made without the jokers reclaimed in this request.
hasOpeningCompositionFromHand(cards, comps) ==
  \E laid \in comps : \A c \in ToSet(laid) :
    Cardinality({d \in ToSet(laid) : cardsEqual(c, d)})
      <= Cardinality({d \in cards : cardsEqual(c, d)})

tablePlayUsesCard(req, card) == \E c \in playedCards(req) : cardsEqual(c, card)

\* The hand and the table after an accepted request; none if it is rejected.  laid
\* and updated are what the rules make of the new and the changed compositions.
acceptedPlay(cards, opened, req, laid, updated) ==
  LET Laid(t)    == CHOOSE c \in laid[t] : TRUE
      Updated(c) == (CHOOSE u \in updated[c] : TRUE).comp
      held == cards \cup reclaimedCards(req.reclaims)
      left == held \ playedCards(req)
  IN  IF /\ playedCards(req) \subseteq held
         /\ namesNoCardTwice(req)
         /\ left # {}
         /\ opened \/ hasOpeningCompositionFromHand(cards, req.comps)
         /\ \A t \in DOMAIN laid : laid[t] # {}
         /\ \A c \in DOMAIN updated : updated[c] # {}
         /\ opened \/ MapThenSumSet(LAMBDA t : Points(Laid(t)), DOMAIN laid)
                        + addedPoints(updated) >= OpeningPoints
      THEN {[hand  |-> left,
             table |-> {Updated(c) : c \in DOMAIN updated} \cup {Laid(t) : t \in DOMAIN laid}]}
      ELSE {}

applyTablePlayState(cards, opened, table, req) ==
  acceptedPlay(cards, opened, req,
               [t \in req.comps |-> laidComposition(t)], updatedTable(table, req))
-----------------------------------------------------------------------------
(***************************************************************************)
(* The requests a client may send, within the bounds.  Cards a reclaim     *)
(* frees may be played in the same request.                                *)
(***************************************************************************)
possibleReclaims(cards, table) ==
  UNION {{r \in [target : {c}, joker : jokerCardIndices(c.cards), card : cards] :
            Face(r.card.rank, r.card.suit) \in jokerRepresentations(c, r.joker)} : c \in table}

\* The groups of cards a composition can take; the order plays no part in that.
canInsertCardsIntoComposition(c, cards) ==
  {g \in SUBSET cards : Cardinality(g) \in 1..MaxAdded /\ isValid(c.variant, c.cards \o SetToSeq(g))}

possibleAdditions(cards, table) ==
  UNION {[target : {c}, at : 0..Len(c.cards),
          cards : UNION {SetToSeqs(g) : g \in canInsertCardsIntoComposition(c, cards)}] : c \in table}

Requests(cards, table) ==
  UNION {LET held == cards \cup reclaimedCards(reclaims)
         IN  [comps     : AtMost(MaxNewComps, UNION {Layouts(g) : g \in SUBSET held}),
              additions : {as \in AtMost(MaxAdditions, possibleAdditions(held, table)) :
                             onePerTarget(as)},
              reclaims  : {reclaims}] :
           reclaims \in {rs \in AtMost(MaxReclaims, possibleReclaims(cards, table)) :
                           onePerTarget(rs)}}
-----------------------------------------------------------------------------
(***************************************************************************)
(* The search.  The discard d may be taken if the cards held with it       *)
(* contain new compositions and additions, after at most one reclaim, that *)
(* use d and leave a card.  Whether a group of cards is valid, and what it *)
(* is worth, does not depend on its order.                                 *)
(***************************************************************************)
searchVariants(g) == {v \in Variants : isValid(v, SetToSeq(g))}

searchPoints(g) ==
  Max({Points([variant |-> v, cards |-> SetToSeq(g)]) : v \in searchVariants(g)})

\* Unlike applyTablePlayState, the search does not ask for a new composition made
\* without the reclaimed joker.
validateTablePlay(opened, table, groups, additions, reclaims) ==
  LET Valid(updated) ==
        /\ \A c \in table : updated[c] # {}
        /\ opened \/ /\ groups # {}
                     /\ MapThenSumSet(searchPoints, groups) + addedPoints(updated) >= OpeningPoints
  IN  Valid(updatedTable(table, [additions |-> additions, reclaims |-> reclaims]))

\* A joker reclaimed with the discard itself is kept and not searched with.
hasLegalPlayWithDiscard(cards, d, opened, table, reclaims) ==
  LET spent == {r.card : r \in reclaims}
      kept  == IF d \in spent THEN reclaimedCards(reclaims) ELSE {}
      free  == (cards \cup {d} \cup (reclaimedCards(reclaims) \ kept)) \ spent
      plays == {g \in SUBSET free : searchVariants(g) # {}}
      adds  == UNION {{[target |-> c, at |-> Len(c.cards), cards |-> SetToSeq(g)] :
                         g \in canInsertCardsIntoComposition(c, free)} : c \in table}
  IN  \E groups \in AtMost(MaxNewComps, plays), additions \in AtMost(MaxAdditions, adds) :
        LET used == UNION (groups \cup {ToSet(a.cards) : a \in additions})
        IN  /\ onePerTarget(additions)
            /\ \A g \in groups, a \in additions : g \cap ToSet(a.cards) = {}
            /\ \A g, h \in groups : g = h \/ g \cap h = {}
            /\ \A a, b \in additions : a = b \/ ToSet(a.cards) \cap ToSet(b.cards) = {}
            /\ d \in used \cup spent
            /\ (free \ used) \cup kept # {}
            /\ validateTablePlay(opened, table, groups, additions, reclaims)

canTakeDiscardNow(cards, d, opened, table) ==
  \E reclaims \in {{}} \cup {{r} : r \in {r \in possibleReclaims(cards \cup {d}, table) :
                                           canReclaimJoker(r.target, r.joker, r.card)}} :
    hasLegalPlayWithDiscard(cards, d, opened, table, reclaims)
================================================================================
