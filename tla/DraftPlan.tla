------------------------------ MODULE DraftPlan ------------------------------
(***************************************************************************)
(* What the board computes from a hand, the table and the drafts of a      *)
(* turn (game-board-view-state.ts, game-card-utils.ts), and what the       *)
(* server does with the request built from them (state.go).                *)
(*                                                                         *)
(* A hand entry is its key <<rank, suit, occurrence>>; the joker that a    *)
(* staged reclaim would free has the key <<table index, joker, 0>>.        *)
(* A draft is                                                              *)
(*   [id, keys, table, at, cardAt, reclaim]                                *)
(* with table = 0 for a new composition, cardAt the edges chosen for       *)
(* single cards and reclaim the jokers chosen for them.  Table indices and *)
(* jokers count from 1, insert positions are the number of cards before.   *)
(* A composition of a snapshot says in `stands` what its jokers stand for. *)
(***************************************************************************)
EXTENDS Composition

joker(n) == [rank |-> 0, suit |-> 0, copy |-> n]
isVirtual(key) == key[3] = 0
cardOf(key) ==
  IF isVirtual(key) THEN joker(0)
  ELSE [rank |-> key[1], suit |-> key[2], copy |-> key[3]]
cardsOf(keys) == [i \in DOMAIN keys |-> cardOf(keys[i])]

Staged(d, key) == key \in ToSet(d.keys)
Without(seq, x) == SelectSeq(seq, LAMBDA y : y # x)
noKey == <<>>   \* an undefined key

----------------------------------------------------------------------------
(* The hand. *)

buildHandEntries(hand) ==
  [i \in DOMAIN hand |->
     <<hand[i].rank, hand[i].suit,
       Cardinality({j \in 1 .. i : cardsEqual(hand[j], hand[i])})>>]

(* Known keys in the stored order, then the cards that are new. *)
applyHandEntryOrder(entries, orderedKeys) ==
  SelectSeq(orderedKeys, LAMBDA key : key \in ToSet(entries))
    \o SelectSeq(entries, LAMBDA key : key \notin ToSet(orderedKeys))

arrayMove(seq, from, to) == InsertAt(RemoveAt(seq, from), to, seq[from])

IndexOf(seq, x) == CHOOSE i \in DOMAIN seq : seq[i] = x

moveHandEntry(current, key, over) ==
  IF key \notin ToSet(current) \/ over \notin ToSet(current) \/ key = over
  THEN current
  ELSE arrayMove(current, IndexOf(current, key), IndexOf(current, over))

(* The entries of the next snapshot that the current one does not have. *)
newHandEntries(current, next) ==
  SelectSeq(next, LAMBDA key : key \notin ToSet(current))

(* handIndexAfterSubmittedDrafts: where a card will be once the staged     *)
(* cards have left the hand; none for a card that is not there.            *)
handIndexAfterSubmittedDrafts(raw, key, drafts) ==
  LET played == UNION {ToSet(drafts[i].keys) : i \in DOMAIN drafts}
      left == SelectSeq(raw, LAMBDA k : k \notin played)
  IN  {i \in DOMAIN left : left[i] = key}

----------------------------------------------------------------------------
(* Drafts. *)

newDraft(id, key) ==
  [id |-> id, keys |-> <<key>>, table |-> 0, at |-> 0,
   cardAt |-> <<>>, reclaim |-> <<>>]

Forget(f, key) == Restrict(f, DOMAIN f \ {key})
Put(f, key, n) == [k \in DOMAIN f \cup {key} |-> IF k = key THEN n ELSE f[k]]

(* A draft that loses its last card is gone. *)
removeHandKeyFromDrafts(drafts, key) ==
  IF \A i \in DOMAIN drafts : ~Staged(drafts[i], key) THEN drafts
  ELSE SelectSeq([i \in DOMAIN drafts |->
                    [drafts[i] EXCEPT !.keys = Without(@, key),
                                      !.cardAt = Forget(@, key),
                                      !.reclaim = Forget(@, key)]],
                 LAMBDA d : d.keys # <<>>)

pruneDraftCompositions(drafts, valid) ==
  SelectSeq([i \in DOMAIN drafts |->
               [drafts[i] EXCEPT !.keys = SelectSeq(@, LAMBDA k : k \in valid)]],
            LAMBDA d : d.keys # <<>>)

(* The draft with `id`, changed by Op. *)
UpdateDraft(drafts, id, Op(_)) ==
  [i \in DOMAIN drafts |-> IF drafts[i].id = id THEN Op(drafts[i]) ELSE drafts[i]]

(* A slip: a card is put in its new place before it is taken from the old. *)
insertHandKeyIntoDraftSlip(drafts, key, id, over) ==
  UpdateDraft(drafts, id, LAMBDA d : [d EXCEPT !.keys = Append(@, key)])

(* Within its own draft a card moves to the place of `over`; otherwise it  *)
(* leaves the draft it is in and enters the target before `over`, or last. *)
(* The target may be gone by then, when the card was its only one.         *)
insertHandKeyIntoDraft(drafts, key, id, over) ==
  LET Into(d) ==
        [d EXCEPT !.keys =
           LET keys == Without(@, key)
           IN  IF over \in ToSet(keys)
               THEN InsertAt(keys, IndexOf(keys, over), key)
               ELSE Append(keys, key)]
      Within(d) ==
        [d EXCEPT !.keys = IF over \in ToSet(@)
                           THEN arrayMove(@, IndexOf(@, key), IndexOf(@, over))
                           ELSE @]
  IN  IF over # noKey
         /\ \E i \in DOMAIN drafts : drafts[i].id = id /\ Staged(drafts[i], key)
      THEN UpdateDraft(drafts, id, Within)
      ELSE UpdateDraft(removeHandKeyFromDrafts(drafts, key), id, Into)

setDraftCardInsertIndex(drafts, id, key, at) ==
  UpdateDraft(drafts, id, LAMBDA d :
    [d EXCEPT !.cardAt = Put(@, key, at), !.reclaim = Forget(@, key)])

setDraftCardReclaimTarget(drafts, id, key, j) ==
  UpdateDraft(drafts, id, LAMBDA d :
    [d EXCEPT !.cardAt = Forget(@, key), !.reclaim = Put(@, key, j)])

tableCompositionInsertIndexForEdge(comp, edge) ==
  IF edge = "start" THEN 0 ELSE Len(comp.cards)

----------------------------------------------------------------------------
(* Joker reclaims. *)

(* What the server sends of a composition. *)
CompositionSnapshot(comp) ==
  [variant |-> comp.variant, cards |-> comp.cards, points |-> Points(comp),
   stands |-> [j \in jokerCardIndices(comp.cards) |-> jokerRepresentations(comp, j)]]

(* Only a joker that stands for one card can be reclaimed. *)
canReclaimJokerWithCard(comp, j, card) ==
  j \in DOMAIN comp.stands /\ comp.stands[j] = {Face(card.rank, card.suit)}

(* The first of equals: positions of a key sequence that no earlier one    *)
(* rivals.                                                                 *)
FirstOf(keys, Good(_), Rivals(_, _)) ==
  SelectSeq(keys, LAMBDA k :
    Good(k) /\ \A l \in ToSet(keys) :
      IndexOf(keys, l) < IndexOf(keys, k) /\ Good(l) => ~Rivals(l, k))

buildExplicitReclaims(comp, keys, targets) ==
  LET Good(k) == k \in DOMAIN targets
                 /\ canReclaimJokerWithCard(comp, targets[k], cardOf(k))
      chosen == FirstOf(keys, Good, LAMBDA l, k : targets[l] = targets[k])
  IN  [i \in DOMAIN chosen |-> [joker |-> targets[chosen[i]], key |-> chosen[i]]]

(* A set takes the cards of missing suits while it has room.               *)
setAdditions(comp, keys, rank, present) ==
  LET fitting == FirstOf(keys, LAMBDA k : cardOf(k).rank = rank
                                          /\ cardOf(k).suit \notin present,
                         LAMBDA l, k : cardOf(l).suit = cardOf(k).suit)
  IN  {k \in ToSet(fitting) : IndexOf(fitting, k) <= 4 - Len(comp.cards)}

(* The jokers that a card may replace once the cards `added` are there:    *)
(* the only joker stands for the only suit that is missing then.           *)
setReclaimOptions(comp, rank, missing) ==
  LET alone == {j \in DOMAIN comp.stands : Cardinality(comp.stands[j]) = 1}
  IN  IF alone # {} THEN [j \in alone |-> comp.stands[j]]
      ELSE IF Cardinality(DOMAIN comp.stands) = 1 /\ Cardinality(missing) = 1
      THEN [j \in DOMAIN comp.stands |-> {Face(rank, s) : s \in missing}]
      ELSE <<>>

(* A card that is left over replaces the joker that stands for it.         *)
setReclaims(keys, options) ==
  LET chosen == FirstOf(keys,
                  LAMBDA k : \E j \in DOMAIN options :
                    Face(cardOf(k).rank, cardOf(k).suit) \in options[j],
                  LAMBDA l, k : cardsEqual(cardOf(l), cardOf(k)))
  IN  [i \in DOMAIN chosen |->
         [joker |-> CHOOSE j \in DOMAIN options :
            Face(cardOf(chosen[i]).rank, cardOf(chosen[i]).suit) \in options[j],
          key |-> chosen[i]]]

inferSetPlannedJokerReclaims(comp, keys) ==
  LET natural == nonJokerCards(comp.cards)
      After(rank, present, added) ==
        setReclaims(SelectSeq(keys, LAMBDA k : k \notin added),
                    setReclaimOptions(comp, rank,
                      Suits \ (present \cup {cardOf(k).suit : k \in added})))
      Of(rank, present) == After(rank, present, setAdditions(comp, keys, rank, present))
  IN  IF natural = {} THEN <<>>
      ELSE Of(comp.cards[Min(natural)].rank, {comp.cards[i].suit : i \in natural})

(* Jokers the user pointed at; for a set without any, those that follow    *)
(* from the cards, the ones dropped on a joker being considered last.      *)
planTableJokerReclaims(comp, keys, targets) ==
  LET Plan(explicit) ==
        IF explicit # <<>> \/ comp.variant # "set" THEN explicit
        ELSE inferSetPlannedJokerReclaims(comp,
               SelectSeq(keys, LAMBDA k : k \notin DOMAIN targets)
                 \o SelectSeq(keys, LAMBDA k : k \in DOMAIN targets))
  IN  Plan(buildExplicitReclaims(comp, keys, targets))

reclaimedEntryKeys(reclaims) == {reclaims[i].key : i \in DOMAIN reclaims}

(* The reclaims of every table composition, with the drafts pruned to      *)
(* valid keys, and the jokers they free.                                   *)
draftReclaims(table, d) ==
  IF d.table \notin DOMAIN table THEN <<>>
  ELSE planTableJokerReclaims(table[d.table], d.keys, d.reclaim)

buildVirtualReclaimedJokers(table, drafts) ==
  LET Freed(d, rs) == [i \in DOMAIN rs |-> <<d.table, rs[i].joker, 0>>]
      Of(d) == Freed(d, draftReclaims(table, d))
  IN  FlattenSeq([t \in DOMAIN table |->
        FlattenSeq([i \in DOMAIN drafts |->
                      IF drafts[i].table = t THEN Of(drafts[i]) ELSE <<>>])])

(* resolveDraftViews: the jokers are those freed by cards of the hand, and *)
(* drafts keep the keys of both.                                           *)
resolveDraftViews(table, drafts, entries) ==
  LET View(all) ==
        [all |-> all, drafts |-> pruneDraftCompositions(drafts, ToSet(all))]
  IN  View(entries \o buildVirtualReclaimedJokers(table,
                        pruneDraftCompositions(drafts, ToSet(entries))))

----------------------------------------------------------------------------
(* What a draft is worth to the client: none if it is not valid. *)

draftSetPointTotal(cards) ==
  LET real == nonJokerCards(cards)
      rank == IF real = {} THEN Ace ELSE cards[Min(real)].rank
  IN  IF Len(cards) \in 3 .. 4
         /\ \A i, j \in real : /\ cards[i].rank = rank
                               /\ i # j => cards[i].suit # cards[j].suit
      THEN {Len(cards) * rankPoints(rank, FALSE)} ELSE {}

(* A window fits when every card has a place of its own in it. *)
draftRunFits(cards, window) ==
  LET real == nonJokerCards(cards)
      aces == {i \in real : cards[i].rank = Ace}
  IN  /\ Cardinality(aces) <= Cardinality(window \cap {1, 14})
      /\ \A i \in real \ aces : cards[i].rank \in window
      /\ \A i, j \in real \ aces : cards[i].rank = cards[j].rank => i = j

(* A slip: the first window that fits counts, not the best. *)
draftRunPointTotalSlip(cards) ==
  LET real == nonJokerCards(cards)
      n == Len(cards)
      fitting == {s \in 1 .. (15 - n) : draftRunFits(cards, s .. (s + n - 1))}
  IN  IF n \in 3 .. 14 /\ fitting # {}
         /\ \A i, j \in real : cards[i].suit = cards[j].suit
      THEN {MapThenSumSet(LAMBDA r : rankPoints(sequenceRankToCardRank(r), r = 1),
                          Min(fitting) .. (Min(fitting) + n - 1))}
      ELSE {}

draftRunPointTotal(cards) ==
  LET real == nonJokerCards(cards)
      n == Len(cards)
      Window(start) == start .. (start + n - 1)
      Total(window) ==
        MapThenSumSet(LAMBDA r : rankPoints(sequenceRankToCardRank(r), r = 1), window)
      fitting == {start \in 1 .. (15 - n) : draftRunFits(cards, Window(start))}
  IN  IF n \in 3 .. 14 /\ fitting # {}
         /\ \A i, j \in real : cards[i].suit = cards[j].suit
      THEN {Max({Total(Window(start)) : start \in fitting})} ELSE {}

isValidDraftComposition(cards, variants) ==
  \/ "set" \in variants /\ draftSetPointTotal(cards) # {}
  \/ "run" \in variants /\ draftRunPointTotal(cards) # {}

(* A valid set counts before a valid run, natural cards count their face   *)
(* value on the way there, and jokers alone count nothing.                 *)
draftCompositionPointTotal(cards, variants) ==
  LET asSet == IF "set" \in variants THEN draftSetPointTotal(cards) ELSE {}
      asRun == IF "run" \in variants THEN draftRunPointTotal(cards) ELSE {}
  IN  IF nonJokerCards(cards) = {} THEN {}
      ELSE IF asSet # {} THEN asSet
      ELSE IF asRun # {} THEN asRun
      ELSE IF jokerCardIndices(cards) # {} THEN {}
      ELSE {MapThenSumSet(LAMBDA i : rankPoints(cards[i].rank, FALSE), DOMAIN cards)}

isCompleteDraftComposition(cards, variants) ==
  /\ jokerCardIndices(cards) = {}
  /\ IF "set" \in variants /\ (variants = {"set"} \/ draftSetPointTotal(cards) # {})
     THEN Len(cards) = 4 /\ draftSetPointTotal(cards) # {}
     ELSE Len(cards) = 14 /\ draftRunPointTotal(cards) # {}

----------------------------------------------------------------------------
(* Drafts on the table. *)

insertIndexOf(d, key) == IF key \in DOMAIN d.cardAt THEN d.cardAt[key] ELSE d.at

(* The cards a draft adds, grouped by insert index in the order in which   *)
(* the groups were begun; what is put in front is put there last first.    *)
additionGroups(d, reclaimed) ==
  LET keys == SelectSeq(d.keys, LAMBDA k : k \notin reclaimed)
      firsts == FirstOf(keys, LAMBDA k : TRUE,
                        LAMBDA l, k : insertIndexOf(d, l) = insertIndexOf(d, k))
      Group(at) == SelectSeq(keys, LAMBDA k : insertIndexOf(d, k) = at)
  IN  [i \in DOMAIN firsts |->
         LET at == insertIndexOf(d, firsts[i])
         IN  [at |-> at, keys |-> IF at = 0 THEN Reverse(Group(at)) ELSE Group(at)]]

(* A slip: the reclaiming card is shown one place too far. *)
previewCardsSlip(comp, reclaims) ==
  [i \in DOMAIN comp.cards |->
     IF \E r \in ToSet(reclaims) : r.joker = i - 1
     THEN cardOf((CHOOSE r \in ToSet(reclaims) : r.joker = i - 1).key)
     ELSE comp.cards[i]]

(* cardsAfterTableDraft: the composition as the board shows it. *)
previewCards(comp, reclaims) ==
  [i \in DOMAIN comp.cards |->
     IF \E r \in ToSet(reclaims) : r.joker = i
     THEN cardOf((CHOOSE r \in ToSet(reclaims) : r.joker = i).key)
     ELSE comp.cards[i]]

InsertGroup(cards, g) ==
  SubSeq(cards, 1, g.at) \o cardsOf(g.keys) \o SubSeq(cards, g.at + 1, Len(cards))

cardsAfterTableDraft(comp, d) ==
  LET After(reclaims) ==
        FoldLeft(InsertGroup, previewCards(comp, reclaims),
                 SortSeq(additionGroups(d, reclaimedEntryKeys(reclaims)),
                         LAMBDA a, b : a.at > b.at))
  IN  After(planTableJokerReclaims(comp, d.keys, d.reclaim))

(* Drafts that validateDraftedCompositions marks, with their cards on the  *)
(* table narrowed down to the ones that are to blame.                      *)
draftIsValid(table, d) ==
  IF d.table = 0 THEN isValidDraftComposition(cardsOf(d.keys), Variants)
  ELSE d.table \in DOMAIN table
       /\ isValidDraftComposition(cardsAfterTableDraft(table[d.table], d),
                                  {table[d.table].variant})

validateDraftedCompositions(table, drafts) ==
  LET bad == {i \in DOMAIN drafts : ~draftIsValid(table, drafts[i])}
      Blamed(d) ==
        LET guilty == {k \in ToSet(d.keys) :
                         draftIsValid(table, [d EXCEPT !.keys = Without(@, k)])}
        IN  IF guilty # {} THEN guilty ELSE ToSet(d.keys)
  IN  [compositions |-> {drafts[i].id : i \in {i \in bad : drafts[i].table = 0}},
       entries |-> UNION {Blamed(drafts[i]) : i \in {i \in bad : drafts[i].table # 0}}]

(* The points the board shows for a draft: what a composition gains, and   *)
(* the values of the cards that reclaim its jokers.                        *)
jokerReclaimPointValue(comp, j, card) ==
  LET next == IF j + 1 \in DOMAIN comp.stands
              THEN {f.rank : f \in comp.stands[j + 1]}
              ELSE {comp.cards[j + 1].rank}
  IN  rankPoints(card.rank, comp.variant = "run" /\ j = 1 /\ card.rank = Ace /\ 2 \in next)

additionPointTotal(comp, d) ==
  LET Gain(total) == IF total > comp.points THEN total - comp.points ELSE 0
      Sum(reclaims) ==
        MapThenSumSet(LAMBDA i : jokerReclaimPointValue(comp, reclaims[i].joker,
                                                        cardOf(reclaims[i].key)),
                      DOMAIN reclaims)
  IN  {Gain(total) + Sum(planTableJokerReclaims(comp, d.keys, d.reclaim)) :
         total \in draftCompositionPointTotal(cardsAfterTableDraft(comp, d), {comp.variant})}

draftPointTotal(table, d) ==
  IF d.table = 0 THEN draftCompositionPointTotal(cardsOf(d.keys), Variants)
  ELSE additionPointTotal(table[d.table], d)

(* The total is shown once every draft has its points. *)
visibleDraftPointsTotal(table, drafts) ==
  LET Total(points) ==
        IF \E i \in DOMAIN points : points[i] = {} THEN {}
        ELSE {MapThenSumSet(LAMBDA i : CHOOSE n \in points[i] : TRUE, DOMAIN points)}
  IN  Total([i \in DOMAIN drafts |-> draftPointTotal(table, drafts[i])])

additionRequests(d, groups) ==
  [i \in DOMAIN groups |-> [table |-> d.table, at |-> groups[i].at,
                            cards |-> cardsOf(groups[i].keys)]]

reclaimRequests(d, reclaims) ==
  [i \in DOMAIN reclaims |-> [table |-> d.table, joker |-> reclaims[i].joker,
                              card |-> cardOf(reclaims[i].key)]]

tableDraftRequest(d, reclaims) ==
  [additions |-> additionRequests(d, additionGroups(d, reclaimedEntryKeys(reclaims))),
   reclaims |-> reclaimRequests(d, reclaims)]

buildTablePlayRequest(table, drafts) ==
  LET Request(news, changes) ==
        [comps |-> [i \in DOMAIN news |-> cardsOf(news[i].keys)],
         additions |-> FlattenSeq([i \in DOMAIN changes |-> changes[i].additions]),
         reclaims |-> FlattenSeq([i \in DOMAIN changes |-> changes[i].reclaims])]
      Changes(olds) ==
        [i \in DOMAIN olds |-> tableDraftRequest(olds[i], draftReclaims(table, olds[i]))]
  IN  Request(SelectSeq(drafts, LAMBDA d : d.table = 0),
              Changes(SelectSeq(drafts, LAMBDA d : d.table # 0)))

----------------------------------------------------------------------------
(* The server's reading of a request (applyTablePlayState), with the table *)
(* in the order its indices refer to.  A step that fails leaves no table.  *)

OnEach(states, Op(_)) == UNION {Op(s) : s \in states}

(* A state is the table, the reclaims put off until the set is no longer   *)
(* ambiguous, the jokers freed and the points added.                       *)
reclaimStep(s, r) ==
  LET target == s.table[r.table]
  IN  IF r.table \notin DOMAIN s.table THEN {}
      ELSE IF isAmbiguousSetReclaim(target, r.joker, r.card)
      THEN {[s EXCEPT !.deferred = Append(@, r)]}
      ELSE {[s EXCEPT !.table[r.table] = c, !.freed = @ + 1] :
              c \in ReclaimJoker(target, r.joker, r.card)}

(* A slip: reclaims put off keep their position when cards move theirs. *)
additionStepSlip(s, a) ==
  IF a.table \notin DOMAIN s.table THEN {}
  ELSE {[s EXCEPT !.table[a.table] = c,
                  !.points = @ + Points(c) - Points(s.table[a.table])] :
          c \in WithInsertedCards(s.table[a.table], a.at, a.cards)}

additionStep(s, a) ==
  LET target == s.table[a.table]
      Shift(r) == IF r.table = a.table /\ a.at < r.joker
                  THEN [r EXCEPT !.joker = @ + Len(a.cards)] ELSE r
  IN  IF a.table \notin DOMAIN s.table THEN {}
      ELSE {[s EXCEPT !.table[a.table] = c,
                      !.deferred = [i \in DOMAIN @ |-> Shift(@[i])],
                      !.points = @ + Points(c) - Points(target)] :
              c \in WithInsertedCards(target, a.at, a.cards)}

deferredStep(s, r) ==
  {[s EXCEPT !.table[r.table] = c, !.freed = @ + 1] :
     c \in ReclaimJoker(s.table[r.table], r.joker, r.card)}

Through(states, Step(_, _), changes) ==
  FoldLeft(LAMBDA ss, x : OnEach(ss, LAMBDA s : Step(s, x)), states, changes)

applyTablePlayRequest(table, req) ==
  LET start == {[table |-> table, deferred |-> <<>>, freed |-> 0, points |-> 0]}
      Done(changed) == OnEach(changed, LAMBDA s : Through({s}, deferredStep, s.deferred))
      With(done, new) ==
        {[table |-> s.table \o new, freed |-> s.freed,
          points |-> s.points + MapThenSumSet(LAMBDA i : Points(new[i]), DOMAIN new)] :
           s \in done}
      Result(done, laid) ==
        IF \E i \in DOMAIN laid : laid[i] = {} THEN {}
        ELSE With(done, [i \in DOMAIN laid |-> CHOOSE c \in laid[i] : TRUE])
  IN  Result(Done(Through(Through(start, reclaimStep, req.reclaims),
                          additionStep, req.additions)),
             [i \in DOMAIN req.comps |-> laidComposition(req.comps[i])])

(* The hand once the request's cards have left it; none if it would be     *)
(* empty.  Cards are found by rank and suit, the first one first.          *)
RemoveCard(hand, card) ==
  LET at == {i \in DOMAIN hand : cardsEqual(hand[i], card)}
  IN  IF at = {} THEN {} ELSE {RemoveAt(hand, Min(at))}

playedCards(req) ==
  FlattenSeq(req.comps)
    \o [i \in DOMAIN req.reclaims |-> req.reclaims[i].card]
    \o FlattenSeq([i \in DOMAIN req.additions |-> req.additions[i].cards])

RemoveCards(hand, cards) ==
  FoldLeft(LAMBDA hands, c : OnEach(hands, LAMBDA h : RemoveCard(h, c)), {hand}, cards)

handAfterPlay(hand, freed, req) ==
  {h \in RemoveCards(hand \o [i \in 1 .. freed |-> joker(i)], playedCards(req)) : h # <<>>}
==============================================================================
