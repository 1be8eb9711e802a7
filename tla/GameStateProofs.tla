---------------------------- MODULE GameStateProofs ----------------------------
(***************************************************************************)
(* Putting a run in order only moves its cards; an accepted table play     *)
(* leaves a hand with a card in it, and only compositions made of the      *)
(* deck's cards; the rules engine keeps its invariants about stages, turns,*)
(* piles and points; no card is ever lost or duplicated; and a composition *)
(* on the table is a legal one, can be rebuilt from its cards, and keeps   *)
(* its order when a joker is reclaimed: for every number of players, deck, *)
(* hand size and limit that the constants' assumptions allow.              *)
(***************************************************************************)
EXTENDS GameState, TableComposition, FiniteSetTheorems, SequenceTheorems,
        WellFoundedInduction, TLAPS

-----------------------------------------------------------------------------
(***************************************************************************)
(* Compositions: putting a run in order only moves its cards.              *)
(***************************************************************************)
\* t has the entries of s, each as often, in another order.
Permuted(s, t) ==
  \E f \in Bijection(DOMAIN s, DOMAIN s) : t = [i \in DOMAIN s |-> s[f[i]]]

\* A reordered sequence is a sequence over the same set, with the same length and
\* the same entries.
LEMMA PermutedSeq ==
  ASSUME NEW S, NEW s \in Seq(S), NEW t, Permuted(s, t)
  PROVE  t \in Seq(S) /\ Len(t) = Len(s) /\ ToSet(t) = ToSet(s)
<1>1. PICK f \in Bijection(DOMAIN s, DOMAIN s) : t = [i \in DOMAIN s |-> s[f[i]]]
  BY DEF Permuted
<1>2. /\ f \in [DOMAIN s -> DOMAIN s]
      /\ \A j \in DOMAIN s : \E i \in DOMAIN s : f[i] = j
  BY DEF Bijection, Injection, Surjection
<1>3. Len(s) \in Nat /\ DOMAIN s = 1..Len(s)
  BY LenProperties
<1>4. t \in [1..Len(s) -> S]
  BY <1>1, <1>2, <1>3, ElementOfSeq
<1>5. t \in Seq(S) /\ Len(t) = Len(s)
  BY <1>3, <1>4
<1>6. ToSet(t) = ToSet(s)
  BY <1>1, <1>2, <1>3, <1>5 DEF ToSet
<1> QED BY <1>5, <1>6

\* Leaving a sequence as it is reorders it trivially.
LEMMA PermutedSame ==
  ASSUME NEW S, NEW s \in Seq(S)
  PROVE  Permuted(s, s)
<1> DEFINE f == [i \in DOMAIN s |-> i]
<1>1. f \in Bijection(DOMAIN s, DOMAIN s)
  BY DEF Bijection, Injection, Surjection, IsInjective
<1>2. s = [i \in DOMAIN s |-> s[f[i]]]
  BY LenProperties
<1> QED BY <1>1, <1>2 DEF Permuted

\* Turning a sequence round reorders it.
LEMMA PermutedReverse ==
  ASSUME NEW S, NEW s \in Seq(S)
  PROVE  Permuted(s, Reverse(s))
<1> DEFINE n == Len(s)
           f == [i \in 1..n |-> (n - i) + 1]
<1>1. n \in Nat /\ DOMAIN s = 1..n
  BY LenProperties
<1>2. f \in [1..n -> 1..n]
  BY <1>1
<1>3. \A a, b \in 1..n : f[a] = f[b] => a = b
  BY <1>1
<1>4. \A j \in 1..n : f[(n - j) + 1] = j /\ (n - j) + 1 \in 1..n
  BY <1>1
<1> HIDE DEF f
<1>5. f \in Bijection(DOMAIN s, DOMAIN s)
  BY <1>1, <1>2, <1>3, <1>4 DEF Bijection, Injection, Surjection, IsInjective
<1>6. Reverse(s) = [i \in DOMAIN s |-> s[f[i]]]
  BY <1>1 DEF Reverse, f
<1> QED BY <1>5, <1>6 DEF Permuted

\* Reordering twice is reordering.
LEMMA PermutedTwice ==
  ASSUME NEW S, NEW s \in Seq(S), NEW t, NEW u, Permuted(s, t), Permuted(t, u)
  PROVE  Permuted(s, u)
<1> DEFINE D == DOMAIN s
<1>1. PICK f \in Bijection(D, D) : t = [i \in D |-> s[f[i]]]
  BY DEF Permuted
<1>2. DOMAIN t = D
  BY <1>1
<1>3. PICK g \in Bijection(D, D) : u = [i \in D |-> t[g[i]]]
  BY <1>2 DEF Permuted
<1> DEFINE h == [i \in D |-> f[g[i]]]
<1>4. /\ f \in [D -> D] /\ g \in [D -> D]
      /\ \A a, b \in D : f[a] = f[b] => a = b
      /\ \A a, b \in D : g[a] = g[b] => a = b
      /\ \A j \in D : \E i \in D : f[i] = j
      /\ \A j \in D : \E i \in D : g[i] = j
  BY <1>1, <1>3 DEF Bijection, Injection, Surjection, IsInjective
<1>5. h \in Bijection(D, D)
  <2> HIDE DEF D
  <2>1. h \in [D -> D]
    BY <1>4
  <2>3. ASSUME NEW a \in D, NEW b \in D, h[a] = h[b]
        PROVE  a = b
    <3>1. g[a] \in D /\ g[b] \in D /\ f[g[a]] = f[g[b]]
      BY <1>4, <2>3
    <3> QED BY <1>4, <3>1
  <2>2. \A j \in D : \E i \in D : h[i] = j
    BY <1>4
  <2> QED BY <2>1, <2>2, <2>3 DEF Bijection, Injection, Surjection, IsInjective
<1>6. u = [i \in D |-> s[h[i]]]
  BY <1>1, <1>3, <1>4
<1> QED BY <1>5, <1>6 DEF Permuted

-----------------------------------------------------------------------------
\* The elements outside a part are as many as the part leaves.
LEMMA CardinalityOfRest ==
  ASSUME NEW D, IsFiniteSet(D), NEW A \in SUBSET D
  PROVE  /\ Cardinality(D \ A) = Cardinality(D) - Cardinality(A)
         /\ Cardinality(D) \in Nat /\ Cardinality(A) \in Nat
<1>1. D \cap A = A
  OBVIOUS
<1>2. Cardinality(D \ A) = Cardinality(D) - Cardinality(D \cap A)
  BY FS_Difference
<1>3. IsFiniteSet(A)
  BY FS_Subset
<1> QED BY <1>1, <1>2, <1>3, FS_CardinalityType

\* Laying cards out over a window, jokers in the gaps, moves every card to one place.
\* The gaps are as many as the jokers, so no two natural cards have the same rank.
LEMMA CandidateOrderPermutes ==
  ASSUME NEW S, NEW cards \in Seq(S), NEW ranks \in [nonJokerCards(cards) -> Int],
         NEW start \in Int, candidateFits(cards, ranks, start)
  PROVE  Permuted(cards, candidateOrder(cards, ranks, start))
<1> DEFINE D      == DOMAIN cards
           real   == nonJokerCards(cards)
           jokers == jokerCardIndices(cards)
           place  == [i \in real |-> ranks[i] - start + 1]
           held   == {k \in D : \E i \in real : place[i] = k}
           gaps   == {k \in DOMAIN cards : \A i \in DOMAIN ranks : ranks[i] # start + k - 1}
<1>1. Len(cards) \in Nat /\ D = 1..Len(cards) /\ IsFiniteSet(D)
  BY LenProperties, FS_Interval
<1>2. /\ real \subseteq D /\ jokers \subseteq D
      /\ real \cap jokers = {} /\ real \cup jokers = D
      /\ DOMAIN ranks = real
  BY DEF nonJokerCards, jokerCardIndices
<1>3. place \in [real -> D]
  <2>1. \A i \in real : ranks[i] \in start..(start + Len(cards) - 1)
    BY DEF candidateFits
  <2> QED BY <1>1, <2>1
<1>4. \A i \in real, k \in D : place[i] = k <=> ranks[i] = start + k - 1
  BY <1>1
<1>5. gaps = D \ held
  BY <1>2, <1>4
<1>6. Cardinality(gaps) = Cardinality(jokers)
  <2>1. gaps = {k \in DOMAIN cards : start + k - 1 \notin {ranks[i] : i \in DOMAIN ranks}}
    BY DEF candidateFits
  <2> QED BY <2>1 DEF candidateFits
<1>7. IsFiniteSet(real) /\ IsFiniteSet(jokers) /\ IsFiniteSet(held) /\ IsFiniteSet(gaps)
  BY <1>1, <1>2, FS_Subset
<1>8. Cardinality(held) = Cardinality(real)
  <2>1. held \in SUBSET D /\ jokers \in SUBSET D /\ D \ jokers = real
    BY <1>2
  <2>2. IsFiniteSet(D)
    BY <1>1
  <2> HIDE DEF held, gaps, real, jokers, D
  <2>3. /\ Cardinality(D \ held) = Cardinality(D) - Cardinality(held)
        /\ Cardinality(D) \in Nat /\ Cardinality(held) \in Nat
    BY <2>1, <2>2, CardinalityOfRest
  <2>4. /\ Cardinality(real) = Cardinality(D) - Cardinality(jokers)
        /\ Cardinality(jokers) \in Nat
    BY <2>1, <2>2, CardinalityOfRest
  <2>5. Cardinality(D \ held) = Cardinality(jokers)
    BY <1>5, <1>6
  <2> QED BY <2>3, <2>4, <2>5
<1>9. \A i, j \in real : place[i] = place[j] => i = j
  <2>1. place \in Surjection(real, held)
    BY <1>3 DEF Surjection
  <2>2. place \in Injection(real, held)
    BY <1>7, <1>8, <2>1, FS_Surjection
  <2> QED BY <2>2 DEF Injection, IsInjective
<1> DEFINE fill  == CHOOSE f \in Bijection(gaps, jokers) : TRUE
           At(k) == IF k \in DOMAIN fill THEN fill[k]
                    ELSE CHOOSE i \in DOMAIN ranks : ranks[i] = start + k - 1
           perm  == [k \in D |-> At(k)]
<1>10. fill \in Bijection(gaps, jokers)
  <2>1. ExistsBijection(gaps, jokers)
    BY <1>6, <1>7, FS_SameCardinalityBij
  <2> QED BY <2>1 DEF ExistsBijection
<1>11. /\ fill \in [gaps -> jokers]
       /\ \A a, b \in gaps : fill[a] = fill[b] => a = b
       /\ \A j \in jokers : \E a \in gaps : fill[a] = j
  BY <1>10 DEF Bijection, Injection, Surjection, IsInjective
<1> HIDE DEF fill, gaps, held, place, real, jokers
<1>12. \A k \in gaps : perm[k] = fill[k] /\ k \in D
  BY <1>5, <1>11
<1>13. \A k \in D \ gaps : perm[k] \in real /\ place[perm[k]] = k
  <2> SUFFICES ASSUME NEW k \in D \ gaps
               PROVE  perm[k] \in real /\ place[perm[k]] = k
    OBVIOUS
  <2>1. \E i \in DOMAIN ranks : ranks[i] = start + k - 1
    BY <1>2, <1>4, <1>5 DEF held
  <2>2. perm[k] = CHOOSE i \in DOMAIN ranks : ranks[i] = start + k - 1
    BY <1>11
  <2>3. perm[k] \in DOMAIN ranks /\ ranks[perm[k]] = start + k - 1
    BY <2>1, <2>2
  <2> QED BY <1>2, <1>4, <2>3
<1> HIDE DEF perm, At
<1>14. perm \in Bijection(D, D)
  <2>1. perm = [k \in D |-> perm[k]]
    BY DEF perm
  <2>2. \A k \in D : perm[k] \in D
    BY <1>2, <1>11, <1>12, <1>13
  <2>3. \A a, b \in D : perm[a] = perm[b] => a = b
    BY <1>2, <1>11, <1>12, <1>13
  <2>4. \A i \in D : \E k \in D : perm[k] = i
    <3> SUFFICES ASSUME NEW i \in D
                 PROVE  \E k \in D : perm[k] = i
      OBVIOUS
    <3>1. CASE i \in jokers
      BY <3>1, <1>11, <1>12
    <3>2. CASE i \in real
      <4>1. place[i] \in D \ gaps
        BY <3>2, <1>3, <1>5 DEF held
      <4>2. perm[place[i]] \in real /\ place[perm[place[i]]] = place[i]
        BY <4>1, <1>13
      <4>3. perm[place[i]] = i
        BY <3>2, <4>2, <1>9
      <4> QED BY <4>1, <4>3
    <3> QED BY <1>2, <3>1, <3>2
  <2>5. perm \in [D -> D]
    BY <2>1, <2>2
  <2> QED BY <2>3, <2>4, <2>5 DEF Bijection, Injection, Surjection, IsInjective
<1>15. candidateOrder(cards, ranks, start) = [k \in D |-> cards[perm[k]]]
  BY DEF candidateOrder, perm, At, fill, gaps, jokers
<1> QED BY <1>14, <1>15 DEF Permuted

\* Whichever candidate bestRunOrder settles on has the cards it was given.
LEMMA BestRunOrderPermutes ==
  ASSUME NEW S, \A c \in S : c.rank \in Int, NEW cards \in Seq(S), NEW b \in bestRunOrder(cards)
  PROVE  Permuted(cards, b.ordered)
<1> DEFINE cs    == runOrderCandidates(cards)
           exact == {k \in DOMAIN cs : cs[k].matches = DOMAIN cards}
<1>1. CASE nonJokerCards(cards) = {}
  <2>1. b.ordered = cards
    BY <1>1 DEF bestRunOrder
  <2> QED BY <2>1, PermutedSame
<1>2. CASE nonJokerCards(cards) # {}
  <2>1. b \in foundOrders(cs, exact)
    BY <1>2 DEF bestRunOrder
  <2> HIDE DEF exact, cs
  <2>2. PICK k \in chosenCandidates(cs, exact) : b.ordered = cs[k].ordered
    BY <2>1 DEF foundOrders
  <2>3. k \in DOMAIN cs
    BY <2>2 DEF chosenCandidates, bestCandidate, exact
  <2> DEFINE starts   == 15 - Len(cards)
             Ranks(j) == sequenceRanksForCards(cards, j > starts)
             Start(j) == IF j > starts THEN j - starts ELSE j
  <2>4. /\ k \in Int
        /\ candidateFits(cards, Ranks(k), Start(k))
        /\ cs[k].ordered = candidateOrder(cards, Ranks(k), Start(k))
    <3>1. DOMAIN cs = {j \in 1..(2 * starts) : candidateFits(cards, Ranks(j), Start(j))}
      BY DEF cs, runOrderCandidates
    <3>2. cs[k] = runOrderCandidate(cards, Start(k), candidateOrder(cards, Ranks(k), Start(k)))
      BY <2>3, <3>1 DEF cs, runOrderCandidates
    <3> QED BY <2>3, <3>1, <3>2 DEF runOrderCandidate
  <2>5. Start(k) \in Int
    BY <2>4, LenProperties
  <2>6. Ranks(k) \in [nonJokerCards(cards) -> Int]
    <3>1. \A i \in nonJokerCards(cards) : cards[i].rank \in Int
      BY LenProperties DEF nonJokerCards
    <3> QED BY <3>1 DEF sequenceRanksForCards
  <2> QED BY <2>2, <2>4, <2>5, <2>6, CandidateOrderPermutes
<1> QED BY <1>1, <1>2

\* normalizeRunCards answers with the cards it was given, each once.
THEOREM NormalizePermutes ==
  ASSUME NEW S, \A c \in S : c.rank \in Int, NEW cards \in Seq(S)
  PROVE  Permuted(cards, normalizeRunCards(cards))
<1> DEFINE forward  == bestRunOrder(cards)
           backward == bestRunOrder(Reverse(cards))
<1>1. CASE forward # {}
  <2> DEFINE b == CHOOSE b \in forward : TRUE
  <2>1. b \in forward /\ normalizeRunCards(cards) = b.ordered
    BY <1>1 DEF normalizeRunCards
  <2> QED BY <2>1, BestRunOrderPermutes
<1>2. CASE forward = {} /\ backward # {}
  <2> DEFINE b == CHOOSE b \in backward : TRUE
  <2>1. b \in backward /\ normalizeRunCards(cards) = b.ordered
    BY <1>2 DEF normalizeRunCards
  <2>2. Permuted(cards, Reverse(cards)) /\ Reverse(cards) \in Seq(S)
    BY PermutedReverse, PermutedSeq
  <2>3. Permuted(Reverse(cards), b.ordered)
    BY <2>1, <2>2, BestRunOrderPermutes
  <2> HIDE DEF b
  <2>4. Permuted(cards, b.ordered)
    BY <2>2, <2>3, PermutedTwice
  <2> QED BY <2>1, <2>4
<1>3. CASE forward = {} /\ backward = {}
  <2>1. normalizeRunCards(cards) = cards
    BY <1>3 DEF normalizeRunCards
  <2> QED BY <2>1, PermutedSame
<1> QED BY <1>1, <1>2, <1>3

\* NewComposition keeps the variant and the cards it is given, in some order, and
\* builds nothing from cards that are not valid.
THEOREM NewCompositionKeepsCards ==
  ASSUME NEW S, \A c \in S : c.rank \in Int, NEW cards \in Seq(S), NEW v \in Variants,
         NEW c \in newComposition(cards, v)
  PROVE  /\ c \in [variant : Variants, cards : Seq(S)]
         /\ c.variant = v
         /\ Permuted(cards, c.cards)
<1>1. c = [variant |-> v, cards |-> IF v = "run" THEN normalizeRunCards(cards) ELSE cards]
  BY DEF newComposition
<1>2. Permuted(cards, IF v = "run" THEN normalizeRunCards(cards) ELSE cards)
  BY NormalizePermutes, PermutedSame
<1>3. (IF v = "run" THEN normalizeRunCards(cards) ELSE cards) \in Seq(S)
  BY <1>2, PermutedSeq
<1> QED BY <1>1, <1>2, <1>3

-----------------------------------------------------------------------------
(***************************************************************************)
(* Table plays: what an accepted one leaves.                               *)
(***************************************************************************)
\* What the lemmas need to know of the cards.
DeckOK == IsFiniteSet(Deck) /\ \A c \in Deck : c.rank \in Int

\* The parts of a request that playing it relies on.
RequestOK(req) ==
  /\ req.comps \subseteq Seq(Deck)
  /\ \A a \in req.additions : a.cards \in Seq(Deck) /\ a.at \in Int
  /\ \A r \in req.reclaims : r.card \in Deck
  /\ reclaimedCards(req.reclaims) \subseteq Deck

-----------------------------------------------------------------------------
\* Whatever a play does to a composition of the deck's cards, the result is one.
LEMMA InsertedIsComposition ==
  ASSUME DeckOK, NEW c \in Compositions, NEW at \in Int, NEW cards \in Seq(Deck),
         NEW e \in WithInsertedCards(c, at, cards)
  PROVE  e \in Compositions
<1> DEFINE all == SubSeq(c.cards, 1, at) \o cards \o SubSeq(c.cards, at + 1, Len(c.cards))
<1>1. c.cards \in Seq(Deck) /\ c.variant \in Variants
  BY DEF Compositions
<1>2. at \in 0..Len(c.cards) /\ e \in newComposition(all, c.variant)
  BY DEF WithInsertedCards
<1>3. SubSeq(c.cards, 1, at) \in Seq(Deck) /\ SubSeq(c.cards, at + 1, Len(c.cards)) \in Seq(Deck)
  BY <1>1, <1>2, SubSeqProperties, LenProperties
<1>4. all \in Seq(Deck)
  BY <1>3, ConcatProperties
<1> HIDE DEF all
<1> QED BY <1>1, <1>2, <1>4, NewCompositionKeepsCards DEF DeckOK, Compositions

\* Reclaiming a joker with a card of the deck.
LEMMA ReclaimedIsComposition ==
  ASSUME DeckOK, NEW c \in Compositions, NEW i, NEW card \in Deck, NEW e \in ReclaimJoker(c, i, card)
  PROVE  e \in Compositions
<1> DEFINE all == [c.cards EXCEPT ![i] = card]
<1>1. c.cards \in Seq(Deck) /\ c.variant \in Variants
  BY DEF Compositions
<1>2. i \in DOMAIN c.cards /\ e \in newComposition(all, c.variant)
  BY DEF ReclaimJoker, canReclaimJoker, jokerCardIndices
<1>3. all \in Seq(Deck)
  BY <1>1, <1>2, LenProperties, ExceptSeq
<1> HIDE DEF all
<1> QED BY <1>1, <1>2, <1>3, NewCompositionKeepsCards DEF DeckOK, Compositions

\* Laying down a new composition.
LEMMA LaidIsComposition ==
  ASSUME DeckOK, NEW cards \in Seq(Deck), NEW e \in laidComposition(cards)
  PROVE  e \in Compositions
<1>1. PICK c \in inferComposition(cards) :
        e = [c EXCEPT !.cards = IF c.variant = "run" THEN normalizeRunCards(@) ELSE @]
  BY DEF laidComposition
<1>2. c \in newComposition(cards, "set") \/ c \in newComposition(cards, "run")
  BY DEF inferComposition
<1>3. c \in Compositions
  BY <1>2, NewCompositionKeepsCards DEF DeckOK, Compositions, Variants
<1>4. c.cards \in Seq(Deck) /\ c.variant \in Variants
  BY <1>3 DEF Compositions
<1>5. normalizeRunCards(c.cards) \in Seq(Deck)
  BY <1>4, NormalizePermutes, PermutedSeq DEF DeckOK
<1> QED BY <1>1, <1>3, <1>4, <1>5 DEF Compositions

\* All that one request does to one composition.
LEMMA UpdatedIsComposition ==
  ASSUME DeckOK, NEW c \in Compositions, NEW additions, NEW reclaims,
         \A a \in additions : a.cards \in Seq(Deck) /\ a.at \in Int,
         \A r \in reclaims : r.card \in Deck,
         NEW u \in updatedComposition(c, additions, reclaims)
  PROVE  u.comp \in Compositions
<1> DEFINE inserted == UNION {{<<a, k>> : k \in DOMAIN a.cards} : a \in additions}
           Moved(r) == [r EXCEPT !.joker = @ + Cardinality({ak \in inserted : ak[1].at < r.joker})]
           deferred == {r \in reclaims : isAmbiguousSetReclaim(c, r.joker, r.card)}
           late     == {Moved(r) : r \in deferred}
<1>1. \E x \in UNION {withAdditions(d, additions) : d \in withReclaims(c, reclaims \ deferred)} :
        \E e \in withReclaims(x.comp, late) : u = [x EXCEPT !.comp = e]
  BY DEF updatedComposition
<1>2. PICK x \in UNION {withAdditions(d, additions) : d \in withReclaims(c, reclaims \ deferred)} :
        \E e \in withReclaims(x.comp, late) : u = [x EXCEPT !.comp = e]
  BY <1>1
<1>3. PICK d \in withReclaims(c, reclaims \ deferred) : x \in withAdditions(d, additions)
  OBVIOUS
<1>4. PICK e \in withReclaims(x.comp, late) : u = [x EXCEPT !.comp = e]
  BY <1>2
<1>5. d \in Compositions
  BY ReclaimedIsComposition DEF withReclaims
<1>6. x.comp \in Compositions /\ u.comp = e
  <2>1. CASE additions = {}
    <3>1. x = [comp |-> d, points |-> 0]
      BY <2>1, <1>3 DEF withAdditions
    <3> QED BY <3>1, <1>4, <1>5
  <2>2. CASE additions # {}
    <3>1. PICK f \in UNION {WithInsertedCards(d, a.at, a.cards) : a \in additions} :
            x = [comp |-> f, points |-> Points(f) - Points(d)]
      BY <2>2, <1>3 DEF withAdditions
    <3>2. f \in Compositions
      BY <1>5, InsertedIsComposition
    <3> QED BY <3>1, <3>2, <1>4
  <2> QED BY <2>1, <2>2
<1>7. \A r \in late : r.card \in Deck
  <2>1. \A r \in deferred : Moved(r).card = r.card
    OBVIOUS
  <2> QED BY <2>1
<1> HIDE DEF late
<1>8. e \in Compositions
  BY <1>6, <1>7, ReclaimedIsComposition DEF withReclaims
<1> QED BY <1>6, <1>8

-----------------------------------------------------------------------------
\* A set made from at most n elements of S is a part of S.
LEMMA AtMostSubset ==
  ASSUME NEW n, NEW S, NEW T \in AtMost(n, S)
  PROVE  T \subseteq S
<1>1. PICK t \in UNION {[1..k -> S] : k \in 0..n} : T = ToSet(t)
  BY DEF AtMost
<1>2. PICK k \in 0..n : t \in [1..k -> S]
  BY <1>1
<1> QED BY <1>1, <1>2 DEF ToSet

\* Every request a client may send is made of cards of the deck.
LEMMA RequestsAreOK ==
  ASSUME DeckOK, NEW cards \in SUBSET Deck, NEW table \in SUBSET Compositions,
         NEW req \in Requests(cards, table)
  PROVE  RequestOK(req)
<1>1. PICK reclaims \in AtMost(MaxReclaims, possibleReclaims(cards, table)) :
        LET held == cards \cup reclaimedCards(reclaims)
        IN  req \in [comps     : AtMost(MaxNewComps, UNION {Layouts(g) : g \in SUBSET held}),
                     additions : {as \in AtMost(MaxAdditions, possibleAdditions(held, table)) :
                                    onePerTarget(as)},
                     reclaims  : {reclaims}]
  BY DEF Requests
<1> DEFINE held == cards \cup reclaimedCards(reclaims)
<1>2. /\ req.comps \in AtMost(MaxNewComps, UNION {Layouts(g) : g \in SUBSET held})
      /\ req.additions \in AtMost(MaxAdditions, possibleAdditions(held, table))
      /\ req.reclaims = reclaims
  BY <1>1
<1>3. \A r \in reclaims : r.card \in Deck /\ r.target.cards[r.joker] \in Deck
  <2> SUFFICES ASSUME NEW r \in reclaims
               PROVE  r.card \in Deck /\ r.target.cards[r.joker] \in Deck
    OBVIOUS
  <2>1. r \in possibleReclaims(cards, table)
    BY AtMostSubset
  <2>2. PICK c \in table : r \in [target : {c}, joker : jokerCardIndices(c.cards), card : cards]
    BY <2>1 DEF possibleReclaims
  <2>3. r.target = c /\ r.joker \in DOMAIN c.cards /\ r.card \in cards
    BY <2>2 DEF jokerCardIndices
  <2>4. c.cards \in Seq(Deck)
    BY DEF Compositions
  <2> QED BY <2>3, <2>4, LenProperties, ElementOfSeq
<1>4. reclaimedCards(reclaims) \subseteq Deck
  BY <1>3 DEF reclaimedCards
<1>5. held \subseteq Deck
  BY <1>4
<1> HIDE DEF held
<1>6. \A t \in req.comps : t \in Seq(Deck)
  <2> SUFFICES ASSUME NEW t \in req.comps
               PROVE  t \in Seq(Deck)
    OBVIOUS
  <2>1. PICK g \in SUBSET held : t \in Layouts(g)
    BY <1>2, AtMostSubset
  <2>2. t \in [1..Cardinality(g) -> g] /\ g \subseteq Deck
    BY <2>1, <1>5, LayoutsAssumption
  <2>3. Cardinality(g) \in Nat
    BY <2>2, FS_Subset, FS_CardinalityType DEF DeckOK
  <2> QED BY <2>2, <2>3
<1>7. \A a \in req.additions : a.cards \in Seq(Deck) /\ a.at \in Int
  <2> SUFFICES ASSUME NEW a \in req.additions
               PROVE  a.cards \in Seq(Deck) /\ a.at \in Int
    OBVIOUS
  <2>1. a \in possibleAdditions(held, table)
    BY <1>2, AtMostSubset
  <2>2. PICK c \in table :
          a \in [target : {c}, at : 0..Len(c.cards),
                 cards : UNION {SetToSeqs(g) : g \in canInsertCardsIntoComposition(c, held)}]
    BY <2>1 DEF possibleAdditions
  <2>3. PICK g \in canInsertCardsIntoComposition(c, held) : a.cards \in SetToSeqs(g)
    BY <2>2
  <2>4. g \subseteq Deck /\ Cardinality(g) \in 1..MaxAdded
    BY <1>5 DEF canInsertCardsIntoComposition
  <2>5. a.cards \in [1..Cardinality(g) -> g]
    BY <2>3 DEF SetToSeqs
  <2>6. a.cards \in Seq(Deck)
    BY <2>4, <2>5, RequestBounds
  <2>7. a.at \in 0..Len(c.cards) /\ c.cards \in Seq(Deck)
    BY <2>2 DEF Compositions
  <2> QED BY <2>6, <2>7, LenProperties
<1> QED BY <1>2, <1>3, <1>4, <1>6, <1>7 DEF RequestOK

\* applyTablePlayState leaves the player a card, and on the table compositions of the
\* deck's cards.
LEMMA AcceptedPlayType ==
  ASSUME DeckOK, NEW cards \in SUBSET Deck, NEW opened, NEW table \in SUBSET Compositions,
         NEW req, RequestOK(req), NEW next \in applyTablePlayState(cards, opened, table, req)
  PROVE  /\ next.hand \in SUBSET Deck /\ next.hand # {}
         /\ next.table \in SUBSET Compositions
<1> DEFINE laid       == [t \in req.comps |-> laidComposition(t)]
           updated    == updatedTable(table, req)
           Laid(t)    == CHOOSE c \in laid[t] : TRUE
           Updated(c) == (CHOOSE u \in updated[c] : TRUE).comp
           left       == (cards \cup reclaimedCards(req.reclaims)) \ playedCards(req)
<1>1. next \in acceptedPlay(cards, opened, req, laid, updated)
  BY DEF applyTablePlayState
<1>2. DOMAIN laid = req.comps /\ DOMAIN updated = table
  BY DEF updatedTable
<1>3. /\ left # {}
      /\ \A t \in req.comps : laid[t] # {}
      /\ \A c \in table : updated[c] # {}
      /\ next = [hand  |-> left,
                 table |-> {Updated(c) : c \in table} \cup {Laid(t) : t \in req.comps}]
  <2> HIDE DEF laid, updated
  <2> QED BY <1>1, <1>2 DEF acceptedPlay
<1>4. \A t \in req.comps : Laid(t) \in Compositions
  <2> SUFFICES ASSUME NEW t \in req.comps
               PROVE  Laid(t) \in Compositions
    OBVIOUS
  <2>1. t \in Seq(Deck) /\ laid[t] = laidComposition(t)
    BY DEF RequestOK
  <2>2. Laid(t) \in laidComposition(t)
    BY <2>1, <1>3
  <2> QED BY <2>1, <2>2, LaidIsComposition
<1>5. \A c \in table : Updated(c) \in Compositions
  <2> SUFFICES ASSUME NEW c \in table
               PROVE  Updated(c) \in Compositions
    OBVIOUS
  <2> DEFINE additions == {a \in req.additions : a.target = c}
             reclaims  == {r \in req.reclaims : r.target = c}
             u == CHOOSE u \in updated[c] : TRUE
  <2>1. updated[c] = updatedComposition(c, additions, reclaims)
    BY DEF updatedTable
  <2>2. u \in updatedComposition(c, additions, reclaims)
    BY <2>1, <1>3
  <2>3. /\ \A a \in additions : a.cards \in Seq(Deck) /\ a.at \in Int
        /\ \A r \in reclaims : r.card \in Deck
    BY DEF RequestOK
  <2> HIDE DEF additions, reclaims, u, updated
  <2>4. u.comp \in Compositions
    BY <2>2, <2>3, UpdatedIsComposition
  <2> QED BY <2>4 DEF u
<1> HIDE DEF Laid, Updated
<1>6. left \subseteq Deck
  BY DEF RequestOK
<1> QED BY <1>3, <1>4, <1>5, <1>6

-----------------------------------------------------------------------------
(***************************************************************************)
(* Least and greatest elements.                                            *)
(***************************************************************************)
\* A nonempty set of naturals has a least element.
LEMMA NatMinimum ==
  ASSUME NEW T \in SUBSET Nat, T # {}
  PROVE  \E x \in T : \A y \in T : x <= y
<1> DEFINE R == {ss \in Nat \X Nat : ss[1] < ss[2]}
<1>1. IsWellFoundedOn(R, Nat)
  BY NatLessThanWellFounded, Zenon DEF OpToRel
<1> HIDE DEF R
<1>2. PICK x \in T : \A y \in T : ~(<<y, x>> \in R)
  BY <1>1, WFMin
<1>3. \A y \in T : ~(y < x)
  BY <1>2 DEF R
<1>4. \A y \in T : x <= y
  BY <1>3
<1> QED BY <1>4

\* A natural-valued function on a nonempty set has an argument with the least value,
LEMMA LeastArgument ==
  ASSUME NEW S, S # {}, NEW f \in [S -> Nat]
  PROVE  \E p \in S : \A q \in S : f[p] <= f[q]
<1> DEFINE T == {f[p] : p \in S}
<1>1. T \in SUBSET Nat /\ T # {}
  OBVIOUS
<1>2. PICK x \in T : \A y \in T : x <= y
  BY <1>1, NatMinimum
<1> QED BY <1>2

\* and, if it is bounded, one with the greatest.
LEMMA GreatestArgument ==
  ASSUME NEW S, S # {}, NEW f \in [S -> Nat], NEW b \in Nat, \A p \in S : f[p] <= b
  PROVE  \E p \in S : \A q \in S : f[q] <= f[p]
<1> DEFINE g == [p \in S |-> b - f[p]]
<1>1. g \in [S -> Nat]
  OBVIOUS
<1>2. PICK p \in S : \A q \in S : g[p] <= g[q]
  BY <1>1, LeastArgument
<1>3. \A q \in S : f[q] <= f[p]
  BY <1>2
<1> QED BY <1>3

\* The greatest of a bounded set of naturals is one of them.
LEMMA MaxIsMember ==
  ASSUME NEW S \in SUBSET Nat, S # {}, NEW b \in Nat, \A x \in S : x <= b
  PROVE  Max(S) \in S /\ \A x \in S : x <= Max(S)
<1> DEFINE f == [x \in S |-> x]
<1>1. f \in [S -> Nat] /\ \A x \in S : f[x] <= b
  OBVIOUS
<1>2. PICK p \in S : \A q \in S : f[q] <= f[p]
  BY <1>1, GreatestArgument
<1>3. \E x \in S : \A y \in S : x >= y
  BY <1>2
<1> QED BY <1>3 DEF Max

\* The least of a nonempty set of naturals is one of them.
LEMMA MinIsMember ==
  ASSUME NEW S \in SUBSET Nat, S # {}
  PROVE  Min(S) \in S
BY NatMinimum DEF Min

-----------------------------------------------------------------------------
(***************************************************************************)
(* Cards and seats.                                                        *)
(***************************************************************************)
\* The cards of NewGameDeck are finitely many and have ranks.
LEMMA DeckIsOK == DeckOK
<1>1. IsFiniteSet(1..Len(GameDeck))
  BY FS_Interval, LenProperties, GameAssumption
<1>2. GameDeck \in Surjection(1..Len(GameDeck), Deck)
  BY GameAssumption, LenProperties, ElementOfSeq DEF Surjection, ToSet
<1>3. IsFiniteSet(Deck)
  BY <1>1, <1>2, FS_Surjection
<1>4. \A c \in Deck : c.rank \in Int
  BY GameAssumption DEF King
<1> QED BY <1>3, <1>4 DEF DeckOK

\* The players in the game are two to four seats.
LEMMA SeatCount ==
  ASSUME NEW A \in SUBSET Seats
  PROVE  /\ IsFiniteSet(A) /\ Cardinality(A) \in 0..NumPlayers
         /\ A # {} => Cardinality(A) >= 1
         /\ \A B \in SUBSET A : Cardinality(B) \in 0..Cardinality(A)
<1>1. IsFiniteSet(Seats) /\ Cardinality(Seats) = NumPlayers
  BY GameAssumption, FS_Interval DEF Seats
<1>2. IsFiniteSet(A) /\ Cardinality(A) <= NumPlayers
  BY <1>1, FS_Subset
<1>3. Cardinality(A) \in Nat
  BY <1>2, FS_CardinalityType
<1>4. A # {} => Cardinality(A) # 0
  BY <1>2, FS_EmptySet
<1>5. \A B \in SUBSET A : Cardinality(B) \in Nat /\ Cardinality(B) <= Cardinality(A)
  BY <1>2, FS_Subset, FS_CardinalityType
<1> QED BY <1>2, <1>3, <1>4, <1>5, GameAssumption

\* Seats are a natural number of places apart.
LEMMA DistanceType ==
  ASSUME NEW a \in Seats, NEW b \in Seats
  PROVE  distance(a, b) \in Nat
BY GameAssumption DEF distance, Seats

\* The turn passes to a player who is still in the game, if there is one.
LEMMA NextIsActive ==
  ASSUME NEW A \in SUBSET Seats, NEW index \in Seats
  PROVE  /\ nextActivePlayerIndex(A, index) \in Seats
         /\ A # {} => nextActivePlayerIndex(A, index) \in A
<1>1. CASE A = {}
  BY <1>1 DEF nextActivePlayerIndex
<1>2. CASE A # {}
  <2> DEFINE f == [p \in A |-> distance(index, p)]
  <2>1. f \in [A -> Nat]
    BY DistanceType
  <2>2. PICK p \in A : \A q \in A : f[p] <= f[q]
    BY <1>2, <2>1, LeastArgument
  <2>3. \E q \in A : \A r \in A : distance(index, q) <= distance(index, r)
    BY <2>2
  <2> QED BY <1>2, <2>3 DEF nextActivePlayerIndex
<1> QED BY <1>1, <1>2

\* The deal chooser is somebody at the table.
LEMMA PreviousIsActive ==
  ASSUME NEW A \in SUBSET Seats, NEW index \in Seats
  PROVE  previousActivePlayerIndex(A, index) \in Seats
<1>1. CASE A = {}
  BY <1>1 DEF previousActivePlayerIndex
<1>2. CASE A # {}
  <2> DEFINE f == [p \in A |-> distance(p, index)]
  <2>1. f \in [A -> Nat]
    BY DistanceType
  <2>2. PICK p \in A : \A q \in A : f[p] <= f[q]
    BY <1>2, <2>1, LeastArgument
  <2>3. \E q \in A : \A r \in A : distance(q, index) <= distance(r, index)
    BY <2>2
  <2> QED BY <1>2, <2>3 DEF previousActivePlayerIndex
<1> QED BY <1>1, <1>2

\* A hand is worth a natural number, and at least one point if it has a card.
LEMMA HandPointsType ==
  ASSUME NEW cards \in SUBSET Deck
  PROVE  HandPoints(cards) \in Nat /\ (cards # {} => HandPoints(cards) >= 1)
<1> DEFINE pips == {pip \in cards \X (1..20) : pip[2] <= CardPoints(pip[1])}
<1>1. IsFiniteSet(cards)
  BY DeckIsOK, FS_Subset DEF DeckOK
<1>2. IsFiniteSet(1..20)
  <2>1. \A n \in Nat : IsFiniteSet(1..n)
    BY FS_Interval
  <2> QED BY <2>1
<1>3. IsFiniteSet(cards \X (1..20))
  BY <1>1, <1>2, FS_Product
<1>4. IsFiniteSet(pips)
  BY <1>3, FS_Subset
<1>5. Cardinality(pips) \in Nat
  BY <1>4, FS_CardinalityType
<1>6. ASSUME cards # {} PROVE Cardinality(pips) # 0
  <2>1. PICK c \in cards : TRUE
    BY <1>6
  <2>2. CardPoints(c) >= 1
    <3>1. c.rank \in 0..13
      BY GameAssumption DEF King
    <3> QED BY <3>1 DEF CardPoints, IsJoker, Ace, Jack
  <2>3. <<c, 1>> \in pips
    BY <2>2
  <2> QED BY <2>3, <1>4, FS_EmptySet
<1> HIDE DEF pips
<1>7. HandPoints(cards) = 1 \/ HandPoints(cards) = Cardinality(pips)
  BY DEF HandPoints, pips
<1> QED BY <1>5, <1>6, <1>7

-----------------------------------------------------------------------------
(***************************************************************************)
(* Piles and dealing.                                                      *)
(***************************************************************************)
\* A part of a pile is a pile of that many cards.
LEMMA SubSeqType ==
  ASSUME NEW s \in Seq(Deck), NEW m \in Int, NEW n \in Int, 1 <= m, n <= Len(s), m <= n + 1
  PROVE  SubSeq(s, m, n) \in Seq(Deck) /\ Len(SubSeq(s, m, n)) = n - m + 1
<1>1. \A i \in m..n : s[i] \in Deck
  BY LenProperties, ElementOfSeq
<1>2. SubSeq(s, m, n) \in Seq(Deck) /\ Len(SubSeq(s, m, n)) = IF m <= n THEN n - m + 1 ELSE 0
  BY <1>1, SubSeqProperties
<1> QED BY <1>2

\* Shuffling keeps the number of cards.
LEMMA ShuffleType ==
  ASSUME NEW pile \in Seq(Deck), NEW t \in Shuffle(pile)
  PROVE  t \in Seq(Deck) /\ Len(t) = Len(pile)
<1>1. PICK f \in Bijection(1..Len(pile), 1..Len(pile)) :
        t = [i \in 1..Len(pile) |-> pile[f[i]]]
  BY DEF Shuffle
<1>2. f \in [1..Len(pile) -> 1..Len(pile)]
  BY DEF Bijection, Injection
<1>3. Len(pile) \in Nat
  BY LenProperties
<1>4. t \in [1..Len(pile) -> Deck]
  BY <1>1, <1>2, <1>3, ElementOfSeq
<1> QED BY <1>3, <1>4

\* The cards of a forfeited hand as they are put on the pile.
LEMMA SetToSeqType ==
  ASSUME NEW S \in SUBSET Deck
  PROVE  /\ SetToSeq(S) \in Seq(Deck)
         /\ S # {} => Len(SetToSeq(S)) >= 1
<1>1. IsFiniteSet(S)
  BY DeckIsOK, FS_Subset DEF DeckOK
<1>2. Cardinality(S) \in Nat /\ (S # {} => Cardinality(S) # 0)
  BY <1>1, FS_CardinalityType, FS_EmptySet
<1>3. ExistsBijection(1..Cardinality(S), S)
  BY <1>1, FS_CardinalityType
<1>4. \E f \in [1..Cardinality(S) -> S] : IsInjective(f)
  BY <1>3 DEF ExistsBijection, Bijection, Injection
<1>5. SetToSeq(S) \in [1..Cardinality(S) -> S]
  BY <1>4 DEF SetToSeq
<1> QED BY <1>2, <1>5

\* Recycling keeps a top discard, and moves cards only onto an empty draw pile.
LEMMA RecycleType ==
  ASSUME NEW draw \in Seq(Deck), NEW discard \in Seq(Deck), NEW piles,
         piles = recycleDiscardIntoDrawPileIfNeeded(draw, discard)
  PROVE  /\ piles.draw \in Seq(Deck) /\ piles.discard \in Seq(Deck)
         /\ draw # <<>> \/ Len(discard) <= 1 =>
              piles.draw = draw /\ piles.discard = discard
         /\ draw = <<>> /\ Len(discard) > 1 =>
              Len(piles.draw) = Len(discard) - 1 /\ Len(piles.discard) = 1
<1> DEFINE n == Len(discard)
           refill == [i \in 1..(n - 1) |-> discard[n + 1 - i]]
<1>1. n \in Nat
  BY LenProperties
<1>2. CASE draw # <<>> \/ n <= 1
  BY <1>2 DEF recycleDiscardIntoDrawPileIfNeeded
<1>3. CASE draw = <<>> /\ n > 1
  <2>1. refill \in [1..(n - 1) -> Deck] /\ discard[1] \in Deck
    BY <1>1, <1>3, ElementOfSeq
  <2>2. refill \in Seq(Deck) /\ Len(refill) = n - 1
    BY <1>1, <1>3, <2>1
  <2>3. piles = [draw |-> refill, discard |-> <<discard[1]>>]
    BY <1>1, <1>3 DEF recycleDiscardIntoDrawPileIfNeeded
  <2> HIDE DEF refill
  <2>4. piles.draw = refill /\ piles.discard = <<discard[1]>>
    BY <2>3
  <2>5. <<discard[1]>> \in Seq(Deck) /\ Len(<<discard[1]>>) = 1
    BY <2>1
  <2>6. ~(draw # <<>> \/ Len(discard) <= 1)
    BY <1>1, <1>3
  <2> QED BY <2>2, <2>4, <2>5, <2>6
<1> QED BY <1>1, <1>2, <1>3

\* Completed compositions go to the discard pile as cards of the deck.
LEMMA CompletedType ==
  ASSUME NEW table \in SUBSET Compositions, NEW t \in removeCompletedCompositionsToDiscard(table)
  PROVE  t \in Seq(Deck)
<1> DEFINE cards == UNION {ToSet(c.cards) : c \in {c \in table : isComplete(c)}}
<1>1. t \in SetToSeqs(cards)
  BY DEF removeCompletedCompositionsToDiscard
<1>2. cards \subseteq Deck
  <2>1. \A c \in table : ToSet(c.cards) \subseteq Deck
    BY ElementOfSeq, LenProperties DEF Compositions, ToSet
  <2> QED BY <2>1
<1> HIDE DEF cards
<1>3. Cardinality(cards) \in Nat
  BY <1>2, DeckIsOK, FS_Subset, FS_CardinalityType DEF DeckOK
<1>4. t \in [1..Cardinality(cards) -> cards]
  BY <1>1 DEF SetToSeqs
<1> QED BY <1>2, <1>3, <1>4

\* Both ways of dealing take cards from the part of the pile that was counted off.
LEMMA DealInRange ==
  ASSUME NEW A \in SUBSET Seats, Cardinality(A) >= 2, NEW dealer \in Seats, NEW p \in A
  PROVE  /\ dealRoundRobinActive(A, dealer, p) \subseteq 1..(InitialHandSize * Cardinality(A))
         /\ dealRoundRobinActive(A, dealer, p) # {}
         /\ \A order \in Bijection(1..Cardinality(A), A) :
              /\ dealInBlocksActive(order, p) \subseteq 1..(InitialHandSize * Cardinality(A))
              /\ dealInBlocksActive(order, p) # {}
<1> DEFINE N == Cardinality(A)
           H == InitialHandSize
<1>1. N \in 2..4 /\ H \in Nat \ {0}
  BY SeatCount, GameAssumption
<1> HIDE DEF N, H
<1>2. \A j \in 0..(H - 1), k \in 1..N : j * N + k \in 1..(H * N)
  <2>1. CASE N = 2
    BY <2>1, <1>1
  <2>2. CASE N = 3
    BY <2>2, <1>1
  <2>3. CASE N = 4
    BY <2>3, <1>1
  <2> QED BY <1>1, <2>1, <2>2, <2>3
<1>3. \A j \in 1..H, k \in 1..N : (k - 1) * H + j \in 1..(H * N)
  <2> SUFFICES ASSUME NEW j \in 1..H, NEW k \in 1..N
               PROVE  (k - 1) * H + j \in 1..(H * N)
    OBVIOUS
  <2>1. k \in 1..4 /\ k <= N
    BY <1>1
  <2>2. CASE N = 2
    BY <2>1, <2>2, <1>1
  <2>3. CASE N = 3
    BY <2>1, <2>3, <1>1
  <2>4. CASE N = 4
    BY <2>1, <2>4, <1>1
  <2> QED BY <1>1, <2>2, <2>3, <2>4
<1>4. dealPosition(A, dealer, p) \in 1..N
  <2> DEFINE B == {q \in A : distance(dealer, q) <= distance(dealer, p)}
  <2>1. p \in B
    BY DistanceType
  <2>2. B \in SUBSET A /\ B # {} /\ B \in SUBSET Seats
    BY <2>1
  <2> HIDE DEF B
  <2>3. Cardinality(B) \in 0..N /\ Cardinality(B) >= 1
    BY <2>2, SeatCount DEF N
  <2> QED BY <1>1, <2>3 DEF dealPosition, B
<1>5. /\ dealRoundRobinActive(A, dealer, p) \subseteq 1..(H * N)
      /\ dealRoundRobinActive(A, dealer, p) # {}
  BY <1>1, <1>2, <1>4 DEF dealRoundRobinActive, N, H
<1>6. ASSUME NEW order \in Bijection(1..N, A)
      PROVE  /\ dealInBlocksActive(order, p) \subseteq 1..(H * N)
             /\ dealInBlocksActive(order, p) # {}
  <2> DEFINE block == CHOOSE i \in DOMAIN order : order[i] = p
  <2>1. DOMAIN order = 1..N /\ \E i \in 1..N : order[i] = p
    BY DEF Bijection, Surjection
  <2>2. block \in 1..N
    BY <2>1
  <2>3. dealInBlocksActive(order, p) = {(block - 1) * H + j : j \in 1..H}
    BY DEF dealInBlocksActive, H
  <2> HIDE DEF block
  <2>4. 1 \in 1..H
    BY <1>1
  <2> QED BY <1>3, <2>2, <2>3, <2>4
<1> QED BY <1>5, <1>6 DEF N, H

\* Every player in the game is dealt cards of the deck, and at least one.
LEMMA DealType ==
  ASSUME NEW A \in SUBSET Seats, Cardinality(A) >= 2, NEW dealer \in Seats, NEW deal \in Deals(A),
         NEW main \in Seq(Deck), Len(main) >= InitialHandSize * Cardinality(A)
  PROVE  /\ dealInitialHands(A, dealer, deal, main) \in [Seats -> SUBSET Deck]
         /\ \A p \in A : dealInitialHands(A, dealer, deal, main)[p] # {}
<1> DEFINE Picks(p) == IF deal.type = "round_robin" THEN dealRoundRobinActive(A, dealer, p)
                       ELSE dealInBlocksActive(deal.order, p)
           required == InitialHandSize * Cardinality(A)
<1>1. deal.type # "round_robin" => deal.order \in Bijection(1..Cardinality(A), A)
  BY DEF Deals
<1>2. \A p \in A : Picks(p) \subseteq 1..required /\ Picks(p) # {}
  BY <1>1, DealInRange
<1>3. required \in Int /\ Len(main) \in Nat
  BY SeatCount, GameAssumption, LenProperties
<1> HIDE DEF Picks, required
<1>4. \A p \in A : \A k \in Picks(p) : main[k] \in Deck
  BY <1>2, <1>3, ElementOfSeq DEF required
<1> DEFINE hands == dealInitialHands(A, dealer, deal, main)
<1>5. \A p \in A : hands[p] = {main[k] : k \in Picks(p)}
  BY DEF dealInitialHands, Picks
<1>6. \A p \in Seats \ A : hands[p] = {}
  BY DEF dealInitialHands
<1>7. hands = [p \in Seats |-> hands[p]]
  BY DEF dealInitialHands
<1> HIDE DEF hands
<1>8. \A p \in A : hands[p] \in SUBSET Deck /\ hands[p] # {}
  <2> SUFFICES ASSUME NEW p \in A
               PROVE  hands[p] \in SUBSET Deck /\ hands[p] # {}
    OBVIOUS
  <2>1. \A k \in Picks(p) : main[k] \in Deck
    BY <1>4
  <2>2. \E k \in Picks(p) : TRUE
    BY <1>2
  <2>3. hands[p] = {main[k] : k \in Picks(p)}
    BY <1>5
  <2> QED BY <2>1, <2>2, <2>3, Zenon
<1>9. \A p \in Seats : hands[p] \in SUBSET Deck
  BY <1>6, <1>8
<1> QED BY <1>7, <1>8, <1>9 DEF hands

-----------------------------------------------------------------------------
(***************************************************************************)
(* Type correctness, one lemma per helper or action that changes much.     *)
(***************************************************************************)
\* A fresh turn of a seat is a turn.
LEMMA NewTurnType ==
  ASSUME NEW number \in Nat, NEW p \in Seats
  PROVE  newTurn(number, p) \in Turns
BY DEF newTurn, Turns

\* Recording a round keeps the counters natural.
LEMMA RecordType ==
  ASSUME NEW stats \in Counters, NEW rnd \in Nat, NEW won
  PROVE  recordRoundResult(stats, rnd, won) \in Counters
<1>1. stats.roundsWon \in Nat /\ stats.roundsWon + 1 \in Nat
  BY DEF Counters
<1>2. [stats EXCEPT !.lastRecordedRound = rnd,
                    !.roundsWon = IF won THEN @ + 1 ELSE @] \in Counters
  <2>1. CASE won
    BY <1>1, <2>1 DEF Counters
  <2>2. CASE ~won
    BY <1>1, <2>2 DEF Counters
  <2> QED BY <2>1, <2>2
<1> QED BY <1>2 DEF recordRoundResult

\* The adjusted totals are natural.
LEMMA AdjustmentType ==
  ASSUME TypeOK, NEW totals \in [Seats -> Nat]
  PROVE  applyOverHundredAdjustment(totals) \in [Seats -> Nat]
<1> DEFINE remaining == {p \in activePlayerIndexes : totals[p] <= PointsLimit}
           highest   == CHOOSE p \in remaining : \A q \in remaining : totals[q] <= totals[p]
<1>1. remaining \subseteq Seats
  BY DEF activePlayerIndexes
<1>2. ASSUME remaining # {} PROVE highest \in Seats
  <2> DEFINE f == [p \in remaining |-> totals[p]]
  <2>1. f \in [remaining -> Nat] /\ \A p \in remaining : f[p] <= PointsLimit
    BY <1>1
  <2>2. PICK p \in remaining : \A q \in remaining : f[q] <= f[p]
    BY <1>2, <2>1, GreatestArgument, GameAssumption
  <2>3. \E p2 \in remaining : \A q \in remaining : totals[q] <= totals[p2]
    BY <2>2
  <2> HIDE DEF remaining
  <2> QED BY <1>1, <2>3
<1>3. applyOverHundredAdjustment(totals) =
        [p \in Seats |-> IF p \in activePlayerIndexes \ remaining /\ remaining # {}
                         THEN totals[highest] ELSE totals[p]]
  BY DEF applyOverHundredAdjustment
<1> HIDE DEF remaining, highest
<1> QED BY <1>2, <1>3

\* Counting a round leaves points, counters, winner and phase with their types.
LEMMA FinishRoundType ==
  ASSUME TypeOK, NEW winner \in Seats, NEW hands \in [Seats -> SUBSET Deck],
         NEW stats \in [Seats -> Counters], finishRound(winner, hands, stats)
  PROVE  /\ totalPoints' \in [Seats -> Nat]
         /\ pointsGained' \in [Seats -> Nat]
         /\ statistics' \in [Seats -> Counters]
         /\ roundWinnerIndex' \in Seats \cup {-1}
         /\ phase' \in Phases
<1> DEFINE gained == [p \in Seats |-> IF p = winner \/ forfeited[p] THEN 0 ELSE HandPoints(hands[p])]
           totals == [p \in Seats |-> totalPoints[p] + gained[p]]
<1>1. gained \in [Seats -> Nat]
  BY HandPointsType
<1>2. totals \in [Seats -> Nat]
  <2> HIDE DEF gained
  <2> QED BY <1>1 DEF TypeOK
<1>3. pointsGained' = gained /\ (totalPoints' = totals \/ totalPoints' = applyOverHundredAdjustment(totals))
  BY DEF finishRound
<1> HIDE DEF gained, totals
<1>4. totalPoints' \in [Seats -> Nat]
  BY <1>2, <1>3, AdjustmentType
<1>5. statistics' \in [Seats -> Counters]
  <2>1. statistics' = [p \in Seats |-> recordRoundResult(stats[p], round, p = winner)]
    BY DEF finishRound
  <2>2. \A p \in Seats : recordRoundResult(stats[p], round, p = winner) \in Counters
    BY RecordType DEF TypeOK
  <2> QED BY <2>1, <2>2
<1>6. roundWinnerIndex' \in Seats \cup {-1} /\ phase' \in Phases
  BY DEF finishRound, Phases
<1> QED BY <1>1, <1>3, <1>4, <1>5, <1>6

\* What startRound leaves, whether or not a special hand ends the round at once.
LEMMA StartRoundResult ==
  ASSUME TypeOK, NEW dealer \in Seats, NEW chooser, NEW deal \in Deals(activePlayerIndexes),
         NEW deck \in Seq(Deck), startRound(dealer, chooser, deal, deck)
  PROVE  /\ Cardinality(activePlayerIndexes) >= 2
         /\ dealerIndex' \in Seats
         /\ hand' \in [Seats -> SUBSET Deck]
         /\ \A p \in activePlayerIndexes : hand'[p] # {}
         /\ hasOpened' \in [Seats -> BOOLEAN]
         /\ activeCompositions' = {}
         /\ drawPile' \in Seq(Deck)
         /\ Len(drawPile') = Len(deck) - InitialHandSize * Cardinality(activePlayerIndexes) - 1
         /\ discardPile' \in Seq(Deck) /\ Len(discardPile') = 1
         /\ forfeited' = forfeited
         /\ turn' \in Turns /\ turn'.hasDrawn = FALSE
         /\ \/ \E winner \in activePlayerIndexes, stats \in [Seats -> Counters] :
                 finishRound(winner, hand', stats)
            \/ /\ phase' = "in_progress"
               /\ turn'.playerIndex \in activePlayerIndexes
               /\ roundWinnerIndex' = -1
               /\ pointsGained' \in [Seats -> Nat]
               /\ statistics' \in [Seats -> Counters]
               /\ totalPoints' = totalPoints
<1> DEFINE active   == activePlayerIndexes
           required == InitialHandSize * Cardinality(active)
           main     == SubSeq(deck, deal.cutSize + 1, Len(deck))
           setAside == SubSeq(deck, 1, deal.cutSize)
           rest     == SubSeq(main, required + 1, Len(main)) \o setAside
           hands    == dealInitialHands(active, dealer, deal, main)
           special  == {p \in active : hasSpecialWinningHand(hands[p])}
           stats    == [p \in Seats |->
                          [statistics[p] EXCEPT !.roundsPlayed = IF p \in active THEN @ + 1 ELSE @]]
<1>1. /\ Cardinality(active) >= 2
      /\ dealer \in active
      /\ Len(deck) >= required + 1
      /\ deal.cutSize <= Len(deck) - required
      /\ dealerIndex' = dealer
      /\ hand' = hands
      /\ hasOpened' = [p \in Seats |-> FALSE]
      /\ activeCompositions' = {}
      /\ drawPile' = Tail(rest)
      /\ discardPile' = <<Head(rest)>>
      /\ forfeited' = forfeited
      /\ IF special # {}
         THEN /\ finishRound(Min(special), hands, stats)
              /\ turn' = newTurn(1, 0)
         ELSE /\ turn' = newTurn(1, nextActivePlayerIndex(active, dealer))
              /\ phase' = "in_progress"
              /\ roundWinnerIndex' = -1
              /\ pointsGained' = [p \in Seats |-> 0]
              /\ statistics' = stats
              /\ totalPoints' = totalPoints
  BY DEF startRound
<1> HIDE DEF required, main, setAside, rest, hands, special, stats
<1>2. active \in SUBSET Seats /\ 0 \in Seats /\ 1 \in Nat
  BY GameAssumption DEF activePlayerIndexes, Seats
<1>3. Cardinality(active) \in 0..4 /\ InitialHandSize \in Nat /\ Len(deck) \in Nat
  <2>1. Cardinality(active) \in 0..NumPlayers
    BY <1>2, SeatCount
  <2>2. NumPlayers \in 2..4 /\ InitialHandSize \in Nat
    BY GameAssumption
  <2>3. Len(deck) \in Nat
    BY LenProperties
  <2> HIDE DEF active
  <2> QED BY ONLY <2>1, <2>2, <2>3
<1>4. required \in Nat /\ deal.cutSize \in Nat
  <2>1. required \in Nat
    BY <1>3 DEF required
  <2>2. deal.cutSize \in CutSizes
    BY DEF Deals
  <2> QED BY <2>1, <2>2, GameAssumption
<1>5. /\ main \in Seq(Deck) /\ Len(main) = Len(deck) - deal.cutSize
      /\ setAside \in Seq(Deck) /\ Len(setAside) = deal.cutSize
  BY <1>1, <1>3, <1>4, SubSeqType DEF main, setAside
<1>6. rest \in Seq(Deck) /\ Len(rest) = Len(deck) - required
  <2> DEFINE undealt == SubSeq(main, required + 1, Len(main))
  <2>1. undealt \in Seq(Deck) /\ Len(undealt) = Len(main) - required
    BY <1>1, <1>3, <1>4, <1>5, SubSeqType
  <2> HIDE DEF undealt
  <2>2. rest = undealt \o setAside
    BY DEF rest, undealt
  <2> QED BY <1>3, <1>4, <1>5, <2>1, <2>2, ConcatProperties
<1>13. /\ Tail(rest) \in Seq(Deck) /\ Len(Tail(rest)) = Len(deck) - required - 1
       /\ Head(rest) \in Deck
  <2>1. rest # <<>>
    BY <1>1, <1>3, <1>4, <1>6
  <2> QED BY <1>6, <2>1, HeadTailProperties
<1>7. hands \in [Seats -> SUBSET Deck] /\ \A p \in active : hands[p] # {}
  <2>1. Len(main) >= InitialHandSize * Cardinality(active)
    BY <1>1, <1>3, <1>4, <1>5 DEF required
  <2> QED BY <1>1, <1>2, <1>5, <2>1, DealType DEF hands
<1>8. stats \in [Seats -> Counters]
  <2> SUFFICES \A p \in Seats :
        [statistics[p] EXCEPT !.roundsPlayed = IF p \in active THEN @ + 1 ELSE @] \in Counters
    BY Zenon DEF stats
  <2> SUFFICES ASSUME NEW p \in Seats
               PROVE  [statistics[p] EXCEPT !.roundsPlayed = IF p \in active THEN @ + 1 ELSE @]
                        \in Counters
    OBVIOUS
  <2>1. statistics[p] \in Counters
    BY DEF TypeOK
  <2> HIDE DEF active
  <2> QED BY <2>1 DEF Counters
<1>9. /\ newTurn(1, 0) \in Turns /\ newTurn(1, 0).hasDrawn = FALSE
      /\ newTurn(1, nextActivePlayerIndex(active, dealer)) \in Turns
      /\ newTurn(1, nextActivePlayerIndex(active, dealer)).hasDrawn = FALSE
      /\ newTurn(1, nextActivePlayerIndex(active, dealer)).playerIndex \in active
  <2>1. nextActivePlayerIndex(active, dealer) \in Seats
        /\ nextActivePlayerIndex(active, dealer) \in active
    BY <1>1, <1>2, NextIsActive
  <2> QED BY <1>2, <2>1, NewTurnType DEF newTurn
<1>10. /\ turn' \in Turns /\ turn'.hasDrawn = FALSE
       /\ \/ \E winner \in active, st \in [Seats -> Counters] : finishRound(winner, hand', st)
          \/ /\ phase' = "in_progress"
             /\ turn'.playerIndex \in active
             /\ roundWinnerIndex' = -1
             /\ pointsGained' \in [Seats -> Nat]
             /\ statistics' \in [Seats -> Counters]
             /\ totalPoints' = totalPoints
  <2>1. CASE special # {}
    <3>1. Min(special) \in active
      <4>1. special \in SUBSET Nat /\ special \subseteq active
        <5>1. Seats \subseteq Nat
          BY GameAssumption DEF Seats
        <5>2. special \subseteq active
          BY DEF special
        <5> QED BY <1>2, <5>1, <5>2
      <4> QED BY <2>1, <4>1, MinIsMember
    <3>2. finishRound(Min(special), hand', stats) /\ turn' = newTurn(1, 0)
      BY <2>1, <1>1
    <3> QED BY <1>8, <1>9, <3>1, <3>2
  <2>2. CASE special = {}
    <3>1. pointsGained' \in [Seats -> Nat]
      BY <1>1, <2>2
    <3> QED BY <1>1, <1>8, <1>9, <2>2, <3>1
  <2> QED BY <2>1, <2>2
<1>11. discardPile' \in Seq(Deck) /\ Len(discardPile') = 1
  BY <1>1, <1>13
<1>12. hasOpened' \in [Seats -> BOOLEAN]
  BY <1>1
<1> QED BY <1>1, <1>13, <1>7, <1>10, <1>11, <1>12 DEF required

\* The next player is in the game; the piles are recycled only when none is left to draw.
LEMMA AdvanceTurnResult ==
  ASSUME TypeOK, NEW A \in SUBSET Seats, NEW draw \in Seq(Deck), NEW discard \in Seq(Deck),
         advanceTurn(A, draw, discard)
  PROVE  /\ turn' \in Turns /\ turn'.hasDrawn = FALSE
         /\ A # {} => turn'.playerIndex \in A
         /\ drawPile' \in Seq(Deck) /\ discardPile' \in Seq(Deck)
         /\ draw # <<>> \/ Len(discard) <= 1 => drawPile' = draw /\ discardPile' = discard
         /\ draw = <<>> /\ Len(discard) > 1 =>
              Len(drawPile') = Len(discard) - 1 /\ Len(discardPile') = 1
<1> DEFINE piles == recycleDiscardIntoDrawPileIfNeeded(draw, discard)
           p == nextActivePlayerIndex(A, turn.playerIndex)
<1>1. turn' = newTurn(turn.number + 1, p) /\ drawPile' = piles.draw /\ discardPile' = piles.discard
  BY DEF advanceTurn
<1>2. turn.number \in Nat /\ turn.playerIndex \in Seats
  BY DEF TypeOK, Turns
<1>3. p \in Seats /\ (A # {} => p \in A)
  BY <1>2, NextIsActive
<1> HIDE DEF p
<1>4. turn' \in Turns /\ turn'.hasDrawn = FALSE /\ turn'.playerIndex = p
  <2>1. newTurn(turn.number + 1, p) \in Turns
    BY <1>2, <1>3, NewTurnType
  <2> QED BY <1>1, <2>1 DEF newTurn
<1> HIDE DEF piles
<1>5. piles = recycleDiscardIntoDrawPileIfNeeded(draw, discard)
  BY DEF piles
<1> QED BY <1>1, <1>3, <1>4, <1>5, RecycleType

\* A turn that is stopped is still a turn.
LEMMA StoppedTurnType ==
  ASSUME TypeOK
  PROVE  stoppedTurn(turn) \in Turns
<1>1. turn.number \in Nat /\ turn.playerIndex \in Seats
  BY DEF TypeOK, Turns
<1> QED BY <1>1, NewTurnType DEF stoppedTurn

\* A discard either ends the round, won by the current player, or passes the turn on
\* with the discarded card on top of the pile.
LEMMA DiscardResult ==
  ASSUME TypeOK, NEW cards \in SUBSET Deck, NEW table \in SUBSET Compositions,
         NEW card \in cards, discardAndEndTurn(cards, table, card)
  PROVE  /\ hand' = [hand EXCEPT ![turn.playerIndex] = cards \ {card}]
         /\ hand' \in [Seats -> SUBSET Deck]
         /\ activeCompositions' \in SUBSET Compositions
         /\ UNCHANGED <<roundVars, forfeited>>
         /\ \/ /\ finishRound(turn.playerIndex, hand', statistics)
               /\ turn' \in Turns
               /\ drawPile' \in Seq(Deck) /\ discardPile' \in Seq(Deck)
            \/ \E pile \in Seq(Deck) :
                 /\ Len(pile) >= Len(discardPile) + 1
                 /\ cards \ {card} # {}
                 /\ advanceTurn(activePlayerIndexes, drawPile, pile)
                 /\ UNCHANGED scoreVars
<1> DEFINE p == turn.playerIndex
           left == cards \ {card}
<1>1. /\ hand' = [hand EXCEPT ![p] = left]
      /\ activeCompositions' = {c \in table : ~isComplete(c)}
      /\ UNCHANGED <<roundVars, forfeited>>
  BY DEF discardAndEndTurn
<1>2. PICK completed \in removeCompletedCompositionsToDiscard(table) :
        LET pile == <<card>> \o completed \o discardPile
        IN  IF left = {} \/ hasSpecialWinningHand(left)
            THEN /\ finishRound(p, [hand EXCEPT ![p] = left], statistics)
                 /\ turn' = stoppedTurn(turn)
                 /\ discardPile' = pile
                 /\ UNCHANGED drawPile
            ELSE /\ advanceTurn(activePlayerIndexes, drawPile, pile)
                 /\ UNCHANGED scoreVars
  BY DEF discardAndEndTurn
<1> DEFINE pile == <<card>> \o completed \o discardPile
<1>3. completed \in Seq(Deck) /\ discardPile \in Seq(Deck) /\ drawPile \in Seq(Deck)
  BY CompletedType DEF TypeOK
<1>4. pile \in Seq(Deck) /\ Len(pile) >= Len(discardPile) + 1
  <2>1. <<card>> \in Seq(Deck) /\ Len(<<card>>) = 1
    OBVIOUS
  <2>2. <<card>> \o completed \in Seq(Deck) /\ Len(<<card>> \o completed) = 1 + Len(completed)
    BY <1>3, <2>1, ConcatProperties
  <2>3. pile \in Seq(Deck) /\ Len(pile) = 1 + Len(completed) + Len(discardPile)
    BY <1>3, <2>2, ConcatProperties
  <2> QED BY <2>3, <1>3, LenProperties
<1> HIDE DEF pile
<1>5. hand' \in [Seats -> SUBSET Deck]
  BY <1>1 DEF TypeOK
<1>6. CASE left = {} \/ hasSpecialWinningHand(left)
  <2>1. /\ finishRound(p, hand', statistics)
        /\ turn' = stoppedTurn(turn)
        /\ discardPile' = pile
        /\ UNCHANGED drawPile
    BY <1>1, <1>2, <1>6 DEF pile
  <2> QED BY <1>1, <1>3, <1>4, <1>5, <2>1, StoppedTurnType
<1>7. CASE ~(left = {} \/ hasSpecialWinningHand(left))
  <2>1. advanceTurn(activePlayerIndexes, drawPile, pile) /\ UNCHANGED scoreVars
    BY <1>2, <1>7 DEF pile
  <2> QED BY <1>1, <1>4, <1>5, <1>7, <2>1
<1> QED BY <1>6, <1>7

\* An accepted table play during a turn.
LEMMA TablePlayResult ==
  ASSUME TypeOK, NEW table \in SUBSET Compositions,
         NEW req \in Requests(hand[turn.playerIndex], table), NEW next \in tablePlay(table, req)
  PROVE  /\ phase = "in_progress" /\ turn.hasDrawn
         /\ ~forfeited[turn.playerIndex]
         /\ next.hand \in SUBSET Deck /\ next.hand # {}
         /\ next.table \in SUBSET Compositions
<1> DEFINE p == turn.playerIndex
<1>1. p \in Seats /\ hand[p] \in SUBSET Deck
  BY DEF TypeOK, Turns
<1>2. /\ phase = "in_progress" /\ turn.hasDrawn
      /\ ~forfeited[p]
      /\ next \in applyTablePlayState(hand[p], hasOpened[p], table, req)
  BY DEF tablePlay
<1>3. RequestOK(req)
  BY <1>1, DeckIsOK, RequestsAreOK
<1>4. /\ next.hand \in SUBSET Deck /\ next.hand # {}
      /\ next.table \in SUBSET Compositions
  BY <1>1, <1>2, <1>3, DeckIsOK, AcceptedPlayType
<1> QED BY <1>2, <1>4

\* A restored table is made of compositions of the deck's cards.
LEMMA RestoredTableType ==
  ASSUME TypeOK, NEW table \in restoredTable
  PROVE  table \in SUBSET Compositions
<1> DEFINE Restored(c) == CHOOSE d \in newComposition(c.cards, c.variant) : TRUE
<1>1. /\ \A c \in activeCompositions : newComposition(c.cards, c.variant) # {}
      /\ table = {Restored(c) : c \in activeCompositions}
  BY DEF restoredTable
<1>2. \A c \in activeCompositions : Restored(c) \in Compositions
  <2> SUFFICES ASSUME NEW c \in activeCompositions
               PROVE  Restored(c) \in Compositions
    OBVIOUS
  <2>1. c.cards \in Seq(Deck) /\ c.variant \in Variants
    BY DEF TypeOK, Compositions
  <2>2. Restored(c) \in newComposition(c.cards, c.variant)
    BY <1>1
  <2> HIDE DEF Restored
  <2> QED BY <2>1, <2>2, DeckIsOK, NewCompositionKeepsCards DEF DeckOK, Compositions
<1> HIDE DEF Restored
<1> QED BY <1>1, <1>2

\* Leaving the game: the hand goes to the draw pile, and the turn to another player.
LEMMA ForfeitResult ==
  ASSUME TypeOK, NEW p \in Seats, ForfeitPlayer(p)
  PROVE  /\ phase \in {"in_progress", "round_over"} /\ ~forfeited[p]
         /\ hand' = [hand EXCEPT ![p] = {}] /\ hand' \in [Seats -> SUBSET Deck]
         /\ pointsGained' \in [Seats -> Nat]
         /\ statistics' \in [Seats -> Counters]
         /\ forfeited' = [forfeited EXCEPT ![p] = TRUE]
         /\ forfeited' \in [Seats -> BOOLEAN]
         /\ UNCHANGED <<activeCompositions, totalPoints, hasOpened, roundVars>>
         /\ \E draw \in Seq(Deck) :
              /\ Len(draw) >= Len(drawPile) + (IF hand[p] = {} THEN 0 ELSE 1)
              /\ IF /\ Cardinality(activePlayerIndexes \ {p}) # 1
                    /\ phase = "in_progress" /\ turn.playerIndex = p
                 THEN advanceTurn(activePlayerIndexes \ {p}, draw, discardPile)
                 ELSE /\ drawPile' = draw
                      /\ UNCHANGED discardPile
                      /\ turn' = IF Cardinality(activePlayerIndexes \ {p}) = 1
                                 THEN stoppedTurn(turn) ELSE turn
         /\ IF Cardinality(activePlayerIndexes \ {p}) = 1
            THEN roundWinnerIndex' \in activePlayerIndexes \ {p} /\ phase' = "game_over"
            ELSE UNCHANGED <<roundWinnerIndex, phase>>
<1> DEFINE active == activePlayerIndexes \ {p}
           order  == 1 + Max({0} \cup {statistics[q].forfeitOrder : q \in Seats \ {p}})
           stats  == [statistics EXCEPT ![p].forfeitOrder = order]
<1>1. /\ phase \in {"in_progress", "round_over"} /\ ~forfeited[p]
      /\ hand' = [hand EXCEPT ![p] = {}]
      /\ pointsGained' = [pointsGained EXCEPT ![p] = 0]
      /\ forfeited' = [forfeited EXCEPT ![p] = TRUE]
      /\ UNCHANGED <<activeCompositions, totalPoints, hasOpened, roundVars>>
  BY DEF ForfeitPlayer
<1>2. PICK draw \in IF hand[p] = {} THEN {drawPile} ELSE Shuffle(drawPile \o SetToSeq(hand[p])) :
        IF Cardinality(active) # 1 /\ phase = "in_progress" /\ turn.playerIndex = p
        THEN advanceTurn(active, draw, discardPile)
        ELSE /\ drawPile' = draw
             /\ UNCHANGED discardPile
             /\ turn' = IF Cardinality(active) = 1 THEN stoppedTurn(turn) ELSE turn
  BY DEF ForfeitPlayer
<1>3. IF Cardinality(active) = 1
      THEN \E winner \in active :
             /\ statistics' = [q \in Seats |-> recordRoundResult(stats[q], round, q = winner)]
             /\ roundWinnerIndex' = winner
             /\ phase' = "game_over"
      ELSE /\ statistics' = stats
           /\ UNCHANGED <<roundWinnerIndex, phase>>
  BY DEF ForfeitPlayer
<1>4. draw \in Seq(Deck) /\ Len(draw) >= Len(drawPile) + (IF hand[p] = {} THEN 0 ELSE 1)
  <2>1. drawPile \in Seq(Deck) /\ hand[p] \in SUBSET Deck /\ Len(drawPile) \in Nat
    BY LenProperties DEF TypeOK
  <2>2. CASE hand[p] = {}
    BY <2>1, <2>2
  <2>3. CASE hand[p] # {}
    <3> DEFINE pile == drawPile \o SetToSeq(hand[p])
    <3>1. SetToSeq(hand[p]) \in Seq(Deck) /\ Len(SetToSeq(hand[p])) >= 1
      BY <2>1, <2>3, SetToSeqType
    <3>2. pile \in Seq(Deck) /\ Len(pile) = Len(drawPile) + Len(SetToSeq(hand[p]))
      BY <2>1, <3>1, ConcatProperties
    <3>3. Len(SetToSeq(hand[p])) \in Nat
      BY <3>1, LenProperties
    <3>4. draw \in Shuffle(pile)
      BY <2>3
    <3> HIDE DEF pile
    <3>5. draw \in Seq(Deck) /\ Len(draw) = Len(pile)
      BY <3>2, <3>4, ShuffleType
    <3> QED BY <2>1, <2>3, <3>1, <3>2, <3>3, <3>5
  <2> QED BY <2>2, <2>3
<1>5. stats \in [Seats -> Counters]
  <2>1. order \in Nat
    <3> DEFINE G(q)   == IF q \in Seats THEN statistics[q].forfeitOrder ELSE 0
               orders == {0} \cup {statistics[q].forfeitOrder : q \in Seats \ {p}}
               b      == G(0) + G(1) + G(2) + G(3)
    <3>1. \A q \in Seats : statistics[q].forfeitOrder \in Nat
      BY DEF TypeOK, Counters
    <3>2. \A q \in Nat : G(q) \in Nat
      BY <3>1
    <3>3. \A q \in Seats : q \in 0..3 /\ G(q) = statistics[q].forfeitOrder
      BY GameAssumption DEF Seats
    <3> HIDE DEF G
    <3>4. b \in Nat /\ G(0) <= b /\ G(1) <= b /\ G(2) <= b /\ G(3) <= b /\ 0 <= b
      <4>1. G(0) \in Nat /\ G(1) \in Nat /\ G(2) \in Nat /\ G(3) \in Nat
        BY <3>2
      <4> QED BY <4>1
    <3> HIDE DEF b
    <3>5. \A q \in Seats : statistics[q].forfeitOrder <= b
      <4>1. \A q \in 0..3 : q = 0 \/ q = 1 \/ q = 2 \/ q = 3
        OBVIOUS
      <4> QED BY <3>3, <3>4, <4>1
    <3>6. orders \in SUBSET Nat /\ orders # {} /\ \A x \in orders : x <= b
      BY <3>1, <3>4, <3>5
    <3> HIDE DEF orders
    <3>7. Max(orders) \in Nat
      BY <3>4, <3>6, MaxIsMember
    <3> QED BY <3>7 DEF orders
  <2> HIDE DEF order
  <2>2. statistics[p] \in Counters
    BY DEF TypeOK
  <2>3. [statistics[p] EXCEPT !.forfeitOrder = order] \in Counters
    BY <2>1, <2>2 DEF Counters
  <2>4. stats = [statistics EXCEPT ![p] = [statistics[p] EXCEPT !.forfeitOrder = order]]
    BY DEF TypeOK
  <2> QED BY <2>3, <2>4 DEF TypeOK
<1> HIDE DEF order, stats
<1>6. statistics' \in [Seats -> Counters]
  <2>1. CASE Cardinality(active) = 1
    <3>1. PICK winner \in active :
            statistics' = [q \in Seats |-> recordRoundResult(stats[q], round, q = winner)]
      BY <2>1, <1>3
    <3>2. \A q \in Seats : recordRoundResult(stats[q], round, q = winner) \in Counters
      BY <1>5, RecordType DEF TypeOK
    <3> QED BY <3>1, <3>2
  <2>2. CASE Cardinality(active) # 1
    BY <2>2, <1>3, <1>5
  <2> QED BY <2>1, <2>2
<1>7. /\ hand' \in [Seats -> SUBSET Deck]
      /\ pointsGained' \in [Seats -> Nat]
      /\ forfeited' \in [Seats -> BOOLEAN]
  BY <1>1 DEF TypeOK
<1>8. IF Cardinality(active) = 1
      THEN roundWinnerIndex' \in active /\ phase' = "game_over"
      ELSE UNCHANGED <<roundWinnerIndex, phase>>
  BY <1>3
<1> QED BY <1>1, <1>2, <1>4, <1>6, <1>7, <1>8

-----------------------------------------------------------------------------
\* The type invariant holds for a new game.
LEMMA TypeInit == Init => TypeOK
<1> SUFFICES ASSUME Init
             PROVE  TypeOK
  OBVIOUS
<1>1. GameDeck \in Seq(Deck) /\ 0 \in Seats
  BY GameAssumption DEF Seats
<1>2. drawPile \in Seq(Deck)
  BY <1>1, ShuffleType DEF Init
<1>3. turn \in Turns
  BY <1>1, NewTurnType DEF Init
<1>4. statistics \in [Seats -> Counters]
  BY DEF Init, Counters
<1>5. /\ hand \in [Seats -> SUBSET Deck]
      /\ totalPoints \in [Seats -> Nat] /\ pointsGained \in [Seats -> Nat]
      /\ hasOpened \in [Seats -> BOOLEAN] /\ forfeited \in [Seats -> BOOLEAN]
      /\ activeCompositions \subseteq Compositions
      /\ discardPile \in Seq(Deck)
      /\ phase \in Phases /\ round \in Nat \ {0} /\ dealerIndex \in Seats
      /\ roundWinnerIndex \in Seats \cup {-1} /\ gameMode \in Modes
  BY <1>1 DEF Init, Phases, Modes
<1> QED BY <1>2, <1>3, <1>4, <1>5 DEF TypeOK

\* A round that begins leaves every field with its type.
LEMMA TypeStartRound ==
  ASSUME TypeOK, NEW dealer \in Seats, NEW chooser, NEW deal \in Deals(activePlayerIndexes),
         NEW deck \in Seq(Deck), startRound(dealer, chooser, deal, deck),
         gameMode' \in Modes, round' \in Nat \ {0}
  PROVE  TypeOK'
<1>1. /\ dealerIndex' \in Seats
      /\ hand' \in [Seats -> SUBSET Deck]
      /\ hasOpened' \in [Seats -> BOOLEAN]
      /\ activeCompositions' = {}
      /\ drawPile' \in Seq(Deck) /\ discardPile' \in Seq(Deck)
      /\ forfeited' = forfeited
      /\ turn' \in Turns
      /\ \/ \E winner \in activePlayerIndexes, stats \in [Seats -> Counters] :
              finishRound(winner, hand', stats)
         \/ /\ phase' = "in_progress"
            /\ roundWinnerIndex' = -1
            /\ pointsGained' \in [Seats -> Nat]
            /\ statistics' \in [Seats -> Counters]
            /\ totalPoints' = totalPoints
  BY StartRoundResult
<1>2. /\ totalPoints' \in [Seats -> Nat] /\ pointsGained' \in [Seats -> Nat]
      /\ statistics' \in [Seats -> Counters]
      /\ roundWinnerIndex' \in Seats \cup {-1} /\ phase' \in Phases
  <2>1. CASE \E winner \in activePlayerIndexes, stats \in [Seats -> Counters] :
               finishRound(winner, hand', stats)
    <3>1. PICK winner \in activePlayerIndexes, stats \in [Seats -> Counters] :
            finishRound(winner, hand', stats)
      BY <2>1
    <3>2. winner \in Seats
      BY DEF activePlayerIndexes
    <3> QED BY <1>1, <3>1, <3>2, FinishRoundType
  <2>2. CASE /\ phase' = "in_progress"
             /\ roundWinnerIndex' = -1
             /\ pointsGained' \in [Seats -> Nat]
             /\ statistics' \in [Seats -> Counters]
             /\ totalPoints' = totalPoints
    BY <2>2 DEF TypeOK, Phases
  <2> QED BY <1>1, <2>1, <2>2
<1> QED BY <1>1, <1>2 DEF TypeOK

\* The card-handling half of a discard leaves every field with its type.
LEMMA TypeDiscard ==
  ASSUME TypeOK, NEW cards \in SUBSET Deck, NEW table \in SUBSET Compositions,
         NEW card \in cards, discardAndEndTurn(cards, table, card),
         hasOpened' \in [Seats -> BOOLEAN]
  PROVE  TypeOK'
<1>1. /\ hand' \in [Seats -> SUBSET Deck]
      /\ activeCompositions' \in SUBSET Compositions
      /\ UNCHANGED <<roundVars, forfeited>>
      /\ \/ /\ finishRound(turn.playerIndex, hand', statistics)
            /\ turn' \in Turns
            /\ drawPile' \in Seq(Deck) /\ discardPile' \in Seq(Deck)
         \/ \E pile \in Seq(Deck) :
              /\ advanceTurn(activePlayerIndexes, drawPile, pile)
              /\ UNCHANGED scoreVars
  BY DiscardResult
<1>2. /\ round' \in Nat \ {0} /\ dealerIndex' \in Seats /\ gameMode' \in Modes
      /\ forfeited' \in [Seats -> BOOLEAN]
  BY <1>1 DEF TypeOK, roundVars
<1>3. /\ totalPoints' \in [Seats -> Nat] /\ pointsGained' \in [Seats -> Nat]
      /\ statistics' \in [Seats -> Counters]
      /\ roundWinnerIndex' \in Seats \cup {-1} /\ phase' \in Phases
      /\ turn' \in Turns /\ drawPile' \in Seq(Deck) /\ discardPile' \in Seq(Deck)
  <2>1. CASE /\ finishRound(turn.playerIndex, hand', statistics)
             /\ turn' \in Turns
             /\ drawPile' \in Seq(Deck) /\ discardPile' \in Seq(Deck)
    <3>1. turn.playerIndex \in Seats /\ statistics \in [Seats -> Counters]
      BY DEF TypeOK, Turns
    <3> QED BY <1>1, <2>1, <3>1, FinishRoundType
  <2>2. CASE \E pile \in Seq(Deck) :
               /\ advanceTurn(activePlayerIndexes, drawPile, pile)
               /\ UNCHANGED scoreVars
    <3>1. PICK pile \in Seq(Deck) :
            advanceTurn(activePlayerIndexes, drawPile, pile) /\ UNCHANGED scoreVars
      BY <2>2
    <3>2. activePlayerIndexes \in SUBSET Seats /\ drawPile \in Seq(Deck)
      BY DEF activePlayerIndexes, TypeOK
    <3>3. turn' \in Turns /\ drawPile' \in Seq(Deck) /\ discardPile' \in Seq(Deck)
      BY <3>1, <3>2, AdvanceTurnResult
    <3> QED BY <3>1, <3>3 DEF scoreVars, TypeOK
  <2> QED BY <1>1, <2>1, <2>2
<1> QED BY <1>1, <1>2, <1>3 DEF TypeOK

\* Both ways a round starts are startRound, with a full deck the second time.
LEMMA StartStep ==
  ASSUME TypeOK,
         \/ \E dealer, chooser \in Seats, deal \in Deals(activePlayerIndexes), mode \in Modes :
              StartGameWithMode(dealer, chooser, deal, mode)
         \/ \E deal \in Deals(activePlayerIndexes), deck \in Shuffle(GameDeck) :
              StartNextRound(deal, deck)
  PROVE  /\ gameMode' \in Modes /\ round' \in Nat \ {0}
         /\ \E dealer, chooser \in Seats, deal \in Deals(activePlayerIndexes), deck \in Seq(Deck) :
              /\ startRound(dealer, chooser, deal, deck)
              /\ \/ phase = "lobby" /\ deck = drawPile
                 \/ /\ phase = "round_over" /\ Len(deck) = Len(GameDeck)
                    /\ gameMode' = gameMode
<1>1. CASE \E dealer, chooser \in Seats, deal \in Deals(activePlayerIndexes), mode \in Modes :
             StartGameWithMode(dealer, chooser, deal, mode)
  <2>1. PICK dealer \in Seats, chooser \in Seats, deal \in Deals(activePlayerIndexes),
             mode \in Modes : StartGameWithMode(dealer, chooser, deal, mode)
    BY <1>1
  <2>2. /\ phase = "lobby" /\ startRound(dealer, chooser, deal, drawPile)
        /\ gameMode' = mode /\ round' = round
    BY <2>1 DEF StartGameWithMode
  <2> QED BY <2>2 DEF TypeOK
<1>2. CASE \E deal \in Deals(activePlayerIndexes), deck \in Shuffle(GameDeck) :
             StartNextRound(deal, deck)
  <2>1. PICK deal \in Deals(activePlayerIndexes), deck \in Shuffle(GameDeck) :
          StartNextRound(deal, deck)
    BY <1>2
  <2> DEFINE dealer  == nextActivePlayerIndex(activePlayerIndexes, dealerIndex)
             chooser == previousActivePlayerIndex(activePlayerIndexes, dealer)
  <2>2. /\ phase = "round_over" /\ startRound(dealer, chooser, deal, deck)
        /\ gameMode' = gameMode /\ round' = round + 1
    BY <2>1 DEF StartNextRound
  <2>3. deck \in Seq(Deck) /\ Len(deck) = Len(GameDeck)
    BY ShuffleType, GameAssumption
  <2>4. dealer \in Seats /\ chooser \in Seats
    <3>1. activePlayerIndexes \in SUBSET Seats /\ dealerIndex \in Seats
      BY DEF TypeOK, activePlayerIndexes
    <3>2. dealer \in Seats
      BY <3>1, NextIsActive
    <3> QED BY <3>1, <3>2, PreviousIsActive
  <2> HIDE DEF dealer, chooser
  <2>5. gameMode' \in Modes /\ round' \in Nat \ {0}
    BY <2>2 DEF TypeOK
  <2> QED BY <2>2, <2>3, <2>4, <2>5
<1> QED BY <1>1, <1>2

\* The type invariant is inductive by itself.
LEMMA TypeNext == TypeOK /\ [Next]_vars => TypeOK'
<1> SUFFICES ASSUME TypeOK, [Next]_vars
             PROVE  TypeOK'
  OBVIOUS
<1>1. CASE \/ \E dealer, chooser \in Seats, deal \in Deals(activePlayerIndexes), mode \in Modes :
                StartGameWithMode(dealer, chooser, deal, mode)
           \/ \E deal \in Deals(activePlayerIndexes), deck \in Shuffle(GameDeck) :
                StartNextRound(deal, deck)
  <2>1. /\ gameMode' \in Modes /\ round' \in Nat \ {0}
        /\ \E dealer, chooser \in Seats, deal \in Deals(activePlayerIndexes), deck \in Seq(Deck) :
             startRound(dealer, chooser, deal, deck)
    BY <1>1, StartStep
  <2> QED BY <2>1, TypeStartRound
<1>2. CASE DrawFromDeck
  <2> DEFINE piles == recycleDiscardIntoDrawPileIfNeeded(drawPile, discardPile)
             p     == turn.playerIndex
  <2>1. /\ piles.draw # <<>>
        /\ hand' = [hand EXCEPT ![p] = @ \cup {Head(piles.draw)}]
        /\ drawPile' = Tail(piles.draw)
        /\ discardPile' = piles.discard
        /\ turn' = [newTurn(turn.number, p) EXCEPT !.hasDrawn = TRUE]
        /\ UNCHANGED <<activeCompositions, scoreVars, roundVars, hasOpened, forfeited>>
    BY <1>2 DEF DrawFromDeck
  <2>2. drawPile \in Seq(Deck) /\ discardPile \in Seq(Deck) /\ p \in Seats /\ turn.number \in Nat
    BY DEF TypeOK, Turns
  <2>3. piles.draw \in Seq(Deck) /\ piles.discard \in Seq(Deck)
    BY <2>2, RecycleType
  <2> HIDE DEF piles
  <2>4. Head(piles.draw) \in Deck /\ Tail(piles.draw) \in Seq(Deck)
    BY <2>1, <2>3, HeadTailProperties
  <2>5. turn' \in Turns
    <3>1. newTurn(turn.number, p) \in Turns
      BY <2>2, NewTurnType
    <3>2. [newTurn(turn.number, p) EXCEPT !.hasDrawn = TRUE] \in Turns
      BY <3>1 DEF Turns
    <3> QED BY <2>1, <3>2
  <2>6. hand' \in [Seats -> SUBSET Deck]
    BY <2>1, <2>4 DEF TypeOK
  <2> QED BY <2>1, <2>3, <2>4, <2>5, <2>6 DEF TypeOK, scoreVars, roundVars
<1>3. CASE DrawFromDiscard
  <2>1. Head(discardPile) \in Deck /\ Tail(discardPile) \in Seq(Deck)
    BY <1>3, HeadTailProperties DEF DrawFromDiscard, TypeOK
  <2>2. hand' \in [Seats -> SUBSET Deck]
    BY <1>3, <2>1 DEF DrawFromDiscard, TypeOK
  <2>3. turn' \in Turns
    BY <1>3, <2>1 DEF DrawFromDiscard, TypeOK, Turns
  <2>4. /\ discardPile' = Tail(discardPile)
        /\ UNCHANGED <<activeCompositions, drawPile, scoreVars, roundVars, hasOpened, forfeited>>
    BY <1>3 DEF DrawFromDiscard
  <2> QED BY <2>1, <2>2, <2>3, <2>4 DEF TypeOK, scoreVars, roundVars
<1>4. CASE \E req \in Requests(hand[turn.playerIndex], activeCompositions) : PlayTable(req)
  <2>0. PICK req \in Requests(hand[turn.playerIndex], activeCompositions) : PlayTable(req)
    BY <1>4
  <2>1. PICK next \in tablePlay(activeCompositions, req) :
          /\ hand' = [hand EXCEPT ![turn.playerIndex] = next.hand]
          /\ activeCompositions' = next.table
          /\ hasOpened' = [hasOpened EXCEPT ![turn.playerIndex] = TRUE]
          /\ turn' = [turn EXCEPT !.mustUseDiscardDraw = FALSE]
          /\ UNCHANGED <<drawPile, discardPile, scoreVars, roundVars, forfeited>>
    BY <2>0 DEF PlayTable
  <2>2. activeCompositions \in SUBSET Compositions
    BY DEF TypeOK
  <2>3. next.hand \in SUBSET Deck /\ next.table \in SUBSET Compositions
    BY <2>2, TablePlayResult
  <2>4. turn' \in Turns
    BY <2>1 DEF TypeOK, Turns
  <2>5. hand' \in [Seats -> SUBSET Deck] /\ hasOpened' \in [Seats -> BOOLEAN]
    BY <2>1, <2>3 DEF TypeOK
  <2> QED BY <2>1, <2>3, <2>4, <2>5 DEF TypeOK, scoreVars, roundVars
<1>5. CASE \E table \in restoredTable :
             \E req \in Requests(hand[turn.playerIndex], table) : PlayTableAndDiscard(table, req)
  <2>1. PICK table \in restoredTable : \E req \in Requests(hand[turn.playerIndex], table) :
          PlayTableAndDiscard(table, req)
    BY <1>5
  <2>2. PICK req \in Requests(hand[turn.playerIndex], table) : PlayTableAndDiscard(table, req)
    BY <2>1
  <2>3. PICK next \in tablePlay(table, req) :
          /\ \E card \in next.hand : discardAndEndTurn(next.hand, next.table, card)
          /\ hasOpened' = [hasOpened EXCEPT ![turn.playerIndex] = TRUE]
    BY <2>2 DEF PlayTableAndDiscard
  <2>4. next.hand \in SUBSET Deck /\ next.table \in SUBSET Compositions
    BY RestoredTableType, TablePlayResult
  <2>5. hasOpened' \in [Seats -> BOOLEAN]
    BY <2>3 DEF TypeOK
  <2> QED BY <2>3, <2>4, <2>5, TypeDiscard
<1>6. CASE \E card \in hand[turn.playerIndex] : DiscardFromHand(card)
  <2>1. PICK card \in hand[turn.playerIndex] : DiscardFromHand(card)
    BY <1>6
  <2>2. /\ discardAndEndTurn(hand[turn.playerIndex], activeCompositions, card)
        /\ hasOpened' = hasOpened
    BY <2>1 DEF DiscardFromHand
  <2>3. /\ hand[turn.playerIndex] \in SUBSET Deck /\ activeCompositions \in SUBSET Compositions
        /\ hasOpened' \in [Seats -> BOOLEAN]
    BY <2>2 DEF TypeOK, Turns
  <2> QED BY <2>2, <2>3, TypeDiscard
<1>7. CASE \E p \in Seats : ForfeitPlayer(p)
  <2>1. PICK p \in Seats : ForfeitPlayer(p)
    BY <1>7
  <2>2. /\ hand' \in [Seats -> SUBSET Deck]
        /\ pointsGained' \in [Seats -> Nat] /\ statistics' \in [Seats -> Counters]
        /\ forfeited' \in [Seats -> BOOLEAN]
        /\ UNCHANGED <<activeCompositions, totalPoints, hasOpened, roundVars>>
    BY <2>1, ForfeitResult
  <2>3. /\ roundWinnerIndex' \in activePlayerIndexes \ {p} /\ phase' = "game_over"
        \/ UNCHANGED <<roundWinnerIndex, phase>>
    BY <2>1, ForfeitResult
  <2>4. turn' \in Turns /\ drawPile' \in Seq(Deck) /\ discardPile' \in Seq(Deck)
    <3>1. PICK draw \in Seq(Deck) :
            /\ Len(draw) >= Len(drawPile) + (IF hand[p] = {} THEN 0 ELSE 1)
            /\ IF /\ Cardinality(activePlayerIndexes \ {p}) # 1
                  /\ phase = "in_progress" /\ turn.playerIndex = p
               THEN advanceTurn(activePlayerIndexes \ {p}, draw, discardPile)
               ELSE /\ drawPile' = draw
                    /\ UNCHANGED discardPile
                    /\ turn' = IF Cardinality(activePlayerIndexes \ {p}) = 1
                               THEN stoppedTurn(turn) ELSE turn
      BY <2>1, ForfeitResult, Zenon
    <3>2. activePlayerIndexes \ {p} \in SUBSET Seats /\ discardPile \in Seq(Deck) /\ turn \in Turns
      BY DEF activePlayerIndexes, TypeOK
    <3> QED BY <3>1, <3>2, AdvanceTurnResult, StoppedTurnType
  <2>5. roundWinnerIndex' \in Seats \cup {-1} /\ phase' \in Phases
    BY <2>3 DEF TypeOK, Phases, activePlayerIndexes
  <2> QED BY <2>2, <2>4, <2>5 DEF TypeOK, roundVars
<1>8. CASE EndWithoutWinner
  <2>1. /\ phase' = "game_over" /\ roundWinnerIndex' = -1 /\ turn' = stoppedTurn(turn)
        /\ UNCHANGED <<cardVars, totalPoints, pointsGained, statistics, roundVars, hasOpened,
                       forfeited>>
    BY <1>8 DEF EndWithoutWinner
  <2> QED BY <2>1, StoppedTurnType DEF TypeOK, cardVars, roundVars, Phases
<1>9. CASE UNCHANGED vars
  BY <1>9 DEF TypeOK, vars, cardVars, scoreVars, roundVars
<1> QED BY <1>1, <1>2, <1>3, <1>4, <1>5, <1>6, <1>7, <1>8, <1>9 DEF Next

\* Every field of GameState keeps its type for all numbers of players, decks, hand
\* sizes and limits: hands and compositions hold only cards of the deck, the turn and
\* the dealer are seats, points and counters never become negative.
THEOREM TypeCorrect == Spec => []TypeOK
<1>1. Init => TypeOK
  BY TypeInit
<1>2. TypeOK /\ [Next]_vars => TypeOK'
  BY TypeNext
<1> QED BY <1>1, <1>2, PTL DEF Spec

-----------------------------------------------------------------------------
(***************************************************************************)
(* Turns, piles and scores: whoever has the turn can play it, and the      *)
(* points of a game are fair, for every value of the constants.            *)
(***************************************************************************)

-----------------------------------------------------------------------------
(***************************************************************************)
(* The inductive invariant.  DrawNeverBlocks by itself says nothing of the *)
(* player's turn after the draw, when both piles may be almost empty: what *)
(* keeps the next player supplied is that a card is left on one of them.   *)
(***************************************************************************)
LobbyOK ==
  phase = "lobby" => Len(drawPile) = Len(GameDeck) /\ \A p \in Seats : totalPoints[p] = 0

PilesOK ==
  phase = "in_progress" =>
    /\ Len(drawPile) + Len(discardPile) >= 1
    /\ ~turn.hasDrawn => Len(drawPile) >= 1 /\ Len(drawPile) + Len(discardPile) >= 2

\* A quick game is one round: nobody has points before it ends.
QuickOK ==
  gameMode = "quick" /\ phase # "game_over" =>
    phase # "round_over" /\ \A p \in Seats : totalPoints[p] = 0

TurnInv == LobbyOK /\ PilesOK /\ TurnIsPlayable

ScoreInv == QuickOK /\ NobodyPlaysAboveLimit /\ WinnerHasFewestPoints

Inv == TypeOK /\ TurnInv /\ ScoreInv

-----------------------------------------------------------------------------
\* Whoever plays, the deck has a card to turn up and one to draw beyond the hands.
LEMMA DeckCovers ==
  ASSUME NEW A \in SUBSET Seats
  PROVE  Len(GameDeck) - InitialHandSize * Cardinality(A) - 1 >= 1
<1> DEFINE N == Cardinality(A)
<1>1. N \in 0..NumPlayers /\ NumPlayers \in 2..4 /\ InitialHandSize \in Nat /\ Len(GameDeck) \in Nat
  BY SeatCount, GameAssumption, LenProperties
<1> HIDE DEF N
<1>2. InitialHandSize * N <= InitialHandSize * NumPlayers
  <2>1. N = 0 \/ N = 1 \/ N = 2 \/ N = 3 \/ N = 4
    BY <1>1
  <2>2. NumPlayers = 2 \/ NumPlayers = 3 \/ NumPlayers = 4
    BY <1>1
  <2>3. CASE NumPlayers = 2
    BY <1>1, <2>1, <2>3
  <2>4. CASE NumPlayers = 3
    BY <1>1, <2>1, <2>4
  <2>5. CASE NumPlayers = 4
    BY <1>1, <2>1, <2>5
  <2> QED BY <2>2, <2>3, <2>4, <2>5
<1>3. InitialHandSize * N \in Nat /\ InitialHandSize * NumPlayers \in Nat
  <2>1. N = 0 \/ N = 1 \/ N = 2 \/ N = 3 \/ N = 4
    BY <1>1
  <2> QED BY <1>1, <2>1
<1>4. Len(GameDeck) - InitialHandSize * N - 1 >= 1
  BY <1>1, <1>2, <1>3, DeckIsLargeEnough
<1> QED BY <1>4 DEF N

\* finishRound ends the round or the game.
LEMMA FinishRoundEnds ==
  ASSUME NEW winner, NEW hands, NEW stats, finishRound(winner, hands, stats)
  PROVE  phase' \in {"game_over", "round_over"}
BY DEF finishRound

\* The players in the game change only by forfeiting.
LEMMA SameActive ==
  ASSUME forfeited' = forfeited
  PROVE  activePlayerIndexes' = activePlayerIndexes
BY DEF activePlayerIndexes

\* A discard leaves the next player a card to draw.
LEMMA TurnDiscard ==
  ASSUME TypeOK, TurnInv, phase = "in_progress",
         NEW cards \in SUBSET Deck, NEW table \in SUBSET Compositions,
         NEW card \in cards, discardAndEndTurn(cards, table, card)
  PROVE  TurnInv'
<1> DEFINE p == turn.playerIndex
<1>1. /\ hand' = [hand EXCEPT ![p] = cards \ {card}]
      /\ UNCHANGED <<roundVars, forfeited>>
      /\ \/ finishRound(p, hand', statistics)
         \/ \E pile \in Seq(Deck) :
              /\ Len(pile) >= Len(discardPile) + 1
              /\ cards \ {card} # {}
              /\ advanceTurn(activePlayerIndexes, drawPile, pile)
              /\ UNCHANGED scoreVars
  BY DiscardResult
<1>2. CASE finishRound(p, hand', statistics)
  <2>1. phase' \in {"game_over", "round_over"}
    BY <1>2, FinishRoundEnds
  <2> QED BY <2>1 DEF TurnInv, LobbyOK, PilesOK, TurnIsPlayable
<1>3. CASE \E pile \in Seq(Deck) :
             /\ Len(pile) >= Len(discardPile) + 1
             /\ cards \ {card} # {}
             /\ advanceTurn(activePlayerIndexes, drawPile, pile)
             /\ UNCHANGED scoreVars
  <2>1. PICK pile \in Seq(Deck) :
          /\ Len(pile) >= Len(discardPile) + 1
          /\ cards \ {card} # {}
          /\ advanceTurn(activePlayerIndexes, drawPile, pile)
          /\ UNCHANGED scoreVars
    BY <1>3
  <2>2. /\ activePlayerIndexes \in SUBSET Seats /\ activePlayerIndexes # {}
        /\ drawPile \in Seq(Deck) /\ p \in activePlayerIndexes
    BY DEF TurnInv, TurnIsPlayable, activePlayerIndexes, TypeOK, Turns
  <2>3. /\ turn'.playerIndex \in activePlayerIndexes /\ turn'.hasDrawn = FALSE
        /\ drawPile # <<>> \/ Len(pile) <= 1 => drawPile' = drawPile /\ discardPile' = pile
        /\ drawPile = <<>> /\ Len(pile) > 1 =>
             Len(drawPile') = Len(pile) - 1 /\ Len(discardPile') = 1
    BY <2>1, <2>2, AdvanceTurnResult
  <2>4. /\ Len(drawPile) \in Nat /\ Len(discardPile) \in Nat /\ Len(pile) \in Nat
        /\ drawPile = <<>> <=> Len(drawPile) = 0
    BY <2>2, LenProperties, EmptySeq DEF TypeOK
  <2>5. Len(drawPile') >= 1 /\ Len(drawPile') + Len(discardPile') >= 2
    <3>1. Len(drawPile) + Len(discardPile) >= 1
      BY DEF TurnInv, PilesOK
    <3>2. CASE drawPile # <<>>
      <4>1. Len(drawPile') = Len(drawPile) /\ Len(discardPile') = Len(pile)
        BY <2>3, <3>2
      <4>2. Len(drawPile) >= 1 /\ Len(pile) >= 1
        BY <2>1, <2>4, <3>2
      <4> QED BY <2>4, <4>1, <4>2
    <3>3. CASE drawPile = <<>>
      <4>1. Len(pile) > 1
        BY <2>1, <2>4, <3>1, <3>3
      <4>2. Len(drawPile') = Len(pile) - 1 /\ Len(discardPile') = 1
        BY <2>3, <3>3, <4>1
      <4> QED BY <2>4, <4>1, <4>2
    <3> QED BY <3>2, <3>3
  <2>6. phase' = phase /\ activePlayerIndexes' = activePlayerIndexes /\ forfeited' = forfeited
    BY <1>1, <2>1, SameActive DEF scoreVars
  <2>7. \A q \in activePlayerIndexes : hand'[q] # {}
    BY <1>1, <2>1, <2>2 DEF TurnInv, TurnIsPlayable, TypeOK
  <2>8. ~forfeited'[turn'.playerIndex] /\ Cardinality(activePlayerIndexes') >= 2
    BY <2>3, <2>6 DEF activePlayerIndexes, TurnInv, TurnIsPlayable
  <2>9. PilesOK'
    BY <2>4, <2>5 DEF PilesOK
  <2> QED BY <2>6, <2>7, <2>8, <2>9 DEF TurnInv, LobbyOK, TurnIsPlayable
<1> QED BY <1>1, <1>2, <1>3

\* The first turn of a round.
LEMMA TurnStart ==
  ASSUME TypeOK, TurnInv,
         \/ \E dealer, chooser \in Seats, deal \in Deals(activePlayerIndexes), mode \in Modes :
              StartGameWithMode(dealer, chooser, deal, mode)
         \/ \E deal \in Deals(activePlayerIndexes), deck \in Shuffle(GameDeck) :
              StartNextRound(deal, deck)
  PROVE  TurnInv'
<1>1. PICK dealer \in Seats, chooser \in Seats, deal \in Deals(activePlayerIndexes),
           deck \in Seq(Deck) :
        /\ startRound(dealer, chooser, deal, deck)
        /\ \/ phase = "lobby" /\ deck = drawPile
           \/ phase = "round_over" /\ Len(deck) = Len(GameDeck)
  BY StartStep
<1>2. Len(deck) = Len(GameDeck)
  BY <1>1 DEF TurnInv, LobbyOK
<1> DEFINE required == InitialHandSize * Cardinality(activePlayerIndexes)
<1>3. /\ Cardinality(activePlayerIndexes) >= 2
      /\ \A p \in activePlayerIndexes : hand'[p] # {}
      /\ Len(drawPile') = Len(deck) - required - 1
      /\ Len(discardPile') = 1
      /\ forfeited' = forfeited
      /\ \/ \E winner \in activePlayerIndexes, stats \in [Seats -> Counters] :
              finishRound(winner, hand', stats)
         \/ phase' = "in_progress" /\ turn'.playerIndex \in activePlayerIndexes
  BY <1>1, StartRoundResult
<1>4. Len(drawPile') >= 1 /\ Len(drawPile') + Len(discardPile') >= 2 /\ Len(drawPile') \in Int
  <2>1. Len(GameDeck) - required - 1 >= 1
    BY DeckCovers DEF activePlayerIndexes
  <2>2. drawPile' \in Seq(Deck)
    BY <1>1, StartRoundResult
  <2>3. Len(drawPile') \in Nat
    BY <2>2, LenProperties
  <2>4. Len(drawPile') >= 1
    BY <1>2, <1>3, <2>1
  <2> QED BY <1>3, <2>3, <2>4
<1> HIDE DEF required
<1>5. activePlayerIndexes' = activePlayerIndexes
  BY <1>3, SameActive
<1>6. CASE \E winner \in activePlayerIndexes, stats \in [Seats -> Counters] :
             finishRound(winner, hand', stats)
  <2>1. phase' \in {"game_over", "round_over"}
    BY <1>6, FinishRoundEnds
  <2> QED BY <2>1 DEF TurnInv, LobbyOK, PilesOK, TurnIsPlayable
<1>7. CASE phase' = "in_progress" /\ turn'.playerIndex \in activePlayerIndexes
  <2>1. PilesOK'
    BY <1>3, <1>4 DEF PilesOK
  <2>2. TurnIsPlayable'
    BY <1>3, <1>5, <1>7 DEF TurnIsPlayable, activePlayerIndexes
  <2> QED BY <1>7, <2>1, <2>2 DEF TurnInv, LobbyOK
<1> QED BY <1>3, <1>6, <1>7

\* Leaving the game passes the turn to somebody who can play it.
LEMMA TurnForfeit ==
  ASSUME TypeOK, TurnInv, NEW p \in Seats, ForfeitPlayer(p)
  PROVE  TurnInv'
<1> DEFINE active == activePlayerIndexes
           rest   == activePlayerIndexes \ {p}
<1>1. /\ phase \in {"in_progress", "round_over"} /\ ~forfeited[p]
      /\ hand' = [hand EXCEPT ![p] = {}]
      /\ forfeited' = [forfeited EXCEPT ![p] = TRUE]
      /\ IF Cardinality(rest) = 1 THEN phase' = "game_over" ELSE phase' = phase
  BY ForfeitResult
<1>2. phase' # "lobby"
  BY <1>1
<1>3. CASE phase' # "in_progress"
  BY <1>2, <1>3 DEF TurnInv, LobbyOK, PilesOK, TurnIsPlayable
<1>4. CASE phase' = "in_progress"
  <2>1. phase = "in_progress" /\ Cardinality(rest) # 1
    BY <1>1, <1>4
  <2>2. /\ active \in SUBSET Seats /\ rest \in SUBSET Seats /\ p \in active
        /\ Cardinality(active) >= 2
        /\ ~forfeited[turn.playerIndex] /\ turn.playerIndex \in Seats /\ turn \in Turns
        /\ hand[p] # {}
    BY <1>1, <2>1 DEF activePlayerIndexes, TurnInv, TurnIsPlayable, TypeOK, Turns
  <2>3. IsFiniteSet(active) /\ Cardinality(active) \in Nat /\ Cardinality(rest) \in Nat
    <3>1. \A B \in SUBSET Seats : IsFiniteSet(B) /\ Cardinality(B) \in 0..NumPlayers
      BY SeatCount
    <3> QED BY <2>2, <3>1
  <2>4. Cardinality(rest) >= 2 /\ rest # {}
    <3>1. Cardinality(rest) = Cardinality(active) - 1
      BY <2>2, <2>3, FS_RemoveElement
    <3>2. Cardinality(rest) >= 2
      BY <2>1, <2>2, <2>3, <3>1
    <3>3. Cardinality({}) = 0
      BY FS_EmptySet
    <3> QED BY <3>2, <3>3
  <2>5. activePlayerIndexes' = rest
    BY <1>1, <2>2 DEF activePlayerIndexes, TypeOK
  <2>6. \A q \in rest : hand'[q] # {}
    BY <1>1, <2>1, <2>2 DEF TurnInv, TurnIsPlayable, TypeOK
  <2>7. PICK draw \in Seq(Deck) :
          /\ Len(draw) >= Len(drawPile) + (IF hand[p] = {} THEN 0 ELSE 1)
          /\ IF /\ Cardinality(activePlayerIndexes \ {p}) # 1
                /\ phase = "in_progress" /\ turn.playerIndex = p
             THEN advanceTurn(activePlayerIndexes \ {p}, draw, discardPile)
             ELSE /\ drawPile' = draw
                  /\ UNCHANGED discardPile
                  /\ turn' = IF Cardinality(activePlayerIndexes \ {p}) = 1
                             THEN stoppedTurn(turn) ELSE turn
    BY ForfeitResult, Zenon
  <2>8. /\ Len(draw) \in Nat /\ Len(drawPile) \in Nat /\ Len(discardPile) \in Nat
        /\ Len(draw) >= Len(drawPile) + 1 /\ draw # <<>> /\ discardPile \in Seq(Deck)
    <3>1. Len(draw) \in Nat /\ Len(drawPile) \in Nat /\ Len(discardPile) \in Nat
          /\ discardPile \in Seq(Deck)
      BY LenProperties DEF TypeOK
    <3>2. Len(draw) >= Len(drawPile) + 1
      BY <2>2, <2>7
    <3> QED BY <3>1, <3>2
  <2>9. /\ drawPile' = draw /\ discardPile' = discardPile
        /\ turn'.playerIndex \in rest
        /\ turn'.hasDrawn = turn.hasDrawn \/ turn'.hasDrawn = FALSE
        /\ turn'.hasDrawn \in BOOLEAN
    <3>1. CASE turn.playerIndex = p
      <4>1. advanceTurn(rest, draw, discardPile)
        BY <2>1, <2>7, <3>1
      <4>2. /\ turn'.hasDrawn = FALSE
            /\ rest # {} => turn'.playerIndex \in rest
            /\ draw # <<>> \/ Len(discardPile) <= 1 =>
                 drawPile' = draw /\ discardPile' = discardPile
        BY <2>2, <2>8, <4>1, AdvanceTurnResult
      <4> QED BY <2>4, <2>8, <4>2
    <3>2. CASE turn.playerIndex # p
      BY <2>1, <2>2, <2>7, <3>2 DEF activePlayerIndexes, Turns
    <3> QED BY <3>1, <3>2
  <2>10. PilesOK'
    <3>1. /\ Len(drawPile) + Len(discardPile) >= 1
          /\ ~turn.hasDrawn => Len(drawPile) >= 1 /\ Len(drawPile) + Len(discardPile) >= 2
      BY <2>1 DEF TurnInv, PilesOK
    <3>2. Len(drawPile') >= 1 /\ Len(drawPile') + Len(discardPile') >= 2
      BY <2>8, <2>9, <3>1
    <3>3. Len(drawPile') + Len(discardPile') >= 1
      BY <2>8, <2>9, <3>2
    <3> QED BY <3>2, <3>3 DEF PilesOK
  <2>11. ~forfeited'[turn'.playerIndex]
    BY <2>5, <2>9 DEF activePlayerIndexes
  <2> QED BY <1>2, <2>4, <2>5, <2>6, <2>10, <2>11 DEF TurnInv, LobbyOK, TurnIsPlayable
<1> QED BY <1>3, <1>4

\* Every step keeps turns and piles playable.
LEMMA TurnNext == TypeOK /\ TurnInv /\ [Next]_vars => TurnInv'
<1> SUFFICES ASSUME TypeOK, TurnInv, [Next]_vars
             PROVE  TurnInv'
  OBVIOUS
<1> DEFINE p == turn.playerIndex
<1>0. p \in Seats /\ turn \in Turns /\ hand[p] \in SUBSET Deck
  BY DEF TypeOK, Turns
<1>1. CASE \/ \E dealer, chooser \in Seats, deal \in Deals(activePlayerIndexes), mode \in Modes :
                StartGameWithMode(dealer, chooser, deal, mode)
           \/ \E deal \in Deals(activePlayerIndexes), deck \in Shuffle(GameDeck) :
                StartNextRound(deal, deck)
  BY <1>1, TurnStart
<1>2. CASE DrawFromDeck
  <2> DEFINE piles == recycleDiscardIntoDrawPileIfNeeded(drawPile, discardPile)
  <2>1. /\ phase = "in_progress" /\ ~turn.hasDrawn
        /\ hand' = [hand EXCEPT ![p] = @ \cup {Head(piles.draw)}]
        /\ drawPile' = Tail(piles.draw)
        /\ discardPile' = piles.discard
        /\ turn' = [newTurn(turn.number, p) EXCEPT !.hasDrawn = TRUE]
        /\ UNCHANGED <<activeCompositions, scoreVars, roundVars, hasOpened, forfeited>>
    BY <1>2 DEF DrawFromDeck
  <2>2. /\ drawPile \in Seq(Deck) /\ discardPile \in Seq(Deck)
        /\ Len(drawPile) \in Nat /\ Len(discardPile) \in Nat
    BY LenProperties DEF TypeOK
  <2>3. Len(drawPile) >= 1 /\ Len(drawPile) + Len(discardPile) >= 2 /\ drawPile # <<>>
    BY <2>1, <2>2, EmptySeq DEF TurnInv, PilesOK
  <2>4. piles.draw = drawPile /\ piles.discard = discardPile
    BY <2>2, <2>3, RecycleType
  <2> HIDE DEF piles
  <2>5. Len(drawPile') = Len(drawPile) - 1 /\ discardPile' = discardPile
    BY <2>1, <2>2, <2>3, <2>4, HeadTailProperties
  <2>6. turn'.hasDrawn = TRUE /\ turn'.playerIndex = p
    BY <2>1 DEF newTurn
  <2>7. PilesOK'
    BY <2>2, <2>3, <2>5, <2>6 DEF PilesOK
  <2>8. \A q \in Seats : hand[q] # {} => hand'[q] # {}
    BY <2>1 DEF TypeOK
  <2>9. activePlayerIndexes' = activePlayerIndexes /\ forfeited' = forfeited /\ phase' = phase
    BY <2>1, SameActive DEF scoreVars
  <2>10. TurnIsPlayable'
    BY <2>1, <2>6, <2>8, <2>9 DEF TurnInv, TurnIsPlayable, activePlayerIndexes
  <2> QED BY <2>1, <2>7, <2>9, <2>10 DEF TurnInv, LobbyOK
<1>3. CASE DrawFromDiscard
  <2>1. /\ phase = "in_progress" /\ ~turn.hasDrawn /\ discardPile # <<>>
        /\ hand' = [hand EXCEPT ![p] = @ \cup {Head(discardPile)}]
        /\ discardPile' = Tail(discardPile)
        /\ turn' = [turn EXCEPT !.hasDrawn = TRUE, !.mustUseDiscardDraw = TRUE,
                                !.discardDrawCard = Head(discardPile)]
        /\ UNCHANGED <<activeCompositions, drawPile, scoreVars, roundVars, hasOpened, forfeited>>
    BY <1>3 DEF DrawFromDiscard
  <2>2. /\ Len(drawPile) \in Nat /\ Len(Tail(discardPile)) \in Nat
    BY <2>1, LenProperties, HeadTailProperties DEF TypeOK
  <2>3. Len(drawPile) >= 1
    BY <2>1 DEF TurnInv, PilesOK
  <2>4. turn'.hasDrawn = TRUE /\ turn'.playerIndex = p
    BY <1>0, <2>1 DEF Turns
  <2>5. PilesOK'
    BY <2>1, <2>2, <2>3, <2>4 DEF PilesOK
  <2>6. \A q \in Seats : hand[q] # {} => hand'[q] # {}
    BY <2>1 DEF TypeOK
  <2>7. activePlayerIndexes' = activePlayerIndexes /\ forfeited' = forfeited /\ phase' = phase
    BY <2>1, SameActive DEF scoreVars
  <2>8. TurnIsPlayable'
    BY <2>1, <2>4, <2>6, <2>7 DEF TurnInv, TurnIsPlayable, activePlayerIndexes
  <2> QED BY <2>1, <2>5, <2>7, <2>8 DEF TurnInv, LobbyOK
<1>4. CASE \E req \in Requests(hand[turn.playerIndex], activeCompositions) : PlayTable(req)
  <2>1. PICK req \in Requests(hand[p], activeCompositions) : PlayTable(req)
    BY <1>4
  <2>2. PICK next \in tablePlay(activeCompositions, req) :
          /\ hand' = [hand EXCEPT ![p] = next.hand]
          /\ turn' = [turn EXCEPT !.mustUseDiscardDraw = FALSE]
          /\ UNCHANGED <<drawPile, discardPile, scoreVars, roundVars, forfeited>>
    BY <2>1 DEF PlayTable
  <2>3. next.hand # {} /\ phase = "in_progress"
    BY TablePlayResult DEF TypeOK
  <2>4. turn'.hasDrawn = turn.hasDrawn /\ turn'.playerIndex = p
    BY <1>0, <2>2 DEF Turns
  <2>5. activePlayerIndexes' = activePlayerIndexes /\ forfeited' = forfeited /\ phase' = phase
    BY <2>2, SameActive DEF scoreVars
  <2>6. PilesOK'
    BY <2>2, <2>4, <2>5 DEF TurnInv, PilesOK
  <2>7. \A q \in Seats : hand[q] # {} => hand'[q] # {}
    BY <2>2, <2>3 DEF TypeOK
  <2>8. TurnIsPlayable'
    BY <2>3, <2>4, <2>5, <2>7 DEF TurnInv, TurnIsPlayable, activePlayerIndexes
  <2> QED BY <2>3, <2>5, <2>6, <2>8 DEF TurnInv, LobbyOK
<1>5. CASE \E table \in restoredTable :
             \E req \in Requests(hand[turn.playerIndex], table) : PlayTableAndDiscard(table, req)
  <2>1. PICK table \in restoredTable : \E req \in Requests(hand[p], table) :
          PlayTableAndDiscard(table, req)
    BY <1>5
  <2>2. PICK req \in Requests(hand[p], table) : PlayTableAndDiscard(table, req)
    BY <2>1
  <2>3. PICK next \in tablePlay(table, req) :
          \E card \in next.hand : discardAndEndTurn(next.hand, next.table, card)
    BY <2>2 DEF PlayTableAndDiscard
  <2>4. /\ phase = "in_progress"
        /\ next.hand \in SUBSET Deck /\ next.table \in SUBSET Compositions
    BY RestoredTableType, TablePlayResult
  <2> QED BY <2>3, <2>4, TurnDiscard
<1>6. CASE \E card \in hand[turn.playerIndex] : DiscardFromHand(card)
  <2>1. PICK card \in hand[p] : DiscardFromHand(card)
    BY <1>6
  <2>2. phase = "in_progress" /\ discardAndEndTurn(hand[p], activeCompositions, card)
    BY <2>1 DEF DiscardFromHand
  <2>3. activeCompositions \in SUBSET Compositions
    BY DEF TypeOK
  <2> QED BY <1>0, <2>2, <2>3, TurnDiscard
<1>7. CASE \E q \in Seats : ForfeitPlayer(q)
  BY <1>7, TurnForfeit
<1>8. CASE EndWithoutWinner
  <2>1. phase' = "game_over"
    BY <1>8 DEF EndWithoutWinner
  <2> QED BY <2>1 DEF TurnInv, LobbyOK, PilesOK, TurnIsPlayable
<1>9. CASE UNCHANGED vars
  BY <1>9 DEF TurnInv, LobbyOK, PilesOK, TurnIsPlayable, activePlayerIndexes, vars, cardVars,
              scoreVars, roundVars
<1> QED BY <1>1, <1>2, <1>3, <1>4, <1>5, <1>6, <1>7, <1>8, <1>9 DEF Next

-----------------------------------------------------------------------------
(***************************************************************************)
(* Scores.                                                                 *)
(***************************************************************************)

\* The adjustment: whoever is over the limit gets the best of the other scores, which
\* no other score exceeds.
LEMMA AdjustmentResult ==
  ASSUME TypeOK, NEW totals \in [Seats -> Nat],
         \E p \in activePlayerIndexes : totals[p] <= PointsLimit
  PROVE  \E h \in Nat :
           /\ h <= PointsLimit
           /\ \A p \in activePlayerIndexes :
                /\ totals[p] <= PointsLimit =>
                     applyOverHundredAdjustment(totals)[p] = totals[p] /\ totals[p] <= h
                /\ totals[p] > PointsLimit => applyOverHundredAdjustment(totals)[p] = h
<1> DEFINE remaining == {p \in activePlayerIndexes : totals[p] <= PointsLimit}
           highest   == CHOOSE p \in remaining : \A q \in remaining : totals[q] <= totals[p]
<1>1. remaining \subseteq Seats /\ remaining # {} /\ activePlayerIndexes \subseteq Seats
  BY DEF activePlayerIndexes
<1>2. highest \in remaining /\ \A q \in remaining : totals[q] <= totals[highest]
  <2> DEFINE f == [p \in remaining |-> totals[p]]
  <2>1. f \in [remaining -> Nat] /\ \A p \in remaining : f[p] <= PointsLimit
    BY <1>1
  <2>2. PICK p \in remaining : \A q \in remaining : f[q] <= f[p]
    BY <1>1, <2>1, GreatestArgument, GameAssumption
  <2>3. \E r \in remaining : \A q \in remaining : totals[q] <= totals[r]
    BY <2>2
  <2> HIDE DEF remaining
  <2> QED BY <2>3
<1>3. applyOverHundredAdjustment(totals) =
        [p \in Seats |-> IF p \in activePlayerIndexes \ remaining /\ remaining # {}
                         THEN totals[highest] ELSE totals[p]]
  BY DEF applyOverHundredAdjustment
<1> HIDE DEF highest
<1>4. totals[highest] \in Nat /\ totals[highest] <= PointsLimit
  BY <1>1, <1>2
<1>5. ASSUME NEW p \in activePlayerIndexes
      PROVE  /\ totals[p] <= PointsLimit =>
                  /\ applyOverHundredAdjustment(totals)[p] = totals[p]
                  /\ totals[p] <= totals[highest]
             /\ totals[p] > PointsLimit => applyOverHundredAdjustment(totals)[p] = totals[highest]
  <2>1. p \in Seats /\ totals[p] \in Nat /\ PointsLimit \in Nat
    BY <1>1, GameAssumption
  <2>2. p \in remaining <=> totals[p] <= PointsLimit
    OBVIOUS
  <2>3. totals[p] > PointsLimit <=> ~(totals[p] <= PointsLimit)
    BY <2>1
  <2> HIDE DEF remaining
  <2> QED BY <1>1, <1>2, <1>3, <2>1, <2>2, <2>3
<1> QED BY <1>4, <1>5

\* What finishRound does to the points.
LEMMA FinishRoundResult ==
  ASSUME TypeOK, NEW winner \in activePlayerIndexes, NEW hands \in [Seats -> SUBSET Deck],
         NEW stats, finishRound(winner, hands, stats)
  PROVE  /\ roundWinnerIndex' = winner
         /\ pointsGained' \in [Seats -> Nat]
         /\ pointsGained'[winner] = 0
         /\ \A p \in activePlayerIndexes \ {winner} : pointsGained'[p] = HandPoints(hands[p])
         /\ \/ /\ phase' = "game_over"
               /\ \A p \in Seats : totalPoints'[p] = totalPoints[p] + pointsGained'[p]
               /\ gameMode' = "quick"
                  \/ \A p \in activePlayerIndexes \ {winner} : totalPoints'[p] > PointsLimit
            \/ /\ phase' = "round_over" /\ gameMode' # "quick"
               /\ \E h \in Nat :
                    /\ h <= PointsLimit
                    /\ \A p \in activePlayerIndexes :
                         LET total == totalPoints[p] + pointsGained'[p]
                         IN  /\ total <= PointsLimit => totalPoints'[p] = total /\ total <= h
                             /\ total > PointsLimit => totalPoints'[p] = h
<1> DEFINE gained == [p \in Seats |-> IF p = winner \/ forfeited[p] THEN 0 ELSE HandPoints(hands[p])]
           totals == [p \in Seats |-> totalPoints[p] + gained[p]]
           over   == gameMode' = "quick" \/ allOtherPlayersOverHundred(totals, winner)
<1>1. gained \in [Seats -> Nat]
  BY HandPointsType
<1>2. winner \in Seats /\ activePlayerIndexes \subseteq Seats /\ PointsLimit \in Nat
  BY GameAssumption DEF activePlayerIndexes
<1>3. /\ gained[winner] = 0
      /\ \A p \in activePlayerIndexes \ {winner} : gained[p] = HandPoints(hands[p])
  BY <1>2 DEF activePlayerIndexes
<1>4. /\ roundWinnerIndex' = winner
      /\ pointsGained' = gained
      /\ totalPoints' = IF over THEN totals ELSE applyOverHundredAdjustment(totals)
      /\ phase' = IF over THEN "game_over" ELSE "round_over"
  BY DEF finishRound
<1> HIDE DEF gained
<1>5. totals \in [Seats -> Nat] /\ \A p \in Seats : totals[p] = totalPoints[p] + pointsGained'[p]
  BY <1>1, <1>4 DEF TypeOK
<1> HIDE DEF totals
<1>6. CASE over
  <2>1. phase' = "game_over" /\ totalPoints' = totals
    BY <1>4, <1>6
  <2>2. gameMode' = "quick" \/ \A p \in activePlayerIndexes \ {winner} : totalPoints'[p] > PointsLimit
    BY <1>6, <2>1 DEF allOtherPlayersOverHundred
  <2> QED BY <1>1, <1>3, <1>4, <1>5, <2>1, <2>2
<1>7. CASE ~over
  <2>1. /\ phase' = "round_over" /\ totalPoints' = applyOverHundredAdjustment(totals)
        /\ gameMode' # "quick"
    BY <1>4, <1>7
  <2>2. \E p \in activePlayerIndexes : totals[p] <= PointsLimit
    <3>1. PICK p \in activePlayerIndexes \ {winner} : ~(totals[p] > PointsLimit)
      BY <1>7 DEF allOtherPlayersOverHundred
    <3>2. totals[p] \in Nat
      BY <1>2, <1>5
    <3>3. totals[p] <= PointsLimit
      BY <1>2, <3>1, <3>2
    <3> QED BY <3>3
  <2>3. PICK h \in Nat :
          /\ h <= PointsLimit
          /\ \A p \in activePlayerIndexes :
               /\ totals[p] <= PointsLimit => totalPoints'[p] = totals[p] /\ totals[p] <= h
               /\ totals[p] > PointsLimit => totalPoints'[p] = h
    BY <1>5, <2>1, <2>2, AdjustmentResult
  <2>4. \A p \in activePlayerIndexes :
          LET total == totalPoints[p] + pointsGained'[p]
          IN  /\ total <= PointsLimit => totalPoints'[p] = total /\ total <= h
              /\ total > PointsLimit => totalPoints'[p] = h
    BY <1>2, <1>5, <2>3
  <2> QED BY <1>1, <1>3, <1>4, <2>1, <2>3, <2>4
<1> QED BY <1>6, <1>7

\* Counting a round keeps the scores fair.
LEMMA ScoreFinish ==
  ASSUME TypeOK, NEW winner \in activePlayerIndexes, NEW hands \in [Seats -> SUBSET Deck],
         NEW stats, finishRound(winner, hands, stats), forfeited' = forfeited,
         \A p \in activePlayerIndexes : totalPoints[p] <= PointsLimit,
         \A p \in activePlayerIndexes \ {winner} : hands[p] # {},
         gameMode' = "quick" => \A p \in Seats : totalPoints[p] = 0
  PROVE  ScoreInv'
<1>1. /\ roundWinnerIndex' = winner
      /\ pointsGained' \in [Seats -> Nat]
      /\ pointsGained'[winner] = 0
      /\ \A p \in activePlayerIndexes \ {winner} : pointsGained'[p] = HandPoints(hands[p])
      /\ \/ /\ phase' = "game_over"
            /\ \A p \in Seats : totalPoints'[p] = totalPoints[p] + pointsGained'[p]
            /\ gameMode' = "quick"
               \/ \A p \in activePlayerIndexes \ {winner} : totalPoints'[p] > PointsLimit
         \/ /\ phase' = "round_over" /\ gameMode' # "quick"
            /\ \E h \in Nat :
                 /\ h <= PointsLimit
                 /\ \A p \in activePlayerIndexes :
                      LET total == totalPoints[p] + pointsGained'[p]
                      IN  /\ total <= PointsLimit => totalPoints'[p] = total /\ total <= h
                          /\ total > PointsLimit => totalPoints'[p] = h
  BY FinishRoundResult
<1>2. activePlayerIndexes' = activePlayerIndexes /\ activePlayerIndexes \subseteq Seats
  BY SameActive DEF activePlayerIndexes
<1>3. \A p \in Seats : totalPoints[p] \in Nat /\ pointsGained'[p] \in Nat
  BY <1>1 DEF TypeOK
<1>4. PointsLimit \in Nat /\ winner \in Seats /\ ~forfeited'[winner]
  BY GameAssumption DEF activePlayerIndexes
<1>5. CASE /\ phase' = "game_over"
           /\ \A p \in Seats : totalPoints'[p] = totalPoints[p] + pointsGained'[p]
           /\ gameMode' = "quick"
              \/ \A p \in activePlayerIndexes \ {winner} : totalPoints'[p] > PointsLimit
  <2>1. totalPoints'[winner] = totalPoints[winner] /\ totalPoints[winner] <= PointsLimit
    BY <1>1, <1>3, <1>4, <1>5
  <2>2. ASSUME NEW p \in activePlayerIndexes \ {winner}
        PROVE  totalPoints'[winner] < totalPoints'[p]
    <3>1. p \in Seats /\ hands[p] \in SUBSET Deck /\ hands[p] # {}
      BY <1>2
    <3>2. HandPoints(hands[p]) \in Nat /\ HandPoints(hands[p]) >= 1
      BY <3>1, HandPointsType
    <3>3. CASE gameMode' = "quick"
      <4>1. totalPoints[winner] = 0 /\ totalPoints[p] = 0
        BY <1>4, <3>1, <3>3
      <4>2. totalPoints'[p] = 0 + HandPoints(hands[p])
        BY <1>1, <1>5, <3>1, <4>1
      <4> QED BY <2>1, <3>2, <4>1, <4>2
    <3>4. CASE totalPoints'[p] > PointsLimit
      <4>1. totalPoints'[p] \in Nat
        BY <1>3, <1>5, <3>1
      <4> QED BY <1>3, <1>4, <2>1, <3>4, <4>1
    <3> QED BY <1>5, <3>3, <3>4
  <2> QED BY <1>1, <1>2, <1>4, <1>5, <2>2
          DEF ScoreInv, QuickOK, NobodyPlaysAboveLimit, WinnerHasFewestPoints
<1>6. CASE /\ phase' = "round_over" /\ gameMode' # "quick"
           /\ \E h \in Nat :
                /\ h <= PointsLimit
                /\ \A p \in activePlayerIndexes :
                     LET total == totalPoints[p] + pointsGained'[p]
                     IN  /\ total <= PointsLimit => totalPoints'[p] = total /\ total <= h
                         /\ total > PointsLimit => totalPoints'[p] = h
  <2>1. \A p \in activePlayerIndexes : totalPoints'[p] <= PointsLimit
    <3> SUFFICES ASSUME NEW p \in activePlayerIndexes
                 PROVE  totalPoints'[p] <= PointsLimit
      OBVIOUS
    <3> DEFINE total == totalPoints[p] + pointsGained'[p]
    <3>1. total \in Nat
      BY <1>2, <1>3
    <3>2. \E h \in Nat : /\ h <= PointsLimit
                         /\ total <= PointsLimit => totalPoints'[p] = total
                         /\ total > PointsLimit => totalPoints'[p] = h
      BY <1>6
    <3> HIDE DEF total
    <3> QED BY <1>4, <3>1, <3>2
  <2> QED BY <1>2, <1>6, <2>1 DEF ScoreInv, QuickOK, NobodyPlaysAboveLimit, WinnerHasFewestPoints
<1> QED BY <1>1, <1>5, <1>6

\* A round that starts, or is won as it is dealt, keeps the scores fair.
LEMMA ScoreStart ==
  ASSUME Inv,
         \/ \E dealer, chooser \in Seats, deal \in Deals(activePlayerIndexes), mode \in Modes :
              StartGameWithMode(dealer, chooser, deal, mode)
         \/ \E deal \in Deals(activePlayerIndexes), deck \in Shuffle(GameDeck) :
              StartNextRound(deal, deck)
  PROVE  ScoreInv'
<1> USE DEF Inv
<1>1. PICK dealer \in Seats, chooser \in Seats, deal \in Deals(activePlayerIndexes),
           deck \in Seq(Deck) :
        /\ startRound(dealer, chooser, deal, deck)
        /\ \/ phase = "lobby"
           \/ phase = "round_over" /\ gameMode' = gameMode
  BY StartStep
<1>2. /\ hand' \in [Seats -> SUBSET Deck]
      /\ \A p \in activePlayerIndexes : hand'[p] # {}
      /\ forfeited' = forfeited
      /\ \/ \E winner \in activePlayerIndexes, stats \in [Seats -> Counters] :
              finishRound(winner, hand', stats)
         \/ phase' = "in_progress" /\ roundWinnerIndex' = -1 /\ totalPoints' = totalPoints
  BY <1>1, StartRoundResult
<1>3. gameMode' = "quick" => \A p \in Seats : totalPoints[p] = 0
  BY <1>1 DEF ScoreInv, QuickOK, TurnInv, LobbyOK
<1>4. \A p \in activePlayerIndexes : totalPoints[p] <= PointsLimit
  <2>1. CASE phase = "lobby"
    <3>1. \A p \in activePlayerIndexes : totalPoints[p] = 0
      BY <2>1 DEF TurnInv, LobbyOK, activePlayerIndexes
    <3> QED BY <3>1, GameAssumption
  <2>2. CASE phase = "round_over"
    BY <2>2 DEF ScoreInv, NobodyPlaysAboveLimit
  <2> QED BY <1>1, <2>1, <2>2
<1>5. CASE \E winner \in activePlayerIndexes, stats \in [Seats -> Counters] :
             finishRound(winner, hand', stats)
  BY <1>2, <1>3, <1>4, <1>5, ScoreFinish
<1>6. CASE phase' = "in_progress" /\ roundWinnerIndex' = -1 /\ totalPoints' = totalPoints
  <2>1. activePlayerIndexes' = activePlayerIndexes
    BY <1>2, SameActive
  <2> QED BY <1>3, <1>4, <1>6, <2>1
          DEF ScoreInv, QuickOK, NobodyPlaysAboveLimit, WinnerHasFewestPoints
<1> QED BY <1>2, <1>5, <1>6

\* The round that a discard ends is won by an active player whose points it leaves alone.
LEMMA DiscardFinishes ==
  ASSUME Inv, phase = "in_progress",
         NEW cards \in SUBSET Deck, NEW table \in SUBSET Compositions,
         NEW card \in cards, discardAndEndTurn(cards, table, card)
  PROVE  /\ forfeited' = forfeited /\ gameMode' = gameMode /\ round' = round
         /\ turn.playerIndex \in activePlayerIndexes
         /\ hand' \in [Seats -> SUBSET Deck]
         /\ \A p \in activePlayerIndexes \ {turn.playerIndex} : hand'[p] # {}
         /\ finishRound(turn.playerIndex, hand', statistics) \/ UNCHANGED scoreVars
<1> USE DEF Inv
<1>1. /\ hand' = [hand EXCEPT ![turn.playerIndex] = cards \ {card}]
      /\ hand' \in [Seats -> SUBSET Deck]
      /\ UNCHANGED <<roundVars, forfeited>>
      /\ finishRound(turn.playerIndex, hand', statistics) \/ UNCHANGED scoreVars
  BY DiscardResult
<1>2. turn.playerIndex \in activePlayerIndexes
  BY DEF TurnInv, TurnIsPlayable, activePlayerIndexes, TypeOK, Turns
<1>3. \A p \in activePlayerIndexes \ {turn.playerIndex} : hand'[p] # {}
  BY <1>1 DEF TurnInv, TurnIsPlayable, activePlayerIndexes, TypeOK
<1> QED BY <1>1, <1>2, <1>3 DEF roundVars

\* So does a discard, whether it ends the round or not.
LEMMA ScoreDiscard ==
  ASSUME Inv, phase = "in_progress",
         NEW cards \in SUBSET Deck, NEW table \in SUBSET Compositions,
         NEW card \in cards, discardAndEndTurn(cards, table, card)
  PROVE  ScoreInv'
<1> USE DEF Inv
<1>1. /\ forfeited' = forfeited /\ gameMode' = gameMode
      /\ turn.playerIndex \in activePlayerIndexes
      /\ hand' \in [Seats -> SUBSET Deck]
      /\ \A p \in activePlayerIndexes \ {turn.playerIndex} : hand'[p] # {}
      /\ finishRound(turn.playerIndex, hand', statistics) \/ UNCHANGED scoreVars
  BY DiscardFinishes
<1>2. /\ \A p \in activePlayerIndexes : totalPoints[p] <= PointsLimit
      /\ gameMode' = "quick" => \A p \in Seats : totalPoints[p] = 0
  BY <1>1 DEF ScoreInv, NobodyPlaysAboveLimit, QuickOK
<1>3. CASE finishRound(turn.playerIndex, hand', statistics)
  BY <1>1, <1>2, <1>3, ScoreFinish
<1>4. CASE UNCHANGED scoreVars
  BY <1>1, <1>4, SameActive
     DEF scoreVars, ScoreInv, QuickOK, NobodyPlaysAboveLimit, WinnerHasFewestPoints
<1> QED BY <1>1, <1>3, <1>4

\* And so does a player who leaves.
LEMMA ScoreForfeit ==
  ASSUME Inv, NEW p \in Seats, ForfeitPlayer(p)
  PROVE  ScoreInv'
<1> USE DEF Inv
<1> DEFINE rest == activePlayerIndexes \ {p}
<1>1. /\ phase \in {"in_progress", "round_over"}
      /\ forfeited' = [forfeited EXCEPT ![p] = TRUE]
      /\ UNCHANGED <<activeCompositions, totalPoints, hasOpened, roundVars>>
      /\ IF Cardinality(rest) = 1
         THEN roundWinnerIndex' \in rest /\ phase' = "game_over"
         ELSE UNCHANGED <<roundWinnerIndex, phase>>
  BY ForfeitResult
<1>2. activePlayerIndexes' = rest
  BY <1>1 DEF activePlayerIndexes, TypeOK
<1>3. gameMode' = gameMode /\ totalPoints' = totalPoints
  BY <1>1 DEF roundVars
<1>4. QuickOK' /\ NobodyPlaysAboveLimit'
  BY <1>1, <1>2, <1>3 DEF ScoreInv, QuickOK, NobodyPlaysAboveLimit
<1>5. CASE Cardinality(rest) = 1
  <2>1. rest \in SUBSET Seats
    BY DEF activePlayerIndexes
  <2>2. IsFiniteSet(rest)
    BY <2>1, SeatCount
  <2>3. PICK w : rest = {w}
    BY <1>5, <2>2, FS_Singleton
  <2>4. roundWinnerIndex' = w /\ ~forfeited'[w]
    <3>1. roundWinnerIndex' \in rest
      BY <1>1, <1>5
    <3>2. w \in activePlayerIndexes'
      BY <1>2, <2>3
    <3> QED BY <2>3, <3>1, <3>2 DEF activePlayerIndexes
  <2>5. activePlayerIndexes' \ {roundWinnerIndex'} = {}
    BY <1>2, <2>3, <2>4
  <2> QED BY <1>4, <2>4, <2>5 DEF ScoreInv, WinnerHasFewestPoints
<1>6. CASE Cardinality(rest) # 1
  <2>1. phase' # "game_over"
    BY <1>1, <1>6
  <2> QED BY <1>4, <2>1 DEF ScoreInv, WinnerHasFewestPoints
<1> QED BY <1>5, <1>6

\* Every step keeps the scores fair.
LEMMA ScoreNext == Inv /\ [Next]_vars => ScoreInv'
<1> SUFFICES ASSUME Inv, [Next]_vars
             PROVE  ScoreInv'
  OBVIOUS
<1> USE DEF Inv
<1> DEFINE p == turn.playerIndex
<1>1. CASE \/ \E dealer, chooser \in Seats, deal \in Deals(activePlayerIndexes), mode \in Modes :
                StartGameWithMode(dealer, chooser, deal, mode)
           \/ \E deal \in Deals(activePlayerIndexes), deck \in Shuffle(GameDeck) :
                StartNextRound(deal, deck)
  BY <1>1, ScoreStart
<1>2. CASE UNCHANGED <<scoreVars, gameMode, forfeited>>
  BY <1>2, SameActive
     DEF scoreVars, ScoreInv, QuickOK, NobodyPlaysAboveLimit, WinnerHasFewestPoints
<1>3. CASE DrawFromDeck \/ DrawFromDiscard
  <2>1. UNCHANGED <<scoreVars, gameMode, forfeited>>
    BY <1>3 DEF DrawFromDeck, DrawFromDiscard, roundVars
  <2> QED BY <1>2, <2>1
<1>4. CASE \E req \in Requests(hand[turn.playerIndex], activeCompositions) : PlayTable(req)
  <2>1. UNCHANGED <<scoreVars, gameMode, forfeited>>
    BY <1>4 DEF PlayTable, roundVars
  <2> QED BY <1>2, <2>1
<1>5. CASE \E table \in restoredTable :
             \E req \in Requests(hand[turn.playerIndex], table) : PlayTableAndDiscard(table, req)
  <2>1. PICK table \in restoredTable : \E req \in Requests(hand[p], table) :
          PlayTableAndDiscard(table, req)
    BY <1>5
  <2>2. PICK req \in Requests(hand[p], table) : PlayTableAndDiscard(table, req)
    BY <2>1
  <2>3. PICK next \in tablePlay(table, req) :
          \E card \in next.hand : discardAndEndTurn(next.hand, next.table, card)
    BY <2>2 DEF PlayTableAndDiscard
  <2>4. /\ phase = "in_progress"
        /\ next.hand \in SUBSET Deck /\ next.table \in SUBSET Compositions
    BY RestoredTableType, TablePlayResult
  <2> QED BY <2>3, <2>4, ScoreDiscard
<1>6. CASE \E card \in hand[turn.playerIndex] : DiscardFromHand(card)
  <2>1. PICK card \in hand[p] : DiscardFromHand(card)
    BY <1>6
  <2>2. phase = "in_progress" /\ discardAndEndTurn(hand[p], activeCompositions, card)
    BY <2>1 DEF DiscardFromHand
  <2>3. activeCompositions \in SUBSET Compositions /\ hand[p] \in SUBSET Deck
    BY DEF TypeOK, Turns
  <2> QED BY <2>2, <2>3, ScoreDiscard
<1>7. CASE \E q \in Seats : ForfeitPlayer(q)
  BY <1>7, ScoreForfeit
<1>8. CASE EndWithoutWinner
  <2>1. phase' = "game_over" /\ roundWinnerIndex' = -1
    BY <1>8 DEF EndWithoutWinner
  <2> QED BY <2>1 DEF ScoreInv, QuickOK, NobodyPlaysAboveLimit, WinnerHasFewestPoints
<1>9. CASE UNCHANGED vars
  <2>1. UNCHANGED <<scoreVars, gameMode, forfeited>>
    BY <1>9 DEF vars, roundVars
  <2> QED BY <1>2, <2>1
<1> QED BY <1>1, <1>3, <1>4, <1>5, <1>6, <1>7, <1>8, <1>9 DEF Next

-----------------------------------------------------------------------------
\* The invariant holds for a new game.
LEMMA InvInit == Init => Inv
<1> SUFFICES ASSUME Init
             PROVE  Inv
  OBVIOUS
<1>1. TypeOK
  BY TypeInit
<1>2. Len(drawPile) = Len(GameDeck)
  BY ShuffleType, GameAssumption DEF Init
<1> QED BY <1>1, <1>2 DEF Init, Inv, TurnInv, ScoreInv, LobbyOK, PilesOK, TurnIsPlayable, QuickOK,
                          NobodyPlaysAboveLimit, WinnerHasFewestPoints

\* The invariant holds in every reachable state of the rules engine.
THEOREM InvCorrect == Spec => []Inv
<1>1. Init => Inv
  BY InvInit
<1>2. Inv /\ [Next]_vars => Inv'
  BY TypeNext, TurnNext, ScoreNext DEF Inv
<1> QED BY <1>1, <1>2, PTL DEF Spec

\* DrawFromDeck never answers ErrNotEnoughCardsInDrawPile, whatever the number of
\* players and the size of the hands: the player who has to draw finds a card.
THEOREM DrawNeverBlocksAlways == Spec => []DrawNeverBlocks
<1>1. Inv => DrawNeverBlocks
  <2> SUFFICES ASSUME Inv, phase = "in_progress", ~turn.hasDrawn
               PROVE  recycleDiscardIntoDrawPileIfNeeded(drawPile, discardPile).draw # <<>>
    BY DEF DrawNeverBlocks
  <2>1. drawPile \in Seq(Deck) /\ discardPile \in Seq(Deck) /\ Len(drawPile) >= 1
    BY DEF Inv, TypeOK, TurnInv, PilesOK
  <2>2. drawPile # <<>>
    BY <2>1, EmptySeq
  <2> QED BY <2>1, <2>2, RecycleType
<1> QED BY <1>1, InvCorrect, PTL

\* The turn never belongs to a player who left, nobody plays alone, and nobody in the
\* game is without cards while a round is played.
THEOREM TurnIsPlayableAlways == Spec => []TurnIsPlayable
<1>1. Inv => TurnIsPlayable
  BY DEF Inv, TurnInv
<1> QED BY <1>1, InvCorrect, PTL

\* No round is played while somebody in the game is above the limit.
THEOREM NobodyPlaysAboveLimitAlways == Spec => []NobodyPlaysAboveLimit
<1>1. Inv => NobodyPlaysAboveLimit
  BY DEF Inv, ScoreInv
<1> QED BY <1>1, InvCorrect, PTL

\* Whoever wins a game has strictly fewer points than everybody else still in it, in a
\* full game as in a quick one, and also when the others left.
THEOREM WinnerHasFewestPointsAlways == Spec => []WinnerHasFewestPoints
<1>1. Inv => WinnerHasFewestPoints
  BY DEF Inv, ScoreInv
<1> QED BY <1>1, InvCorrect, PTL

-----------------------------------------------------------------------------
\* Counting a round keeps the order of the players who stay.
RankingKept ==
  \A p, q \in activePlayerIndexes :
    totalPoints[p] + pointsGained'[p] <= totalPoints[q] + pointsGained'[q]
      => totalPoints'[p] <= totalPoints'[q]

\* finishRound keeps the ranking,
LEMMA FinishKeepsRanking ==
  ASSUME TypeOK, NEW winner \in activePlayerIndexes, NEW hands \in [Seats -> SUBSET Deck],
         NEW stats, finishRound(winner, hands, stats), phase' = "round_over"
  PROVE  RankingKept
<1> DEFINE Total(p) == totalPoints[p] + pointsGained'[p]
<1>1. PICK h \in Nat :
        /\ h <= PointsLimit
        /\ \A p \in activePlayerIndexes :
             /\ Total(p) <= PointsLimit => totalPoints'[p] = Total(p) /\ Total(p) <= h
             /\ Total(p) > PointsLimit => totalPoints'[p] = h
  BY FinishRoundResult
<1>2. pointsGained' \in [Seats -> Nat] /\ totalPoints \in [Seats -> Nat] /\ PointsLimit \in Nat
      /\ activePlayerIndexes \subseteq Seats
  BY FinishRoundResult, GameAssumption DEF TypeOK, activePlayerIndexes
<1>3. \A p \in activePlayerIndexes : Total(p) \in Nat
  BY <1>2
<1> HIDE DEF Total
<1>4. \A p, q \in activePlayerIndexes : Total(p) <= Total(q) => totalPoints'[p] <= totalPoints'[q]
  BY <1>1, <1>2, <1>3
<1> QED BY <1>4 DEF RankingKept, Total

\* and nothing else counts a round.
LEMMA RankingNext ==
  ASSUME Inv, [Next]_vars, phase' = "round_over", ~(phase = "round_over" /\ round' = round)
  PROVE  RankingKept
<1> USE DEF Inv
<1> DEFINE p == turn.playerIndex
<1>1. CASE \/ \E dealer, chooser \in Seats, deal \in Deals(activePlayerIndexes), mode \in Modes :
                StartGameWithMode(dealer, chooser, deal, mode)
           \/ \E deal \in Deals(activePlayerIndexes), deck \in Shuffle(GameDeck) :
                StartNextRound(deal, deck)
  <2>1. PICK dealer \in Seats, chooser \in Seats, deal \in Deals(activePlayerIndexes),
             deck \in Seq(Deck) : startRound(dealer, chooser, deal, deck)
    BY <1>1, StartStep
  <2>2. /\ hand' \in [Seats -> SUBSET Deck]
        /\ \/ \E winner \in activePlayerIndexes, stats \in [Seats -> Counters] :
                finishRound(winner, hand', stats)
           \/ phase' = "in_progress"
    BY <2>1, StartRoundResult
  <2> QED BY <2>2, FinishKeepsRanking
<1>2. ASSUME phase = "in_progress",
             NEW cards \in SUBSET Deck, NEW table \in SUBSET Compositions,
             NEW card \in cards, discardAndEndTurn(cards, table, card)
      PROVE  RankingKept
  <2>1. /\ p \in activePlayerIndexes /\ hand' \in [Seats -> SUBSET Deck]
        /\ finishRound(p, hand', statistics) \/ UNCHANGED scoreVars
    BY <1>2, DiscardFinishes
  <2>2. finishRound(p, hand', statistics)
    BY <1>2, <2>1 DEF scoreVars
  <2> QED BY <2>1, <2>2, FinishKeepsRanking
<1>3. CASE DrawFromDeck \/ DrawFromDiscard
  <2>1. phase = "in_progress" /\ phase' = phase
    BY <1>3 DEF DrawFromDeck, DrawFromDiscard, scoreVars
  <2> QED BY <2>1
<1>4. CASE \E req \in Requests(hand[turn.playerIndex], activeCompositions) : PlayTable(req)
  <2>1. phase = "in_progress" /\ phase' = phase
    BY <1>4 DEF PlayTable, tablePlay, scoreVars
  <2> QED BY <2>1
<1>5. CASE \E table \in restoredTable :
             \E req \in Requests(hand[turn.playerIndex], table) : PlayTableAndDiscard(table, req)
  <2>1. PICK table \in restoredTable : \E req \in Requests(hand[p], table) :
          PlayTableAndDiscard(table, req)
    BY <1>5
  <2>2. PICK req \in Requests(hand[p], table) : PlayTableAndDiscard(table, req)
    BY <2>1
  <2>3. PICK next \in tablePlay(table, req) :
          \E card \in next.hand : discardAndEndTurn(next.hand, next.table, card)
    BY <2>2 DEF PlayTableAndDiscard
  <2>4. /\ phase = "in_progress"
        /\ next.hand \in SUBSET Deck /\ next.table \in SUBSET Compositions
    BY RestoredTableType, TablePlayResult
  <2> QED BY <1>2, <2>3, <2>4
<1>6. CASE \E card \in hand[turn.playerIndex] : DiscardFromHand(card)
  <2>1. PICK card \in hand[p] : DiscardFromHand(card)
    BY <1>6
  <2>2. phase = "in_progress" /\ discardAndEndTurn(hand[p], activeCompositions, card)
    BY <2>1 DEF DiscardFromHand
  <2>3. activeCompositions \in SUBSET Compositions /\ hand[p] \in SUBSET Deck
    BY DEF TypeOK, Turns
  <2> QED BY <1>2, <2>2, <2>3
<1>7. CASE \E q \in Seats : ForfeitPlayer(q)
  <2>1. PICK q \in Seats : ForfeitPlayer(q)
    BY <1>7
  <2>2. /\ UNCHANGED <<activeCompositions, totalPoints, hasOpened, roundVars>>
        /\ phase' = "game_over" \/ phase' = phase
        /\ phase \in {"in_progress", "round_over"}
    BY <2>1, ForfeitResult
  <2> QED BY <2>2 DEF roundVars
<1>8. CASE EndWithoutWinner
  BY <1>8 DEF EndWithoutWinner
<1>9. CASE UNCHANGED vars
  BY <1>9 DEF vars, scoreVars, roundVars
<1> QED BY <1>1, <1>3, <1>4, <1>5, <1>6, <1>7, <1>8, <1>9 DEF Next

\* The over-hundred adjustment never turns the ranking of the players round, whether a
\* discard or a special hand dealt to a player ended the round.
THEOREM AdjustmentKeepsRankingAlways == Spec => AdjustmentKeepsRanking
<1>1. Inv /\ [Next]_vars =>
        [phase' = "round_over" /\ ~(phase = "round_over" /\ round' = round) =>
           \A p, q \in activePlayerIndexes :
             totalPoints[p] + pointsGained'[p] <= totalPoints[q] + pointsGained'[q]
               => totalPoints'[p] <= totalPoints'[q]]_vars
  BY RankingNext DEF RankingKept
<1> QED BY <1>1, InvCorrect, PTL DEF Spec, AdjustmentKeepsRanking

-----------------------------------------------------------------------------
(***************************************************************************)
(* Cards: none is ever lost or duplicated, and no hand grows beyond its    *)
(* first size and the card drawn in the turn.                              *)
(***************************************************************************)

\* s lists the cards of X, each once.
Lists(s, X) == s \in Seq(Deck) /\ IsInjective(s) /\ ToSet(s) = X

-----------------------------------------------------------------------------
(***************************************************************************)
(* Piles and card sequences.                                               *)
(***************************************************************************)
\* The cards of a sequence by their positions.
LEMMA SeqCards ==
  ASSUME NEW s \in Seq(Deck)
  PROVE  /\ Len(s) \in Nat /\ DOMAIN s = 1..Len(s)
         /\ ToSet(s) = {s[i] : i \in 1..Len(s)} /\ ToSet(s) \subseteq Deck
         /\ IsInjective(s) <=> \A i, j \in 1..Len(s) : s[i] = s[j] => i = j
BY LenProperties, ElementOfSeq DEF ToSet, IsInjective

\* One pile on another.
LEMMA ListsConcat ==
  ASSUME NEW s, NEW t, NEW X, NEW Y, Lists(s, X), Lists(t, Y), X \cap Y = {}
  PROVE  Lists(s \o t, X \cup Y)
<1> DEFINE u == s \o t
           m == Len(s)
           n == Len(t)
<1>1. s \in Seq(Deck) /\ t \in Seq(Deck) /\ m \in Nat /\ n \in Nat
  BY SeqCards DEF Lists
<1>2. /\ X = {s[i] : i \in 1..m} /\ Y = {t[i] : i \in 1..n}
      /\ \A i, j \in 1..m : s[i] = s[j] => i = j
      /\ \A i, j \in 1..n : t[i] = t[j] => i = j
  BY SeqCards DEF Lists
<1>3. /\ u \in Seq(Deck) /\ Len(u) = m + n
      /\ \A i \in 1..(m + n) : u[i] = IF i <= m THEN s[i] ELSE t[i - m]
  BY <1>1, ConcatProperties
<1> HIDE DEF u, m, n
<1>4. \A i \in 1..(m + n) : \/ i \in 1..m /\ u[i] = s[i]
                            \/ i - m \in 1..n /\ u[i] = t[i - m]
  BY <1>1, <1>3
<1>5. /\ \A i \in 1..m : i \in 1..(m + n) /\ u[i] = s[i]
      /\ \A i \in 1..n : i + m \in 1..(m + n) /\ u[i + m] = t[i]
  <2>1. \A i \in 1..n : i + m \in 1..(m + n) /\ ~(i + m <= m) /\ (i + m) - m = i
    BY <1>1
  <2>2. \A i \in 1..n : u[i + m] = t[i]
    BY <1>3, <2>1
  <2> QED BY <1>1, <1>3, <2>1, <2>2
<1>6. {u[i] : i \in 1..(m + n)} = X \cup Y
  <2>1. \A i \in 1..(m + n) : u[i] \in X \cup Y
    BY <1>2, <1>4
  <2>2. \A x \in X \cup Y : \E i \in 1..(m + n) : u[i] = x
    BY <1>2, <1>5
  <2> QED BY <2>1, <2>2
<1>7. \A i, j \in 1..(m + n) : u[i] = u[j] => i = j
  <2> SUFFICES ASSUME NEW i \in 1..(m + n), NEW j \in 1..(m + n), u[i] = u[j]
               PROVE  i = j
    OBVIOUS
  <2>1. CASE i \in 1..m /\ u[i] = s[i] /\ j \in 1..m /\ u[j] = s[j]
    BY <1>2, <2>1
  <2>2. CASE i - m \in 1..n /\ u[i] = t[i - m] /\ j - m \in 1..n /\ u[j] = t[j - m]
    <3>1. i - m = j - m
      BY <1>2, <2>2
    <3> QED BY <1>1, <3>1
  <2>3. ~(i \in 1..m /\ u[i] = s[i] /\ j - m \in 1..n /\ u[j] = t[j - m])
    BY <1>2
  <2>4. ~(j \in 1..m /\ u[j] = s[j] /\ i - m \in 1..n /\ u[i] = t[i - m])
    BY <1>2
  <2> QED BY <1>4, <2>1, <2>2, <2>3, <2>4
<1>8. ToSet(u) = X \cup Y /\ IsInjective(u)
  BY <1>3, <1>6, <1>7, SeqCards
<1> QED BY <1>3, <1>8 DEF Lists, u

\* A sequence and what is left of it after its first card.
LEMMA ListsTail ==
  ASSUME NEW s, NEW X, Lists(s, X), s # <<>>
  PROVE  Head(s) \in X /\ Lists(Tail(s), X \ {Head(s)})
<1> DEFINE t == Tail(s)
           n == Len(s)
<1>1. /\ s \in Seq(Deck) /\ n \in Nat \ {0} /\ X = {s[i] : i \in 1..n}
      /\ \A i, j \in 1..n : s[i] = s[j] => i = j
  BY SeqCards, EmptySeq DEF Lists
<1>2. /\ t \in Seq(Deck) /\ Len(t) = n - 1 /\ \A i \in 1..(n - 1) : t[i] = s[i + 1]
  BY <1>1, HeadTailProperties
<1>3. Head(s) = s[1]
  BY <1>1
<1> HIDE DEF t, n
<1>4. \A i \in 1..(n - 1) : i + 1 \in 1..n /\ i + 1 # 1 /\ t[i] = s[i + 1]
  BY <1>1, <1>2
<1>5. \A i \in 2..n : i - 1 \in 1..(n - 1) /\ t[i - 1] = s[i]
  <2>1. \A i \in 2..n : i - 1 \in 1..(n - 1) /\ (i - 1) + 1 = i
    BY <1>1
  <2> QED BY <1>2, <2>1
<1>6. {t[i] : i \in 1..(n - 1)} = X \ {s[1]}
  <2>1. \A i \in 1..(n - 1) : t[i] \in X \ {s[1]}
    BY <1>1, <1>4
  <2>2. \A x \in X \ {s[1]} : \E i \in 1..(n - 1) : t[i] = x
    <3> SUFFICES ASSUME NEW i \in 1..n, s[i] # s[1]
                 PROVE  \E k \in 1..(n - 1) : t[k] = s[i]
      BY <1>1
    <3>1. i \in 2..n
      BY <1>1
    <3> QED BY <1>5, <3>1
  <2> QED BY <2>1, <2>2
<1>7. \A i, j \in 1..(n - 1) : t[i] = t[j] => i = j
  <2> SUFFICES ASSUME NEW i \in 1..(n - 1), NEW j \in 1..(n - 1), t[i] = t[j]
               PROVE  i = j
    OBVIOUS
  <2>1. i + 1 = j + 1
    BY <1>1, <1>4
  <2> QED BY <2>1
<1>8. ToSet(t) = X \ {s[1]} /\ IsInjective(t)
  BY <1>2, <1>6, <1>7, SeqCards
<1>9. s[1] \in X
  BY <1>1
<1> QED BY <1>2, <1>3, <1>8, <1>9 DEF Lists, t

\* Reordered cards are the same cards.
LEMMA ListsPermuted ==
  ASSUME NEW s, NEW t, NEW X, Lists(s, X), Permuted(s, t)
  PROVE  Lists(t, X)
<1>1. s \in Seq(Deck) /\ IsInjective(s) /\ ToSet(s) = X
  BY DEF Lists
<1>2. t \in Seq(Deck) /\ ToSet(t) = X
  BY <1>1, PermutedSeq
<1>3. PICK f \in Bijection(DOMAIN s, DOMAIN s) : t = [i \in DOMAIN s |-> s[f[i]]]
  BY DEF Permuted
<1>4. /\ f \in [DOMAIN s -> DOMAIN s] /\ DOMAIN t = DOMAIN s
      /\ \A i, j \in DOMAIN s : f[i] = f[j] => i = j
  BY <1>3 DEF Bijection, Injection, IsInjective
<1>5. IsInjective(t)
  BY <1>1, <1>3, <1>4 DEF IsInjective
<1> QED BY <1>2, <1>5 DEF Lists

\* A part of a sequence lists the cards at its positions.
LEMMA ListsPart ==
  ASSUME NEW s, NEW X, Lists(s, X), NEW m \in Int, NEW n \in Int,
         1 <= m, n <= Len(s), m <= n + 1
  PROVE  Lists(SubSeq(s, m, n), {s[i] : i \in m..n})
<1> DEFINE t == SubSeq(s, m, n)
           k == n - m + 1
<1>1. /\ s \in Seq(Deck) /\ Len(s) \in Nat /\ k \in Nat
      /\ \A i, j \in 1..Len(s) : s[i] = s[j] => i = j
  BY SeqCards DEF Lists
<1>2. \A i \in m..n : i \in 1..Len(s) /\ s[i] \in Deck
  BY <1>1, ElementOfSeq
<1>3. t \in Seq(Deck) /\ Len(t) = k /\ \A i \in 1..k : t[i] = s[m + i - 1]
  <2>1. Len(t) = IF m <= n THEN k ELSE 0
    BY <1>2, SubSeqProperties
  <2>2. Len(t) = k
    BY <2>1
  <2> QED BY <1>2, <2>2, SubSeqProperties
<1> HIDE DEF t
<1>4. \A i \in 1..k : m + i - 1 \in m..n /\ t[i] = s[m + i - 1]
  BY <1>3
<1>5. \A i \in m..n : i - m + 1 \in 1..k /\ t[i - m + 1] = s[i]
  <2>1. \A i \in m..n : i - m + 1 \in 1..k /\ m + (i - m + 1) - 1 = i
    OBVIOUS
  <2> QED BY <1>3, <2>1
<1>6. {t[i] : i \in 1..k} = {s[i] : i \in m..n}
  <2>1. \A i \in 1..k : \E j \in m..n : t[i] = s[j]
    BY <1>4
  <2>2. \A j \in m..n : \E i \in 1..k : t[i] = s[j]
    BY <1>5
  <2>3. \A x : x \in {t[i] : i \in 1..k} <=> x \in {s[i] : i \in m..n}
    <3> HIDE DEF k
    <3> QED BY <2>1, <2>2, Zenon
  <2> QED BY <2>3
<1>7. \A i, j \in 1..k : t[i] = t[j] => i = j
  <2> SUFFICES ASSUME NEW i \in 1..k, NEW j \in 1..k, t[i] = t[j]
               PROVE  i = j
    OBVIOUS
  <2>1. m + i - 1 = m + j - 1
    BY <1>1, <1>2, <1>4
  <2> QED BY <2>1
<1>8. ToSet(t) = {s[i] : i \in m..n} /\ IsInjective(t)
  BY <1>3, <1>6, <1>7, SeqCards
<1> QED BY <1>3, <1>8 DEF Lists, t

\* The cards of a sequence up to a position, and those behind it.
FirstCards(s, at) == {s[i] : i \in 1..at}
LastCards(s, at) == {s[i] : i \in (at + 1)..Len(s)}

\* A sequence cut in two.
LEMMA ListsCut ==
  ASSUME NEW s, NEW X, Lists(s, X), NEW at \in 0..Len(s)
  PROVE  /\ Lists(SubSeq(s, 1, at), FirstCards(s, at))
         /\ Lists(SubSeq(s, at + 1, Len(s)), LastCards(s, at))
         /\ FirstCards(s, at) \cup LastCards(s, at) = X
         /\ FirstCards(s, at) \cap LastCards(s, at) = {}
<1> DEFINE m == Len(s)
           A == {s[i] : i \in 1..at}
           B == {s[i] : i \in (at + 1)..m}
<1>1. /\ s \in Seq(Deck) /\ m \in Nat /\ at \in Nat /\ at <= m /\ X = {s[i] : i \in 1..m}
      /\ \A i, j \in 1..m : s[i] = s[j] => i = j
  BY SeqCards DEF Lists
<1>2. Lists(SubSeq(s, 1, at), A)
  BY <1>1, ListsPart
<1>3. Lists(SubSeq(s, at + 1, m), B)
  BY <1>1, ListsPart
<1>4. \A i \in 1..m : i \in 1..at \/ i \in (at + 1)..m
  BY <1>1
<1>5. /\ \A i \in 1..at : i \in 1..m /\ i \notin (at + 1)..m
      /\ \A i \in (at + 1)..m : i \in 1..m
  BY <1>1
<1>6. A \cup B = X /\ A \cap B = {}
  <2> HIDE DEF m
  <2>1. \A x \in X : x \in A \/ x \in B
    BY <1>1, <1>4
  <2>2. A \subseteq X /\ B \subseteq X
    BY <1>1, <1>5
  <2>3. \A x \in A : x \notin B
    BY <1>1, <1>5
  <2> QED BY <2>1, <2>2, <2>3
<1> QED BY <1>2, <1>3, <1>6 DEF FirstCards, LastCards

\* A set of cards put into a sequence.
LEMMA ListsSet ==
  ASSUME NEW S \in SUBSET Deck
  PROVE  Lists(SetToSeq(S), S) /\ \A t \in SetToSeqs(S) : Lists(t, S)
<1> DEFINE n == Cardinality(S)
<1>1. IsFiniteSet(S)
  BY DeckIsOK, FS_Subset DEF DeckOK
<1>2. n \in Nat /\ ExistsBijection(1..n, S) /\ IsFiniteSet(1..n) /\ Cardinality(1..n) = n
  BY <1>1, FS_CardinalityType, FS_Interval
<1> HIDE DEF n
<1>3. ASSUME NEW t \in [1..n -> S], IsInjective(t)
      PROVE  Lists(t, S)
  <2>1. t \in Injection(1..n, S)
    BY <1>3 DEF Injection
  <2>2. t \in Surjection(1..n, S)
    BY <1>1, <1>2, <2>1, FS_Injection DEF n
  <2>3. t \in Seq(Deck) /\ DOMAIN t = 1..n
    BY <1>2, <1>3
  <2>4. ToSet(t) = S
    BY <1>3, <2>2 DEF Surjection, ToSet
  <2> QED BY <1>3, <2>3, <2>4 DEF Lists
<1>4. \E f \in [1..n -> S] : IsInjective(f)
  BY <1>2 DEF ExistsBijection, Bijection, Injection
<1>5. SetToSeq(S) \in [1..n -> S] /\ IsInjective(SetToSeq(S))
  BY <1>4 DEF SetToSeq, n
<1>6. \A t \in SetToSeqs(S) : t \in [1..n -> S] /\ IsInjective(t)
  BY DEF SetToSeqs, IsInjective, n
<1> QED BY <1>3, <1>5, <1>6

\* A shuffled pile has the same cards.
LEMMA ListsShuffle ==
  ASSUME NEW pile, NEW X, Lists(pile, X), NEW t \in Shuffle(pile)
  PROVE  Lists(t, X)
<1>1. PICK f \in Bijection(1..Len(pile), 1..Len(pile)) :
        t = [i \in 1..Len(pile) |-> pile[f[i]]]
  BY DEF Shuffle
<1>2. DOMAIN pile = 1..Len(pile)
  BY SeqCards DEF Lists
<1>3. Permuted(pile, t)
  BY <1>1, <1>2 DEF Permuted
<1> QED BY <1>3, ListsPermuted

\* The empty sequence.
LEMMA ListsNone ==
  ASSUME NEW X
  PROVE  Lists(<<>>, X) <=> X = {}
<1>1. <<>> \in Seq(Deck) /\ Len(<<>>) = 0 /\ 1..0 = {}
  OBVIOUS
<1>2. ToSet(<<>>) = {} /\ IsInjective(<<>>)
  <2>1. ToSet(<<>>) = {<<>>[i] : i \in {}}
    BY <1>1, SeqCards
  <2>2. IsInjective(<<>>) <=> \A i, j \in {} : <<>>[i] = <<>>[j] => i = j
    BY <1>1, SeqCards
  <2> QED BY <2>1, <2>2
<1> QED BY <1>1, <1>2 DEF Lists

\* A single card.
LEMMA ListsOne ==
  ASSUME NEW c \in Deck
  PROVE  Lists(<<c>>, {c})
<1> DEFINE s == <<c>>
<1>1. s \in Seq(Deck) /\ Len(s) = 1 /\ s[1] = c /\ 1..1 = {1}
  OBVIOUS
<1> HIDE DEF s
<1>3. ToSet(s) = {s[i] : i \in {1}}
  BY <1>1, SeqCards
<1>4. IsInjective(s)
  <2>1. IsInjective(s) <=> \A i, j \in 1..Len(s) : s[i] = s[j] => i = j
    BY <1>1, SeqCards
  <2> QED BY <1>1, <2>1
<1> QED BY <1>1, <1>3, <1>4 DEF Lists, s

\* The two piles list the cards of X, each once.
PilesHold(piles, X) ==
  /\ Lists(piles.draw, ToSet(piles.draw)) /\ Lists(piles.discard, ToSet(piles.discard))
  /\ ToSet(piles.draw) \cap ToSet(piles.discard) = {}
  /\ ToSet(piles.draw) \cup ToSet(piles.discard) = X

\* Recycling moves cards from the discard pile to the draw pile and keeps all of them.
LEMMA ListsRecycle ==
  ASSUME NEW draw, NEW discard, NEW X, NEW Y, Lists(draw, X), Lists(discard, Y), X \cap Y = {},
         NEW piles, piles = recycleDiscardIntoDrawPileIfNeeded(draw, discard)
  PROVE  PilesHold(piles, X \cup Y)
<1> SUFFICES \E V, W : /\ Lists(piles.draw, V) /\ Lists(piles.discard, W)
                       /\ V \cap W = {} /\ V \cup W = X \cup Y
  BY DEF PilesHold, Lists
<1> DEFINE n == Len(discard)
           refill == [i \in 1..(n - 1) |-> discard[n + 1 - i]]
<1>1. /\ draw \in Seq(Deck) /\ discard \in Seq(Deck) /\ n \in Nat
      /\ Y = {discard[i] : i \in 1..n} /\ Y \subseteq Deck
      /\ \A i, j \in 1..n : discard[i] = discard[j] => i = j
  BY SeqCards DEF Lists
<1>2. CASE draw # <<>> \/ n <= 1
  <2>1. piles.draw = draw /\ piles.discard = discard
    BY <1>1, <1>2, RecycleType
  <2> QED BY <2>1
<1>3. CASE draw = <<>> /\ n > 1
  <2>1. piles = [draw |-> refill, discard |-> <<discard[1]>>]
    BY <1>1, <1>3 DEF recycleDiscardIntoDrawPileIfNeeded
  <2>2. \A i \in 1..(n - 1) : n + 1 - i \in 2..n /\ refill[i] = discard[n + 1 - i]
    BY <1>1
  <2>3. \A j \in 2..n : n + 1 - j \in 1..(n - 1) /\ refill[n + 1 - j] = discard[j]
    <3>1. \A j \in 2..n : n + 1 - j \in 1..(n - 1) /\ n + 1 - (n + 1 - j) = j
      BY <1>1
    <3> QED BY <3>1
  <2>4. 1 \in 1..n /\ \A j \in 2..n : j \in 1..n /\ j # 1
    BY <1>1, <1>3
  <2>5. refill \in [1..(n - 1) -> Deck] /\ n - 1 \in Nat
    BY <1>1, <1>3, <2>2, <2>4
  <2> HIDE DEF refill
  <2>6. refill \in Seq(Deck) /\ Len(refill) = n - 1
    <3> DEFINE k == n - 1
    <3>1. refill \in [1..k -> Deck] /\ k \in Nat
      BY <2>5
    <3> HIDE DEF k
    <3>2. refill \in Seq(Deck) /\ Len(refill) = k
      BY <3>1
    <3> QED BY <3>2 DEF k
  <2>7. {refill[i] : i \in 1..(n - 1)} = Y \ {discard[1]}
    <3>1. \A i \in 1..(n - 1) : refill[i] \in Y \ {discard[1]}
      BY <1>1, <2>2, <2>4
    <3>2. \A j \in 1..n : j = 1 \/ j \in 2..n
      BY <1>1
    <3>3. \A x \in Y \ {discard[1]} : \E i \in 1..(n - 1) : refill[i] = x
      BY <1>1, <2>3, <3>2
    <3> QED BY <3>1, <3>3
  <2>8. \A i, j \in 1..(n - 1) : refill[i] = refill[j] => i = j
    <3> SUFFICES ASSUME NEW i \in 1..(n - 1), NEW j \in 1..(n - 1), refill[i] = refill[j]
                 PROVE  i = j
      OBVIOUS
    <3>1. n + 1 - i = n + 1 - j
      BY <1>1, <2>2, <2>4
    <3> QED BY <1>1, <3>1
  <2>9. Lists(refill, Y \ {discard[1]})
    BY <2>6, <2>7, <2>8, SeqCards DEF Lists
  <2>10. Lists(<<discard[1]>>, {discard[1]})
    BY <1>1, <2>4, ListsOne
  <2>11. X = {}
    BY <1>3, ListsNone
  <2>12. discard[1] \in Y
    BY <1>1, <2>4
  <2> QED BY <2>1, <2>9, <2>10, <2>11, <2>12
<1> QED BY <1>1, <1>2, <1>3

-----------------------------------------------------------------------------
(***************************************************************************)
(* Compositions.                                                           *)
(***************************************************************************)
(* A card sequence with others put after its first at cards. *)
Inserted(s, at, cards) == SubSeq(s, 1, at) \o cards \o SubSeq(s, at + 1, Len(s))

\* Where the cards of both sequences are after an insertion.
LEMMA InsertPositions ==
  ASSUME NEW s \in Seq(Deck), NEW cards \in Seq(Deck), NEW at \in 0..Len(s)
  PROVE  /\ Inserted(s, at, cards) \in Seq(Deck)
         /\ Len(Inserted(s, at, cards)) = Len(s) + Len(cards)
         /\ \A i \in 1..at : Inserted(s, at, cards)[i] = s[i]
         /\ \A i \in 1..Len(cards) : Inserted(s, at, cards)[at + i] = cards[i]
         /\ \A i \in (at + 1)..Len(s) : Inserted(s, at, cards)[i + Len(cards)] = s[i]
<1> DEFINE a == SubSeq(s, 1, at)
           b == SubSeq(s, at + 1, Len(s))
           m == Len(s)
           n == Len(cards)
<1>1. m \in Nat /\ n \in Nat /\ at \in Nat /\ at <= m
  BY LenProperties
<1>2. a \in Seq(Deck) /\ Len(a) = at /\ \A i \in 1..at : a[i] = s[i]
  <2>1. a \in Seq(Deck) /\ Len(a) = at - 1 + 1
    BY <1>1, SubSeqType
  <2>2. \A i \in 1..at : s[i] \in Deck
    BY <1>1, ElementOfSeq
  <2>3. \A i \in 1..(at - 1 + 1) : a[i] = s[1 + i - 1]
    BY <1>1, <2>2, SubSeqProperties
  <2>4. at - 1 + 1 = at /\ \A i \in 1..at : 1 + i - 1 = i
    BY <1>1
  <2> QED BY <2>1, <2>3, <2>4
<1>3. b \in Seq(Deck) /\ Len(b) = m - at /\ \A i \in 1..(m - at) : b[i] = s[at + i]
  <2>1. b \in Seq(Deck) /\ Len(b) = m - (at + 1) + 1
    BY <1>1, SubSeqType
  <2>2. \A i \in (at + 1)..m : s[i] \in Deck
    BY <1>1, ElementOfSeq
  <2>3. \A i \in 1..(m - (at + 1) + 1) : b[i] = s[at + 1 + i - 1]
    BY <1>1, <2>2, SubSeqProperties
  <2>4. m - (at + 1) + 1 = m - at /\ \A i \in 1..(m - at) : at + 1 + i - 1 = at + i
    BY <1>1
  <2> QED BY <2>1, <2>3, <2>4
<1>4. Inserted(s, at, cards) = (a \o cards) \o b
  BY DEF Inserted
<1> HIDE DEF a, b, m, n
<1> DEFINE u == a \o cards
           v == u \o b
<1>5. /\ u \in Seq(Deck) /\ Len(u) = at + n
      /\ \A i \in 1..(at + n) : u[i] = IF i <= at THEN a[i] ELSE cards[i - at]
  BY <1>2, ConcatProperties DEF n
<1>6. /\ v \in Seq(Deck) /\ Len(v) = at + n + (m - at)
      /\ \A i \in 1..(at + n + (m - at)) :
           v[i] = IF i <= at + n THEN u[i] ELSE b[i - (at + n)]
  <2> HIDE DEF u
  <2>1. /\ u \o b \in Seq(Deck) /\ Len(u \o b) = Len(u) + Len(b)
        /\ \A i \in 1..(Len(u) + Len(b)) :
             (u \o b)[i] = IF i <= Len(u) THEN u[i] ELSE b[i - Len(u)]
    BY <1>3, <1>5, ConcatProperties
  <2> QED BY <1>3, <1>5, <2>1, Zenon
<1> HIDE DEF u, v
<1>7. \A i \in 1..at : v[i] = s[i]
  <2> SUFFICES ASSUME NEW i \in 1..at PROVE v[i] = s[i]
    OBVIOUS
  <2>1. i \in 1..(at + n + (m - at)) /\ i <= at + n /\ i \in 1..(at + n) /\ i <= at
    BY <1>1
  <2> QED BY <1>2, <1>5, <1>6, <2>1
<1>8. \A i \in 1..n : v[at + i] = cards[i]
  <2> SUFFICES ASSUME NEW i \in 1..n PROVE v[at + i] = cards[i]
    OBVIOUS
  <2>1. at + i \in 1..(at + n + (m - at)) /\ at + i <= at + n /\ at + i \in 1..(at + n)
        /\ ~(at + i <= at) /\ (at + i) - at = i
    BY <1>1
  <2> QED BY <1>5, <1>6, <2>1
<1>9. \A i \in (at + 1)..m : v[i + n] = s[i]
  <2> SUFFICES ASSUME NEW i \in (at + 1)..m PROVE v[i + n] = s[i]
    OBVIOUS
  <2>1. i + n \in 1..(at + n + (m - at)) /\ ~(i + n <= at + n)
        /\ (i + n) - (at + n) = i - at /\ i - at \in 1..(m - at) /\ at + (i - at) = i
    BY <1>1
  <2>2. v[i + n] = b[i - at]
    BY <1>6, <2>1
  <2>3. b[i - at] = s[at + (i - at)]
    BY <1>3, <2>1
  <2> QED BY <2>1, <2>2, <2>3
<1>10. at + n + (m - at) = m + n
  BY <1>1
<1> QED BY <1>4, <1>6, <1>7, <1>8, <1>9, <1>10 DEF u, v, m, n

\* Inserting other cards lists the cards of both.
LEMMA ListsInsert ==
  ASSUME NEW s, NEW cards, NEW X, NEW Y, Lists(s, X), Lists(cards, Y), X \cap Y = {},
         NEW at \in 0..Len(s)
  PROVE  Lists(Inserted(s, at, cards), X \cup Y)
<1> DEFINE m == Len(s)
           A == FirstCards(s, at)
           B == LastCards(s, at)
<1>1. /\ Lists(SubSeq(s, 1, at), A) /\ Lists(SubSeq(s, at + 1, m), B)
      /\ A \cup B = X /\ A \cap B = {}
  BY ListsCut
<1> HIDE DEF A, B
<1>2. Lists(SubSeq(s, 1, at) \o cards, A \cup Y)
  BY <1>1, ListsConcat
<1>3. Lists((SubSeq(s, 1, at) \o cards) \o SubSeq(s, at + 1, m), (A \cup Y) \cup B)
  BY <1>1, <1>2, ListsConcat
<1>4. (A \cup Y) \cup B = X \cup Y
  BY <1>1
<1> QED BY <1>3, <1>4 DEF Inserted

\* One card in the place of another.
LEMMA ListsReplace ==
  ASSUME NEW s, NEW X, Lists(s, X), NEW i \in DOMAIN s, NEW card \in Deck, card \notin X \ {s[i]}
  PROVE  Lists([s EXCEPT ![i] = card], (X \ {s[i]}) \cup {card}) /\ s[i] \in X
<1> DEFINE t == [s EXCEPT ![i] = card]
           n == Len(s)
<1>1. /\ s \in Seq(Deck) /\ n \in Nat /\ i \in 1..n /\ X = {s[k] : k \in 1..n}
      /\ \A j, k \in 1..n : s[j] = s[k] => j = k
  BY SeqCards DEF Lists
<1>2. t \in Seq(Deck) /\ Len(t) = n /\ \A j \in 1..n : t[j] = IF j = i THEN card ELSE s[j]
  BY <1>1, ExceptSeq
<1> HIDE DEF t, n
<1>3. {t[j] : j \in 1..n} = (X \ {s[i]}) \cup {card}
  <2>1. \A j \in 1..n : t[j] \in (X \ {s[i]}) \cup {card}
    BY <1>1, <1>2
  <2>2. \A x \in (X \ {s[i]}) \cup {card} : \E j \in 1..n : t[j] = x
    BY <1>1, <1>2
  <2> QED BY <2>1, <2>2
<1>4. \A j, k \in 1..n : t[j] = t[k] => j = k
  BY <1>1, <1>2
<1>5. Lists(t, (X \ {s[i]}) \cup {card})
  BY <1>2, <1>3, <1>4, SeqCards DEF Lists
<1> QED BY <1>1, <1>5 DEF t

\* A composition is made of the cards it is given.
LEMMA NewCompositionCards ==
  ASSUME NEW cards, NEW X, Lists(cards, X), NEW v \in Variants, NEW e \in newComposition(cards, v)
  PROVE  e \in Compositions /\ e.variant = v /\ Lists(e.cards, X)
<1>1. cards \in Seq(Deck)
  BY DEF Lists
<1>2. e \in Compositions /\ e.variant = v /\ Permuted(cards, e.cards)
  BY <1>1, DeckIsOK, NewCompositionKeepsCards DEF DeckOK, Compositions
<1> QED BY <1>2, ListsPermuted

\* A new composition has the cards that were laid down.
LEMMA LaidCards ==
  ASSUME NEW cards, NEW X, Lists(cards, X), NEW e \in laidComposition(cards)
  PROVE  Lists(e.cards, X)
<1>1. PICK c \in inferComposition(cards) :
        e = [c EXCEPT !.cards = IF c.variant = "run" THEN normalizeRunCards(@) ELSE @]
  BY DEF laidComposition
<1>2. c \in newComposition(cards, "set") \/ c \in newComposition(cards, "run")
  BY DEF inferComposition
<1>3. c \in Compositions /\ Lists(c.cards, X)
  BY <1>2, NewCompositionCards DEF Variants
<1>4. c.cards \in Seq(Deck) /\ e.cards = IF c.variant = "run" THEN normalizeRunCards(c.cards) ELSE c.cards
  BY <1>1, <1>3 DEF Compositions
<1>5. Permuted(c.cards, normalizeRunCards(c.cards))
  BY <1>4, DeckIsOK, NormalizePermutes DEF DeckOK
<1>6. Lists(normalizeRunCards(c.cards), X)
  BY <1>3, <1>5, ListsPermuted
<1> QED BY <1>3, <1>4, <1>6

\* An extended composition has its cards and the added ones.
LEMMA InsertedCards ==
  ASSUME NEW c \in Compositions, NEW X, Lists(c.cards, X), NEW at, NEW cards, NEW Y,
         Lists(cards, Y), X \cap Y = {}, NEW e \in WithInsertedCards(c, at, cards)
  PROVE  e \in Compositions /\ Lists(e.cards, X \cup Y)
<1>1. /\ at \in 0..Len(c.cards)
      /\ e \in newComposition(Inserted(c.cards, at, cards), c.variant)
  BY DEF WithInsertedCards, Inserted
<1>2. Lists(Inserted(c.cards, at, cards), X \cup Y)
  BY <1>1, ListsInsert
<1>3. c.variant \in Variants
  BY DEF Compositions
<1> QED BY <1>1, <1>2, <1>3, NewCompositionCards

\* A reclaim exchanges the joker for the card.
LEMMA ReclaimedCards ==
  ASSUME NEW c \in Compositions, NEW X, Lists(c.cards, X), NEW i, NEW card \in Deck,
         NEW e \in ReclaimJoker(c, i, card), card \notin X
  PROVE  /\ e \in Compositions /\ Lists(e.cards, (X \ {c.cards[i]}) \cup {card})
         /\ c.cards[i] \in X
<1>1. i \in DOMAIN c.cards /\ e \in newComposition([c.cards EXCEPT ![i] = card], c.variant)
  BY DEF ReclaimJoker, canReclaimJoker, jokerCardIndices
<1>2. Lists([c.cards EXCEPT ![i] = card], (X \ {c.cards[i]}) \cup {card}) /\ c.cards[i] \in X
  BY <1>1, ListsReplace
<1>3. c.variant \in Variants
  BY DEF Compositions
<1> QED BY <1>1, <1>2, <1>3, NewCompositionCards

\* In a set with two jokers neither stands for one card only.
LEMMA TwoJokersAreAmbiguous ==
  ASSUME NEW c \in Compositions, c.variant = "set", Len(c.cards) <= 4,
         NEW i \in jokerCardIndices(c.cards), NEW j \in jokerCardIndices(c.cards), i # j, NEW card
  PROVE  ~canReclaimJoker(c, i, card)
<1> DEFINE cards == c.cards
           real  == nonJokerCards(cards)
           used  == {cards[k].suit : k \in real}
           rank  == cards[Min(real)].rank
<1>1. cards \in Seq(Deck)
  BY DEF Compositions
<1>2. DOMAIN cards \subseteq 1..4
  <2>1. Len(cards) \in Nat /\ DOMAIN cards = 1..Len(cards)
    BY <1>1, SeqCards
  <2> QED BY <2>1
<1>3. i \in 1..4 /\ j \in 1..4
  BY <1>2 DEF jokerCardIndices
<1>4. PICK k \in 1..4, l \in 1..4 : (1..4) \ {i, j} \subseteq {k, l}
  <2>1. \E k \in 1..4, l \in 1..4 : \A m \in 1..4 : m = i \/ m = j \/ m = k \/ m = l
    BY <1>3
  <2> QED BY <2>1
<1>5. real \subseteq {k, l}
  BY <1>2, <1>4 DEF nonJokerCards, jokerCardIndices
<1>6. used \subseteq {cards[k].suit, cards[l].suit}
  BY <1>5
<1>7. PICK s \in 1..4, t \in 1..4 : s # t /\ s \notin used /\ t \notin used
  <2>1. \A a, b : \E s, t \in {1, 2, 3, 4} : s # t /\ s # a /\ s # b /\ t # a /\ t # b
    OBVIOUS
  <2>2. PICK s, t \in {1, 2, 3, 4} : /\ s # t
                                     /\ s # cards[k].suit /\ s # cards[l].suit
                                     /\ t # cards[k].suit /\ t # cards[l].suit
    BY <2>1
  <2>3. s \in 1..4 /\ t \in 1..4
    BY <2>2
  <2>4. s \notin used /\ t \notin used
    <3> HIDE DEF used
    <3> QED BY <1>6, <2>2
  <2> HIDE DEF used
  <2> QED BY <2>2, <2>3, <2>4
<1>8. CASE real = {}
  <2>1. jokerRepresentations(c, i) = {Face(r, u) : r \in Ace..King, u \in Suits}
    BY <1>8 DEF jokerRepresentations
  <2>2. Face(1, 1) \in jokerRepresentations(c, i) /\ Face(1, 2) \in jokerRepresentations(c, i)
    BY <2>1 DEF Ace, King, Suits
  <2>3. Face(1, 1) # Face(1, 2)
    BY DEF Face
  <2> QED BY <2>2, <2>3 DEF canReclaimJoker
<1>9. CASE real # {}
  <2>1. jokerRepresentations(c, i) = {Face(rank, u) : u \in Suits \ used}
    BY <1>9 DEF jokerRepresentations
  <2> HIDE DEF rank, used
  <2>2. Face(rank, s) \in jokerRepresentations(c, i) /\ Face(rank, t) \in jokerRepresentations(c, i)
    BY <1>7, <2>1 DEF Suits
  <2>3. Face(rank, s) # Face(rank, t)
    BY <1>7 DEF Face
  <2> QED BY <2>2, <2>3 DEF canReclaimJoker
<1> QED BY <1>8, <1>9

\* The reclaim, if there is one, from a composition.
LEMMA WithReclaimsCards ==
  ASSUME NEW c \in Compositions, NEW X, Lists(c.cards, X), NEW reclaims,
         \A q, r \in reclaims : q = r,
         \A r \in reclaims : r.card \in Deck /\ r.card \notin X,
         NEW e \in withReclaims(c, reclaims)
  PROVE  /\ e \in Compositions
         /\ Lists(e.cards, (X \ {c.cards[r.joker] : r \in reclaims}) \cup {r.card : r \in reclaims})
<1>1. CASE reclaims = {}
  <2>1. e = c
    BY <1>1 DEF withReclaims
  <2>2. (X \ {c.cards[r.joker] : r \in reclaims}) \cup {r.card : r \in reclaims} = X
    BY <1>1
  <2> QED BY <2>1, <2>2
<1>2. CASE reclaims # {}
  <2>1. PICK r \in reclaims : e \in ReclaimJoker(c, r.joker, r.card)
    BY <1>2 DEF withReclaims
  <2>2. e \in Compositions /\ Lists(e.cards, (X \ {c.cards[r.joker]}) \cup {r.card})
    BY <2>1, ReclaimedCards
  <2>3. /\ {c.cards[q.joker] : q \in reclaims} = {c.cards[r.joker]}
        /\ {q.card : q \in reclaims} = {r.card}
    BY <2>1
  <2> QED BY <2>2, <2>3
<1> QED BY <1>1, <1>2

\* The addition, if there is one, to a composition.
LEMMA WithAdditionsCards ==
  ASSUME NEW c \in Compositions, NEW X, Lists(c.cards, X), NEW additions,
         \A a, b \in additions : a = b,
         \A a \in additions : a.cards \in Seq(Deck) /\ IsInjective(a.cards),
         X \cap (UNION {ToSet(a.cards) : a \in additions}) = {},
         NEW x \in withAdditions(c, additions)
  PROVE  /\ x.comp \in Compositions
         /\ Lists(x.comp.cards, X \cup (UNION {ToSet(a.cards) : a \in additions}))
<1>1. CASE additions = {}
  <2>1. x = [comp |-> c, points |-> 0]
    BY <1>1 DEF withAdditions
  <2>2. X \cup (UNION {ToSet(a.cards) : a \in additions}) = X
    BY <1>1
  <2> QED BY <2>1, <2>2
<1>2. CASE additions # {}
  <2>1. PICK f \in UNION {WithInsertedCards(c, a.at, a.cards) : a \in additions} :
          x = [comp |-> f, points |-> Points(f) - Points(c)]
    BY <1>2 DEF withAdditions
  <2>2. PICK a \in additions : f \in WithInsertedCards(c, a.at, a.cards)
    BY <2>1
  <2>3. UNION {ToSet(b.cards) : b \in additions} = ToSet(a.cards)
    BY <2>2
  <2>4. Lists(a.cards, ToSet(a.cards))
    BY <2>2 DEF Lists
  <2>5. f \in Compositions /\ Lists(f.cards, X \cup ToSet(a.cards))
    BY <2>2, <2>3, <2>4, InsertedCards
  <2> QED BY <2>1, <2>3, <2>5
<1> QED BY <1>1, <1>2

\* Where a joker is after an addition to its set.
LEMMA MovedJoker ==
  ASSUME NEW c \in Compositions, c.variant = "set", NEW at, NEW cards \in Seq(Deck),
         NEW e \in WithInsertedCards(c, at, cards), NEW i \in DOMAIN c.cards,
         NEW k, k = i + (IF at < i THEN Len(cards) ELSE 0)
  PROVE  /\ e.variant = "set" /\ Len(e.cards) <= 4
         /\ k \in DOMAIN e.cards /\ e.cards[k] = c.cards[i]
         /\ \A m \in DOMAIN cards : \E l \in DOMAIN e.cards : l # k /\ e.cards[l] = cards[m]
<1> DEFINE s == c.cards
           all == Inserted(s, at, cards)
           n == Len(cards)
<1>1. /\ s \in Seq(Deck) /\ Len(s) \in Nat /\ DOMAIN s = 1..Len(s)
      /\ n \in Nat /\ DOMAIN cards = 1..n
  BY SeqCards DEF Compositions
<1>2. /\ at \in 0..Len(s)
      /\ e \in newComposition(all, "set")
  BY DEF WithInsertedCards, Inserted
<1>3. /\ all \in Seq(Deck) /\ Len(all) = Len(s) + n
      /\ \A m \in 1..at : all[m] = s[m]
      /\ \A m \in 1..n : all[at + m] = cards[m]
      /\ \A m \in (at + 1)..Len(s) : all[m + n] = s[m]
  BY <1>1, <1>2, InsertPositions
<1> HIDE DEF all, n, s
<1>4. e = [variant |-> "set", cards |-> all] /\ Len(all) \in 3..4
  BY <1>2 DEF newComposition, isValid, isValidSet
<1>5. DOMAIN all = 1..(Len(s) + n)
  BY <1>3, SeqCards
<1>6. i \in 1..Len(s) /\ i \in Int /\ at \in Int
  BY <1>1, <1>2 DEF s
<1>7. k \in 1..(Len(s) + n) /\ all[k] = s[i] /\ k \notin (at + 1)..(at + n)
  <2>1. CASE at < i
    <3>1. k = i + n /\ i \in (at + 1)..Len(s)
      BY <1>1, <1>6, <2>1 DEF n
    <3>2. k \in 1..(Len(s) + n) /\ k \notin (at + 1)..(at + n)
      BY <1>1, <1>6, <3>1
    <3>3. all[i + n] = s[i]
      BY <1>3, <3>1
    <3> QED BY <3>1, <3>2, <3>3
  <2>2. CASE ~(at < i)
    <3>1. k = i /\ i \in 1..at
      BY <1>1, <1>6, <2>2
    <3> QED BY <1>1, <1>3, <1>6, <3>1
  <2> QED BY <2>1, <2>2
<1>8. \A m \in 1..n : at + m \in 1..(Len(s) + n) /\ at + m # k /\ all[at + m] = cards[m]
  BY <1>1, <1>2, <1>3, <1>7
<1>9. e.variant = "set" /\ e.cards = all /\ Len(all) <= 4
  <2>1. \A m \in 3..4 : m <= 4
    OBVIOUS
  <2>2. Len(all) <= 4
    BY <1>4, <2>1
  <2> QED BY <1>4, <2>2
<1>10. \A m \in DOMAIN cards : \E l \in DOMAIN all : l # k /\ all[l] = cards[m]
  BY <1>1, <1>5, <1>8
<1> QED BY <1>5, <1>7, <1>9, <1>10 DEF s

\* The cards of one addition, counted.
LEMMA CountAdded ==
  ASSUME NEW a, NEW cards \in Seq(Deck)
  PROVE  Cardinality({<<a, k>> : k \in DOMAIN cards}) = Len(cards)
<1> DEFINE n == Len(cards)
           T == {<<a, k>> : k \in 1..n}
           f == [k \in 1..n |-> <<a, k>>]
<1>1. n \in Nat /\ DOMAIN cards = 1..n
  BY SeqCards
<1>2. f \in Bijection(1..n, T)
  BY DEF Bijection, Injection, Surjection, IsInjective
<1>3. ExistsBijection(1..n, T)
  BY <1>2 DEF ExistsBijection
<1>4. Cardinality(T) = n
  <2> HIDE DEF T, n
  <2> QED BY <1>1, <1>3, FS_CountingElements
<1> QED BY <1>1, <1>4

\* An addition and a reclaim together.  When the reclaim waits for the addition, the
\* addition cannot bring the reclaimed joker back: with two jokers the set would
\* still be ambiguous.
LEMMA DeferredCards ==
  ASSUME NEW c \in Compositions, NEW X, Lists(c.cards, X), c.variant = "set",
         NEW joker \in jokerCardIndices(c.cards), NEW card \in Deck, card \notin X,
         NEW at, NEW cards \in Seq(Deck), IsInjective(cards),
         ToSet(cards) \cap (X \ {c.cards[joker]}) = {}, card \notin ToSet(cards),
         NEW f \in WithInsertedCards(c, at, cards),
         NEW e \in ReclaimJoker(f, joker + (IF at < joker THEN Len(cards) ELSE 0), card)
  PROVE  Lists(e.cards, ((X \ {c.cards[joker]}) \cup {card}) \cup ToSet(cards))
<1> DEFINE k == joker + (IF at < joker THEN Len(cards) ELSE 0)
           J == c.cards[joker]
           Y == ToSet(cards)
<1>1. joker \in DOMAIN c.cards /\ IsJoker(J)
  BY DEF jokerCardIndices
<1>2. /\ f.variant = "set" /\ Len(f.cards) <= 4
      /\ k \in DOMAIN f.cards /\ f.cards[k] = J
      /\ \A m \in DOMAIN cards : \E l \in DOMAIN f.cards : l # k /\ f.cards[l] = cards[m]
  BY <1>1, MovedJoker
<1>3. canReclaimJoker(f, k, card)
  BY DEF ReclaimJoker
<1>4. f \in Compositions
  <2>1. at \in 0..Len(c.cards) /\ c.cards \in Seq(Deck)
    BY DEF WithInsertedCards, Compositions
  <2>2. at \in Int
    BY <2>1, LenProperties
  <2> QED BY <2>2, DeckIsOK, InsertedIsComposition
<1> HIDE DEF k, J
<1>5. J \notin Y
  <2> SUFFICES ASSUME J \in Y PROVE FALSE
    OBVIOUS
  <2>1. PICK m \in DOMAIN cards : cards[m] = J
    BY DEF ToSet
  <2>2. PICK l \in DOMAIN f.cards : l # k /\ f.cards[l] = J
    BY <1>2, <2>1
  <2>3. k \in jokerCardIndices(f.cards) /\ l \in jokerCardIndices(f.cards)
    BY <1>1, <1>2, <2>2 DEF jokerCardIndices
  <2> QED BY <1>2, <1>3, <1>4, <2>2, <2>3, TwoJokersAreAmbiguous
<1>6. X \cap Y = {} /\ card \notin X \cup Y
  BY <1>5 DEF J
<1>7. Lists(cards, Y)
  BY DEF Lists
<1>8. Lists(f.cards, X \cup Y)
  BY <1>6, <1>7, InsertedCards
<1>9. Lists(e.cards, ((X \cup Y) \ {J}) \cup {card})
  BY <1>2, <1>4, <1>6, <1>8, ReclaimedCards DEF k
<1>10. ((X \cup Y) \ {J}) \cup {card} = ((X \ {J}) \cup {card}) \cup Y
  BY <1>5
<1> QED BY <1>9, <1>10 DEF J

\* The reclaims that wait for the additions, and where their jokers are then.
Deferred(c, reclaims) == {r \in reclaims : isAmbiguousSetReclaim(c, r.joker, r.card)}

MovedBy(additions, r) ==
  [r EXCEPT !.joker = @ + Cardinality(
     {ak \in UNION {{<<a, k>> : k \in DOMAIN a.cards} : a \in additions} : ak[1].at < r.joker})]

\* The three steps of an update.
LEMMA UpdateSteps ==
  ASSUME NEW c, NEW additions, NEW reclaims, NEW u \in updatedComposition(c, additions, reclaims)
  PROVE  \E d \in withReclaims(c, reclaims \ Deferred(c, reclaims)) :
           \E x \in withAdditions(d, additions) :
             u.comp \in withReclaims(x.comp, {MovedBy(additions, r) : r \in Deferred(c, reclaims)})
<1> DEFINE deferred == Deferred(c, reclaims)
           late     == {MovedBy(additions, r) : r \in deferred}
<1>1. \E x \in UNION {withAdditions(d, additions) : d \in withReclaims(c, reclaims \ deferred)} :
        \E e \in withReclaims(x.comp, late) : u = [x EXCEPT !.comp = e]
  BY DEF updatedComposition, Deferred, MovedBy
<1>2. PICK x \in UNION {withAdditions(d, additions) : d \in withReclaims(c, reclaims \ deferred)} :
        \E e \in withReclaims(x.comp, late) : u = [x EXCEPT !.comp = e]
  BY <1>1
<1> HIDE DEF late, deferred
<1>3. PICK d \in withReclaims(c, reclaims \ deferred) : x \in withAdditions(d, additions)
  OBVIOUS
<1>4. PICK e \in withReclaims(x.comp, late) : u = [x EXCEPT !.comp = e]
  BY <1>2
<1>5. \E f, n : x = [comp |-> f, points |-> n]
  BY <1>3 DEF withAdditions
<1>6. u.comp = e
  BY <1>4, <1>5
<1> QED BY <1>3, <1>4, <1>6 DEF late, deferred

\* Reclaims from a composition.
ReclaimsFrom(c) == [target : {c}, joker : Int, card : Deck]

\* How far a joker moves.
LEMMA MovedByResult ==
  ASSUME NEW c, NEW additions, \A a, b \in additions : a = b,
         \A a \in additions : a.cards \in Seq(Deck),
         NEW r \in ReclaimsFrom(c)
  PROVE  /\ MovedBy(additions, r).card = r.card
         /\ additions = {} => MovedBy(additions, r).joker = r.joker
         /\ \A a \in additions : MovedBy(additions, r).joker
                                  = r.joker + (IF a.at < r.joker THEN Len(a.cards) ELSE 0)
<1> DEFINE inserted == UNION {{<<a, k>> : k \in DOMAIN a.cards} : a \in additions}
           before   == {ak \in inserted : ak[1].at < r.joker}
<1>1. /\ MovedBy(additions, r).card = r.card
      /\ MovedBy(additions, r).joker = r.joker + Cardinality(before)
  BY DEF MovedBy, ReclaimsFrom
<1>2. ASSUME additions = {}
      PROVE  MovedBy(additions, r).joker = r.joker
  <2>1. before = {} /\ r.joker \in Int
    BY <1>2 DEF ReclaimsFrom
  <2>2. Cardinality(before) = 0
    BY <2>1, FS_EmptySet
  <2> HIDE DEF before
  <2> QED BY <1>1, <2>1, <2>2
<1>3. ASSUME NEW a \in additions
      PROVE  MovedBy(additions, r).joker = r.joker + (IF a.at < r.joker THEN Len(a.cards) ELSE 0)
  <2>1. additions = {a}
    BY <1>3
  <2>2. inserted = {<<a, m>> : m \in DOMAIN a.cards}
    BY <2>1
  <2>3. CASE a.at < r.joker
    <3>1. before = {<<a, m>> : m \in DOMAIN a.cards}
      BY <2>2, <2>3
    <3>2. Cardinality(before) = Len(a.cards)
      BY <3>1, CountAdded
    <3> HIDE DEF before
    <3> QED BY <1>1, <2>3, <3>2
  <2>4. CASE ~(a.at < r.joker)
    <3>1. before = {}
      BY <2>2, <2>4
    <3>2. Cardinality(before) = 0
      BY <3>1, FS_EmptySet
    <3> HIDE DEF before
    <3> QED BY <1>1, <2>4, <3>2
  <2> QED BY <2>3, <2>4
<1> QED BY <1>1, <1>2, <1>3

\* All that one request does to one composition: it loses the reclaimed joker and
\* gains the card that took its place and the added cards, and nothing else.
LEMMA UpdatedCards ==
  ASSUME NEW c \in Compositions, NEW X, Lists(c.cards, X), NEW additions, NEW reclaims,
         \A a, b \in additions : a = b,
         \A q, r \in reclaims : q = r,
         \A a \in additions : a.cards \in Seq(Deck) /\ IsInjective(a.cards),
         \A r \in reclaims : r \in [target : {c}, joker : jokerCardIndices(c.cards), card : Deck],
         NEW R, R = {c.cards[r.joker] : r \in reclaims},
         NEW S, S = {r.card : r \in reclaims},
         NEW A, A = UNION {ToSet(a.cards) : a \in additions},
         S \cap X = {}, A \cap S = {}, A \cap (X \ R) = {},
         NEW u \in updatedComposition(c, additions, reclaims)
  PROVE  Lists(u.comp.cards, ((X \ R) \cup S) \cup A)
<1> DEFINE deferred == Deferred(c, reclaims)
<1> DEFINE e == u.comp
<1>0. PICK d \in withReclaims(c, reclaims \ deferred) :
        \E x \in withAdditions(d, additions) :
          e \in withReclaims(x.comp, {MovedBy(additions, r) : r \in deferred})
  BY ONLY u \in updatedComposition(c, additions, reclaims), UpdateSteps
<1> HIDE DEF e
<1>1. PICK x \in withAdditions(d, additions) :
        e \in withReclaims(x.comp, {MovedBy(additions, r) : r \in deferred})
  BY <1>0
<1>2. e \in withReclaims(x.comp, {MovedBy(additions, r) : r \in deferred})
  BY <1>1
<1>3. CASE deferred = {}
  <2>1. {MovedBy(additions, r) : r \in deferred} = {} /\ reclaims \ deferred = reclaims
    BY <1>3
  <2> HIDE DEF deferred
  <2>2. e = x.comp
    BY <1>2, <2>1 DEF withReclaims
  <2>3. \A r \in reclaims : r.card \in Deck /\ r.card \notin X
    OBVIOUS
  <2>4. d \in Compositions /\ Lists(d.cards, (X \ R) \cup S)
    BY <1>1, <2>1, <2>3, WithReclaimsCards
  <2>5. ((X \ R) \cup S) \cap A = {}
    OBVIOUS
  <2>6. Lists(x.comp.cards, ((X \ R) \cup S) \cup A)
    BY <1>1, <2>4, <2>5, WithAdditionsCards
  <2> QED BY <2>2, <2>6 DEF e
<1>4. CASE deferred # {}
  <2>1. PICK r \in reclaims : isAmbiguousSetReclaim(c, r.joker, r.card)
    BY <1>4 DEF Deferred
  <2>2. deferred = {r} /\ reclaims = {r} /\ reclaims \ deferred = {}
    BY <2>1 DEF Deferred
  <2> HIDE DEF deferred
  <2>3. /\ c.variant = "set" /\ r.joker \in jokerCardIndices(c.cards)
        /\ r.card \in Deck /\ R = {c.cards[r.joker]} /\ S = {r.card}
    BY <2>1, <2>2 DEF isAmbiguousSetReclaim
  <2>4. d = c
    BY <1>1, <2>2 DEF withReclaims
  <2> DEFINE k == MovedBy(additions, r).joker
  <2>5. r \in ReclaimsFrom(c)
    <3>1. c.cards \in Seq(Deck)
      BY DEF Compositions
    <3>2. r.joker \in Int
      BY <2>3, <3>1, SeqCards DEF jokerCardIndices
    <3> QED BY <2>1, <3>2 DEF ReclaimsFrom
  <2>6. /\ MovedBy(additions, r).card = r.card
        /\ additions = {} => k = r.joker
        /\ \A a \in additions : k = r.joker + (IF a.at < r.joker THEN Len(a.cards) ELSE 0)
    BY <2>5, MovedByResult
  <2>7. e \in ReclaimJoker(x.comp, k, r.card)
    <3>1. {MovedBy(additions, q) : q \in deferred} = {MovedBy(additions, r)}
      BY <2>2
    <3>2. e \in UNION {ReclaimJoker(x.comp, q.joker, q.card) : q \in {MovedBy(additions, r)}}
      BY <1>2, <3>1 DEF withReclaims
    <3> QED BY <2>6, <3>2
  <2> HIDE DEF k
  <2>8. CASE additions = {}
    <3>1. x = [comp |-> c, points |-> 0] /\ A = {} /\ k = r.joker
      BY <1>1, <2>4, <2>6, <2>8 DEF withAdditions
    <3>2. e \in ReclaimJoker(c, r.joker, r.card) /\ r.card \notin X
      BY <2>3, <2>7, <3>1
    <3>3. Lists(e.cards, (X \ {c.cards[r.joker]}) \cup {r.card})
      BY <2>3, <3>2, ReclaimedCards
    <3>4. ((X \ R) \cup S) \cup A = (X \ {c.cards[r.joker]}) \cup {r.card}
      BY <2>3, <3>1
    <3> QED BY <3>3, <3>4 DEF e
  <2>9. CASE additions # {}
    <3>1. PICK f \in UNION {WithInsertedCards(c, a.at, a.cards) : a \in additions} :
            x = [comp |-> f, points |-> Points(f) - Points(c)]
      BY <1>1, <2>4, <2>9 DEF withAdditions
    <3>2. PICK a \in additions : f \in WithInsertedCards(c, a.at, a.cards)
      BY <3>1
    <3>3. A = ToSet(a.cards) /\ a.cards \in Seq(Deck) /\ IsInjective(a.cards)
      BY <3>2
    <3>4. e \in ReclaimJoker(f, r.joker + (IF a.at < r.joker THEN Len(a.cards) ELSE 0), r.card)
      BY <2>6, <2>7, <3>1, <3>2
    <3>5. /\ r.card \notin X /\ r.card \notin ToSet(a.cards)
          /\ ToSet(a.cards) \cap (X \ {c.cards[r.joker]}) = {}
      BY <2>3, <3>3
    <3>6. Lists(e.cards, ((X \ {c.cards[r.joker]}) \cup {r.card}) \cup ToSet(a.cards))
      BY <2>3, <3>2, <3>3, <3>4, <3>5, DeferredCards
    <3> QED BY <2>3, <3>3, <3>6 DEF e
  <2> QED BY <2>8, <2>9
<1> QED BY <1>3, <1>4

-----------------------------------------------------------------------------
(***************************************************************************)
(* Table plays.                                                            *)
(***************************************************************************)
\* What a request says of one composition: its additions and reclaims, the cards they
\* take from it and those they bring.
AdditionsTo(req, c)  == {a \in req.additions : a.target = c}
ReclaimsOf(req, c)   == {r \in req.reclaims : r.target = c}
TakenFrom(req, c)    == {c.cards[r.joker] : r \in ReclaimsOf(req, c)}
SwappedInto(req, c)  == {r.card : r \in ReclaimsOf(req, c)}
AddedTo(req, c)      == UNION {ToSet(a.cards) : a \in AdditionsTo(req, c)}
BroughtTo(req, c)    == SwappedInto(req, c) \cup AddedTo(req, c)

\* A request changes compositions of its table, each by one addition and one reclaim
\* at most, and reclaims with cards of the hand.
RequestFits(req, cards, table) ==
  /\ onePerTarget(req.additions) /\ onePerTarget(req.reclaims)
  /\ \A a \in req.additions : a.target \in table
  /\ \A r \in req.reclaims :
       /\ r.target \in table
       /\ r \in [target : {r.target}, joker : jokerCardIndices(r.target.cards), card : cards]

\* Every request does.
LEMMA RequestsFit ==
  ASSUME NEW cards \in SUBSET Deck, NEW table \in SUBSET Compositions,
         NEW req \in Requests(cards, table)
  PROVE  RequestFits(req, cards, table)
<1>1. PICK reclaims \in AtMost(MaxReclaims, possibleReclaims(cards, table)) :
        /\ onePerTarget(reclaims)
        /\ LET held == cards \cup reclaimedCards(reclaims)
           IN  req \in [comps     : AtMost(MaxNewComps, UNION {Layouts(g) : g \in SUBSET held}),
                        additions : {as \in AtMost(MaxAdditions, possibleAdditions(held, table)) :
                                       onePerTarget(as)},
                        reclaims  : {reclaims}]
  BY DEF Requests
<1> DEFINE held == cards \cup reclaimedCards(reclaims)
<1>2. /\ req.additions \in AtMost(MaxAdditions, possibleAdditions(held, table))
      /\ onePerTarget(req.additions) /\ onePerTarget(req.reclaims)
      /\ req.reclaims = reclaims
  BY <1>1
<1>3. ASSUME NEW r \in req.reclaims
      PROVE  /\ r.target \in table
             /\ r \in [target : {r.target}, joker : jokerCardIndices(r.target.cards), card : cards]
  <2>1. r \in possibleReclaims(cards, table)
    BY <1>2, <1>3, AtMostSubset
  <2>2. PICK c \in table : r \in [target : {c}, joker : jokerCardIndices(c.cards), card : cards]
    BY <2>1 DEF possibleReclaims
  <2>3. r.target = c
    BY <2>2
  <2> QED BY <2>2, <2>3
<1>4. ASSUME NEW a \in req.additions
      PROVE  a.target \in table
  <2> HIDE DEF held
  <2>1. a \in possibleAdditions(held, table)
    BY <1>2, <1>4, AtMostSubset
  <2>2. PICK c \in table :
          a \in [target : {c}, at : 0..Len(c.cards),
                 cards : UNION {SetToSeqs(g) : g \in canInsertCardsIntoComposition(c, held)}]
    BY <2>1 DEF possibleAdditions
  <2>3. a.target = c
    BY <2>2
  <2> QED BY <2>2, <2>3
<1> QED BY <1>2, <1>3, <1>4 DEF RequestFits

\* What an accepted play leaves: the cards named are held, no card is named twice, and
\* the new table is made of the changed and the new compositions.
LEMMA AcceptedPlay ==
  ASSUME NEW cards, NEW opened, NEW table, NEW req,
         NEW next \in applyTablePlayState(cards, opened, table, req)
  PROVE  /\ playedCards(req) \subseteq cards \cup reclaimedCards(req.reclaims)
         /\ namesNoCardTwice(req)
         /\ next.hand = (cards \cup reclaimedCards(req.reclaims)) \ playedCards(req)
         /\ \E updated \in [table -> UNION {updatedTable(table, req)[c] : c \in table}],
               laid \in [req.comps -> UNION {laidComposition(t) : t \in req.comps}] :
              /\ \A c \in table : updated[c] \in
                   updatedComposition(c, AdditionsTo(req, c), ReclaimsOf(req, c))
              /\ \A t \in req.comps : laid[t] \in laidComposition(t)
              /\ next.table = {updated[c].comp : c \in table} \cup {laid[t] : t \in req.comps}
<1> DEFINE laids      == [t \in req.comps |-> laidComposition(t)]
           updates    == updatedTable(table, req)
           Laid(t)    == CHOOSE c \in laids[t] : TRUE
           Updated(c) == CHOOSE u \in updates[c] : TRUE
           left       == (cards \cup reclaimedCards(req.reclaims)) \ playedCards(req)
<1>1. next \in acceptedPlay(cards, opened, req, laids, updates)
  BY DEF applyTablePlayState
<1>2. DOMAIN laids = req.comps /\ DOMAIN updates = table
  BY DEF updatedTable
<1>3. /\ playedCards(req) \subseteq cards \cup reclaimedCards(req.reclaims)
      /\ namesNoCardTwice(req)
      /\ \A t \in req.comps : laids[t] # {}
      /\ \A c \in table : updates[c] # {}
      /\ next = [hand  |-> left,
                 table |-> {Updated(c).comp : c \in table} \cup {Laid(t) : t \in req.comps}]
  <2> HIDE DEF laids, updates
  <2> QED BY <1>1, <1>2 DEF acceptedPlay
<1>4. \A c \in table : updates[c] = updatedComposition(c, AdditionsTo(req, c), ReclaimsOf(req, c))
  BY DEF updatedTable, AdditionsTo, ReclaimsOf
<1>5. \A t \in req.comps : laids[t] = laidComposition(t)
  OBVIOUS
<1> DEFINE updated == [c \in table |-> Updated(c)]
           laid    == [t \in req.comps |-> Laid(t)]
<1>6. \A c \in table : updated[c] \in updates[c]
  BY <1>3
<1>7. \A t \in req.comps : laid[t] \in laids[t]
  BY <1>3
<1>8. next.table = {updated[c].comp : c \in table} \cup {laid[t] : t \in req.comps}
  BY <1>3
<1>9. DOMAIN updated = table /\ DOMAIN laid = req.comps
  OBVIOUS
<1>10. next.hand = left
  BY <1>3
<1>11. updated \in [table -> UNION {updates[c] : c \in table}]
  BY <1>6
<1>12. laid \in [req.comps -> UNION {laidComposition(t) : t \in req.comps}]
  BY <1>5, <1>7
<1> HIDE DEF updated, laid, laids, updates, left
<1> QED BY <1>3, <1>4, <1>5, <1>6, <1>7, <1>8, <1>10, <1>11, <1>12 DEF left, updates

\* On a table without a card twice, and with other cards in the hand, a request that
\* names no card twice brings different cards to different compositions, none of them
\* a card that stays on the table.
DisjointChanges(req, cards, table) ==
  /\ reclaimedCards(req.reclaims) \subseteq cardsOf(table)
  /\ (cardsOf(table) \ reclaimedCards(req.reclaims)) \cap playedCards(req) = {}
  /\ \A c \in table :
       ToSet(c.cards) \ TakenFrom(req, c) = ToSet(c.cards) \ reclaimedCards(req.reclaims)
  /\ \A c \in table : SwappedInto(req, c) \subseteq cards
  /\ \A c \in table : AddedTo(req, c) \cap SwappedInto(req, c) = {}
  /\ \A c \in table, t \in req.comps : BroughtTo(req, c) \cap ToSet(t) = {}
  /\ \A c, d \in table : c # d => BroughtTo(req, c) \cap BroughtTo(req, d) = {}
  /\ playedCards(req) = (UNION {BroughtTo(req, c) : c \in table})
                          \cup (UNION {ToSet(t) : t \in req.comps})

\* That is so for every request that names no card twice.
LEMMA ChangesAreDisjoint ==
  ASSUME NEW cards \in SUBSET Deck, NEW table \in SUBSET Compositions, noCardTwice(table),
         cards \cap cardsOf(table) = {},
         NEW req, RequestFits(req, cards, table), namesNoCardTwice(req),
         playedCards(req) \subseteq cards \cup reclaimedCards(req.reclaims)
  PROVE  DisjointChanges(req, cards, table)
<1> DEFINE T == cardsOf(table)
           R == reclaimedCards(req.reclaims)
           P == playedCards(req)
<1>1. \A r \in req.reclaims : r.target \in table /\ r.joker \in DOMAIN r.target.cards /\ r.card \in cards
  BY DEF RequestFits, jokerCardIndices
<1>2. \A r \in req.reclaims : r.target.cards[r.joker] \in ToSet(r.target.cards)
  BY <1>1 DEF ToSet
<1>3. R \subseteq T
  BY <1>1, <1>2 DEF reclaimedCards, cardsOf
<1>4. (T \ R) \cap P = {}
  OBVIOUS
<1>5. ASSUME NEW c \in table
      PROVE  ToSet(c.cards) \ TakenFrom(req, c) = ToSet(c.cards) \ R
  <2>1. ASSUME NEW x \in ToSet(c.cards), x \in R
        PROVE  x \in TakenFrom(req, c)
    <3>1. PICK r \in req.reclaims : x = r.target.cards[r.joker]
      BY <2>1 DEF reclaimedCards
    <3>2. x \in ToSet(r.target.cards) /\ r.target \in table
      BY <1>1, <1>2, <3>1
    <3>3. r.target = c
      BY <1>5, <2>1, <3>2 DEF noCardTwice
    <3> QED BY <3>1, <3>3 DEF TakenFrom, ReclaimsOf
  <2>2. TakenFrom(req, c) \subseteq R
    BY DEF TakenFrom, ReclaimsOf, reclaimedCards
  <2> QED BY <2>1, <2>2
<1>6. /\ \A c \in table : \A x \in SwappedInto(req, c) :
           \E r \in req.reclaims : r.target = c /\ x = r.card
      /\ \A c \in table : \A x \in AddedTo(req, c) :
           \E a \in req.additions : a.target = c /\ x \in ToSet(a.cards)
  BY DEF SwappedInto, AddedTo, ReclaimsOf, AdditionsTo
<1> DEFINE laid    == UNION {ToSet(s) : s \in req.comps}
           added   == UNION {ToSet(a.cards) : a \in req.additions}
           swapped == {r.card : r \in req.reclaims}
<1>7. /\ \A a, b \in req.additions : a = b \/ ToSet(a.cards) \cap ToSet(b.cards) = {}
      /\ \A q, r \in req.reclaims : q.card = r.card => q = r
      /\ laid \cap added = {} /\ (laid \cup added) \cap swapped = {}
  BY DEF namesNoCardTwice
<1>8. \A c \in table : SwappedInto(req, c) \subseteq swapped /\ AddedTo(req, c) \subseteq added
  BY <1>6
<1>9. \A c \in table : SwappedInto(req, c) \subseteq cards
  BY <1>1, <1>6
<1>10. \A c, d \in table : c # d => SwappedInto(req, c) \cap SwappedInto(req, d) = {}
  BY <1>6, <1>7
<1>11. \A c, d \in table : c # d => AddedTo(req, c) \cap AddedTo(req, d) = {}
  BY <1>6, <1>7
<1>12. \A c, d \in table : AddedTo(req, c) \cap SwappedInto(req, d) = {}
  BY <1>7, <1>8
<1>13. \A c \in table, s \in req.comps :
         BroughtTo(req, c) \cap ToSet(s) = {}
  <2>1. \A s \in req.comps : ToSet(s) \subseteq laid
    OBVIOUS
  <2> HIDE DEF laid, added, swapped
  <2> QED BY <1>7, <1>8, <2>1 DEF BroughtTo
<1>14. P = laid \cup added \cup swapped
  BY DEF playedCards
<1>15. swapped = UNION {SwappedInto(req, c) : c \in table}
  <2>1. \A r \in req.reclaims : r.card \in SwappedInto(req, r.target)
    BY DEF SwappedInto, ReclaimsOf
  <2>2. \A x \in swapped : \E c \in table : x \in SwappedInto(req, c)
    BY <1>1, <2>1
  <2> HIDE DEF swapped
  <2> QED BY <1>8, <2>2
<1>16. added = UNION {AddedTo(req, c) : c \in table}
  <2>1. \A a \in req.additions : ToSet(a.cards) \subseteq AddedTo(req, a.target) /\ a.target \in table
    BY DEF AddedTo, AdditionsTo, RequestFits
  <2>2. \A x \in added : \E c \in table : x \in AddedTo(req, c)
    BY <2>1
  <2> HIDE DEF added
  <2> QED BY <1>8, <2>2
<1>17. P = (UNION {BroughtTo(req, c) : c \in table}) \cup laid
  <2> HIDE DEF P, laid, added, swapped
  <2>1. \A x : x \in UNION {BroughtTo(req, c) : c \in table}
                 <=> x \in UNION {SwappedInto(req, c) : c \in table}
                       \/ x \in UNION {AddedTo(req, c) : c \in table}
    BY DEF BroughtTo
  <2> QED BY <1>14, <1>15, <1>16, <2>1
<1>18. \A c, d \in table : c # d => BroughtTo(req, c) \cap BroughtTo(req, d) = {}
  BY <1>10, <1>11, <1>12 DEF BroughtTo
<1> QED BY <1>3, <1>4, <1>5, <1>9, <1>12, <1>13, <1>17, <1>18 DEF DisjointChanges

\* An accepted play moves cards between the hand and the table: together they have the
\* same cards as before, and no card is in both or twice on the table.
LEMMA PlayKeepsCards ==
  ASSUME NEW cards \in SUBSET Deck, NEW opened, NEW table \in SUBSET Compositions,
         noCardTwice(table), cards \cap cardsOf(table) = {},
         NEW req \in Requests(cards, table),
         NEW next \in applyTablePlayState(cards, opened, table, req)
  PROVE  /\ noCardTwice(next.table)
         /\ next.hand \cup cardsOf(next.table) = cards \cup cardsOf(table)
         /\ next.hand \cap cardsOf(next.table) = {}
<1> DEFINE T == cardsOf(table)
           R == reclaimedCards(req.reclaims)
           P == playedCards(req)
           N(c) == BroughtTo(req, c)
<1>1. RequestFits(req, cards, table) /\ RequestOK(req)
  BY DeckIsOK, RequestsFit, RequestsAreOK
<1>2. P \subseteq cards \cup R /\ namesNoCardTwice(req) /\ next.hand = (cards \cup R) \ P
  BY AcceptedPlay
<1>3. /\ R \subseteq T /\ (T \ R) \cap P = {}
      /\ \A c \in table : ToSet(c.cards) \ TakenFrom(req, c) = ToSet(c.cards) \ R
      /\ \A c \in table : SwappedInto(req, c) \subseteq cards
      /\ \A c \in table : AddedTo(req, c) \cap SwappedInto(req, c) = {}
      /\ \A c \in table, t \in req.comps : N(c) \cap ToSet(t) = {}
      /\ \A c, d \in table : c # d => N(c) \cap N(d) = {}
      /\ P = (UNION {N(c) : c \in table}) \cup (UNION {ToSet(t) : t \in req.comps})
  <2>1. DisjointChanges(req, cards, table)
    BY <1>1, <1>2, ChangesAreDisjoint
  <2> QED BY <2>1 DEF DisjointChanges
<1>4. PICK updated, laid :
        /\ \A c \in table : updated[c] \in
             updatedComposition(c, AdditionsTo(req, c), ReclaimsOf(req, c))
        /\ \A t \in req.comps : laid[t] \in laidComposition(t)
        /\ next.table = {updated[c].comp : c \in table} \cup {laid[t] : t \in req.comps}
  BY AcceptedPlay
<1>5. ASSUME NEW c \in table
      PROVE  Lists(updated[c].comp.cards, (ToSet(c.cards) \ R) \cup N(c))
  <2>1. c \in Compositions /\ Lists(c.cards, ToSet(c.cards)) /\ ToSet(c.cards) \subseteq T
    BY DEF noCardTwice, Compositions, Lists, cardsOf
  <2>2. \A a, b \in AdditionsTo(req, c) : a = b
    BY <1>1 DEF AdditionsTo, RequestFits, onePerTarget
  <2>3. \A q, r \in ReclaimsOf(req, c) : q = r
    BY <1>1 DEF ReclaimsOf, RequestFits, onePerTarget
  <2>4. \A a \in AdditionsTo(req, c) : a.cards \in Seq(Deck) /\ IsInjective(a.cards)
    BY <1>1, <1>2 DEF AdditionsTo, RequestOK, namesNoCardTwice
  <2>5. \A r \in ReclaimsOf(req, c) :
          r \in [target : {c}, joker : jokerCardIndices(c.cards), card : Deck]
    BY <1>1 DEF ReclaimsOf, RequestFits
  <2>6. SwappedInto(req, c) \cap ToSet(c.cards) = {}
    BY <1>3, <2>1
  <2>7. AddedTo(req, c) \cap (ToSet(c.cards) \ TakenFrom(req, c)) = {}
    <3>1. AddedTo(req, c) \subseteq P
      BY <1>3 DEF BroughtTo
    <3> HIDE DEF P, T, R
    <3> QED BY <1>3, <2>1, <3>1
  <2>8. Lists(updated[c].comp.cards,
              ((ToSet(c.cards) \ TakenFrom(req, c)) \cup SwappedInto(req, c)) \cup AddedTo(req, c))
    BY <1>3, <1>4, <2>1, <2>2, <2>3, <2>4, <2>5, <2>6, <2>7, UpdatedCards
       DEF TakenFrom, SwappedInto, AddedTo
  <2>9. ((ToSet(c.cards) \ TakenFrom(req, c)) \cup SwappedInto(req, c)) \cup AddedTo(req, c)
          = (ToSet(c.cards) \ R) \cup N(c)
    <3> HIDE DEF R
    <3> QED BY <1>3 DEF BroughtTo
  <2> QED BY <2>8, <2>9
<1>6. ASSUME NEW t \in req.comps
      PROVE  Lists(laid[t].cards, ToSet(t))
  <2>1. Lists(t, ToSet(t))
    BY <1>1, <1>2 DEF RequestOK, namesNoCardTwice, Lists
  <2> QED BY <1>4, <2>1, LaidCards
<1> DEFINE K(c) == (ToSet(c.cards) \ R) \cup N(c)
<1>7. /\ \A c \in table : ToSet(updated[c].comp.cards) = K(c) /\ IsInjective(updated[c].comp.cards)
      /\ \A t \in req.comps : ToSet(laid[t].cards) = ToSet(t) /\ IsInjective(laid[t].cards)
  BY <1>5, <1>6 DEF Lists
<1>8. \A c \in table : ToSet(c.cards) \subseteq T /\ N(c) \subseteq P
  <2>1. \A c \in table : N(c) \subseteq P
    <3> HIDE DEF N, P
    <3> QED BY <1>3
  <2> QED BY <2>1 DEF cardsOf
<1>9. \A t \in req.comps : ToSet(t) \subseteq P
  <2> HIDE DEF N, P
  <2> QED BY <1>3
<1> HIDE DEF T, R, P, N
<1>10. \A c, d \in table : c # d => K(c) \cap K(d) = {}
  <2> SUFFICES ASSUME NEW c \in table, NEW d \in table, c # d
               PROVE  K(c) \cap K(d) = {}
    OBVIOUS
  <2>1. ToSet(c.cards) \cap ToSet(d.cards) = {}
    BY DEF noCardTwice
  <2> QED BY <1>3, <1>8, <2>1
<1>11. \A c \in table, t \in req.comps : K(c) \cap ToSet(t) = {}
  BY <1>3, <1>8, <1>9
<1>12. \A s, t \in req.comps : s # t => ToSet(s) \cap ToSet(t) = {}
  BY <1>2 DEF namesNoCardTwice
<1> HIDE DEF K
<1>13. noCardTwice(next.table)
  <2>1. \A x \in next.table : IsInjective(x.cards)
    BY <1>4, <1>7
  <2>2. ASSUME NEW x \in next.table, NEW y \in next.table, x # y
        PROVE  ToSet(x.cards) \cap ToSet(y.cards) = {}
    <3>1. CASE \E c, d \in table : x = updated[c].comp /\ y = updated[d].comp
      BY <1>7, <1>10, <2>2, <3>1
    <3>2. CASE \E c \in table, t \in req.comps : x = updated[c].comp /\ y = laid[t]
      BY <1>7, <1>11, <3>2
    <3>3. CASE \E c \in table, t \in req.comps : y = updated[c].comp /\ x = laid[t]
      BY <1>7, <1>11, <3>3
    <3>4. CASE \E s, t \in req.comps : x = laid[s] /\ y = laid[t]
      BY <1>7, <1>12, <2>2, <3>4
    <3> QED BY <1>4, <2>2, <3>1, <3>2, <3>3, <3>4
  <2> QED BY <2>1, <2>2 DEF noCardTwice
<1>14. cardsOf(next.table) = (UNION {K(c) : c \in table}) \cup (UNION {ToSet(t) : t \in req.comps})
  <2>1. \A x : x \in cardsOf(next.table) <=>
                 \/ \E c \in table : x \in ToSet(updated[c].comp.cards)
                 \/ \E t \in req.comps : x \in ToSet(laid[t].cards)
    BY <1>4 DEF cardsOf
  <2>2. \A x : x \in cardsOf(next.table) <=> \/ \E c \in table : x \in K(c)
                                             \/ \E t \in req.comps : x \in ToSet(t)
    BY <1>7, <2>1
  <2> QED BY <2>2
<1>15. UNION {K(c) : c \in table} = (T \ R) \cup (UNION {N(c) : c \in table})
  <2>1. \A x : x \in T <=> \E c \in table : x \in ToSet(c.cards)
    BY DEF T, cardsOf
  <2>2. \A x : x \in UNION {K(c) : c \in table}
                 <=> \E c \in table : (x \in ToSet(c.cards) /\ x \notin R) \/ x \in N(c)
    BY DEF K
  <2>3. \A x : x \in UNION {K(c) : c \in table} <=> (x \in T /\ x \notin R) \/ \E c \in table : x \in N(c)
    BY <2>1, <2>2
  <2> QED BY <2>3
<1>16. cardsOf(next.table) = (T \ R) \cup P
  BY <1>3, <1>14, <1>15
<1>17. next.hand \cup cardsOf(next.table) = cards \cup T
  BY <1>2, <1>3, <1>16 DEF R, P
<1>18. next.hand \cap cardsOf(next.table) = {}
  <2>1. cards \cap T = {}
    BY DEF T
  <2> QED BY <1>2, <1>16, <2>1 DEF R, P
<1> QED BY <1>13, <1>17, <1>18 DEF T

\* A play never makes the hand larger: every reclaimed joker costs a card of the hand.
LEMMA PlayKeepsSize ==
  ASSUME NEW cards \in SUBSET Deck, NEW opened, NEW table \in SUBSET Compositions,
         NEW req \in Requests(cards, table),
         NEW next \in applyTablePlayState(cards, opened, table, req)
  PROVE  Cardinality(next.hand) <= Cardinality(cards)
<1> DEFINE R == reclaimedCards(req.reclaims)
           P == playedCards(req)
           S == {r.card : r \in req.reclaims}
           Freed(x) == CHOOSE y \in R : \E r \in req.reclaims : r.card = x /\ y = r.target.cards[r.joker]
           f == [x \in S |-> Freed(x)]
<1>1. RequestFits(req, cards, table) /\ RequestOK(req)
  BY DeckIsOK, RequestsFit, RequestsAreOK
<1>2. namesNoCardTwice(req) /\ next.hand = (cards \cup R) \ P
  BY AcceptedPlay
<1>3. S \subseteq cards
  BY <1>1 DEF RequestFits
<1>4. S \subseteq P
  BY DEF playedCards
<1>5. R \subseteq Deck
  BY <1>1 DEF RequestOK
<1>6. \A q, r \in req.reclaims : q.card = r.card => q = r
  BY <1>2 DEF namesNoCardTwice
<1>7. \A r \in req.reclaims : r.card \in S /\ Freed(r.card) = r.target.cards[r.joker]
  <2> SUFFICES ASSUME NEW r \in req.reclaims
               PROVE  Freed(r.card) = r.target.cards[r.joker]
    OBVIOUS
  <2>1. r.target.cards[r.joker] \in R
    BY DEF reclaimedCards
  <2> HIDE DEF R
  <2> QED BY <1>6, <2>1
<1>8. R = {r.target.cards[r.joker] : r \in req.reclaims}
  BY DEF reclaimedCards
<1>9. \A x \in S : \E r \in req.reclaims : x = r.card
  OBVIOUS
<1> HIDE DEF R, P, S, Freed
<1>10. f \in Surjection(S, R)
  <2>1. \A r \in req.reclaims : f[r.card] = r.target.cards[r.joker] /\ r.target.cards[r.joker] \in R
    BY <1>7, <1>8
  <2>2. \A x \in S : Freed(x) \in R
    BY <1>7, <1>8, <1>9
  <2>3. f \in [S -> R]
    BY <2>2
  <2> HIDE DEF f
  <2>4. ASSUME NEW y \in R PROVE \E x \in S : f[x] = y
    <3>1. PICK r \in req.reclaims : y = r.target.cards[r.joker]
      BY <1>8
    <3>2. r.card \in S /\ f[r.card] = y
      BY <1>7, <2>1, <3>1
    <3> QED BY <3>2
  <2> QED BY <2>3, <2>4 DEF Surjection
<1> HIDE DEF f
<1>11. IsFiniteSet(cards) /\ IsFiniteSet(S) /\ IsFiniteSet(R) /\ IsFiniteSet(cards \ S)
  BY <1>3, <1>5, DeckIsOK, FS_Subset DEF DeckOK
<1>12. Cardinality(R) <= Cardinality(S)
  BY <1>10, <1>11, FS_Surjection
<1>13. Cardinality(cards \ S) = Cardinality(cards) - Cardinality(S)
       /\ Cardinality(cards) \in Nat /\ Cardinality(S) \in Nat
  BY <1>3, <1>11, CardinalityOfRest
<1>14. /\ IsFiniteSet((cards \ S) \cup R)
       /\ Cardinality((cards \ S) \cup R) <= Cardinality(cards \ S) + Cardinality(R)
  <2>1. /\ IsFiniteSet((cards \ S) \cup R)
        /\ Cardinality((cards \ S) \cup R)
             = Cardinality(cards \ S) + Cardinality(R) - Cardinality((cards \ S) \cap R)
    BY <1>11, FS_Union
  <2>2. (cards \ S) \cap R \in SUBSET R
    OBVIOUS
  <2>3. Cardinality((cards \ S) \cap R) \in Nat /\ Cardinality(R) \in Nat
        /\ Cardinality(cards \ S) \in Nat
    BY <1>11, <2>2, FS_Subset, FS_CardinalityType
  <2> QED BY <2>1, <2>3
<1>15. next.hand \in SUBSET ((cards \ S) \cup R)
  BY <1>2, <1>4 DEF R, P
<1>16. IsFiniteSet(next.hand) /\ Cardinality(next.hand) <= Cardinality((cards \ S) \cup R)
  BY <1>14, <1>15, FS_Subset
<1>17. Cardinality(next.hand) \in Nat /\ Cardinality((cards \ S) \cup R) \in Nat
       /\ Cardinality(R) \in Nat
  BY <1>11, <1>14, <1>16, FS_CardinalityType
<1> QED BY <1>12, <1>13, <1>14, <1>16, <1>17

-----------------------------------------------------------------------------
(***************************************************************************)
(* Dealing.                                                                *)
(***************************************************************************)
\* The seats in the game have the positions 1 to their number, each another.
LEMMA DealPositions ==
  ASSUME NEW A \in SUBSET Seats, NEW dealer \in Seats
  PROVE  /\ \A p \in A : dealPosition(A, dealer, p) \in 1..Cardinality(A)
         /\ \A p, q \in A : dealPosition(A, dealer, p) = dealPosition(A, dealer, q) => p = q
         /\ \A k \in 1..Cardinality(A) : \E p \in A : dealPosition(A, dealer, p) = k
<1> DEFINE N == Cardinality(A)
           Pos(p) == dealPosition(A, dealer, p)
           B(p) == {q \in A : distance(dealer, q) <= distance(dealer, p)}
<1>1. N \in Nat /\ IsFiniteSet(A) /\ \A S \in SUBSET A : Cardinality(S) \in 0..N
  <2>1. IsFiniteSet(A) /\ N \in 0..NumPlayers /\ \A S \in SUBSET A : Cardinality(S) \in 0..N
    BY SeatCount
  <2> QED BY <2>1, GameAssumption
<1>2. \A p \in A : distance(dealer, p) \in Nat
  BY DistanceType
<1>3. \A p, q \in A : distance(dealer, p) = distance(dealer, q) => p = q
  <2>1. dealer \in 0..(NumPlayers - 1) /\ NumPlayers \in Nat
        /\ \A p \in A : p \in 0..(NumPlayers - 1)
    BY GameAssumption DEF Seats
  <2> QED BY <2>1 DEF distance
<1>4. \A p \in A : B(p) \in SUBSET A /\ p \in B(p) /\ Pos(p) = Cardinality(B(p))
  BY <1>2 DEF dealPosition
<1>5. ASSUME NEW p \in A PROVE Pos(p) \in 1..N
  <2>1. B(p) \in SUBSET A /\ B(p) # {} /\ B(p) \in SUBSET Seats
    BY <1>4
  <2> HIDE DEF B
  <2>2. Cardinality(B(p)) \in 0..N /\ Cardinality(B(p)) >= 1
    BY <1>1, <2>1, SeatCount
  <2> QED BY <1>1, <1>4, <2>2
<1>6. ASSUME NEW p \in A, NEW q \in A, distance(dealer, p) < distance(dealer, q)
      PROVE  Pos(p) # Pos(q)
  <2>1. B(p) \in SUBSET B(q) /\ q \in B(q) /\ q \notin B(p)
    BY <1>2, <1>6
  <2>2. B(q) \in SUBSET A
    BY <1>4
  <2> HIDE DEF B
  <2>3. IsFiniteSet(B(q))
    BY <1>1, <2>2, FS_Subset
  <2>4. Cardinality(B(q)) = Cardinality(B(p)) => B(q) = B(p)
    BY <2>1, <2>3, FS_Subset
  <2> QED BY <1>4, <2>1, <2>4
<1>7. \A p, q \in A : Pos(p) = Pos(q) => p = q
  <2> SUFFICES ASSUME NEW p \in A, NEW q \in A, p # q
               PROVE  Pos(p) # Pos(q)
    OBVIOUS
  <2>1. distance(dealer, p) < distance(dealer, q) \/ distance(dealer, q) < distance(dealer, p)
    BY <1>2, <1>3
  <2> HIDE DEF Pos
  <2> QED BY <1>6, <2>1
<1> HIDE DEF Pos, N
<1> DEFINE f == [p \in A |-> Pos(p)]
<1>8. f \in Injection(A, 1..N)
  BY <1>5, <1>7 DEF Injection, IsInjective
<1>9. IsFiniteSet(1..N) /\ Cardinality(1..N) = N
  BY <1>1, FS_Interval
<1>10. f \in Surjection(A, 1..N)
  <2> HIDE DEF f
  <2> QED BY <1>8, <1>9, FS_Injection DEF N
<1>11. \A k \in 1..N : \E p \in A : Pos(p) = k
  BY <1>10 DEF Surjection
<1> QED BY <1>5, <1>7, <1>11 DEF Pos, N

\* The cards of the main pile that a deal gives a player.
DealPicks(A, dealer, deal, p) ==
  IF deal.type = "round_robin" THEN dealRoundRobinActive(A, dealer, p)
  ELSE dealInBlocksActive(deal.order, p)

\* One card at a time: every one of the first cards goes to exactly one player.
LEMMA RoundRobinIsPartition ==
  ASSUME NEW A \in SUBSET Seats, Cardinality(A) >= 2, NEW dealer \in Seats
  PROVE  /\ \A p, q \in A : p # q =>
              dealRoundRobinActive(A, dealer, p) \cap dealRoundRobinActive(A, dealer, q) = {}
         /\ \A k \in 1..(InitialHandSize * Cardinality(A)) :
              \E p \in A : k \in dealRoundRobinActive(A, dealer, p)
<1> DEFINE N == Cardinality(A)
           H == InitialHandSize
           Pos(p) == dealPosition(A, dealer, p)
<1>1. N \in 2..4 /\ H \in Nat \ {0}
  <2>1. N \in 0..NumPlayers /\ N >= 2
    BY SeatCount
  <2>2. NumPlayers \in 2..4 /\ H \in Nat \ {0}
    BY GameAssumption
  <2> QED BY ONLY <2>1, <2>2
<1>2. /\ \A p \in A : Pos(p) \in 1..N
      /\ \A p, q \in A : Pos(p) = Pos(q) => p = q
      /\ \A k \in 1..N : \E p \in A : Pos(p) = k
  BY DealPositions
<1>3. \A p \in A : dealRoundRobinActive(A, dealer, p) = {j * N + Pos(p) : j \in 0..(H - 1)}
  BY DEF dealRoundRobinActive
<1> HIDE DEF N, H, Pos
<1>4. \A i, j \in 0..(H - 1) : \A a, b \in 1..N : i * N + a = j * N + b => a = b
  <2>1. CASE N = 2
    BY <1>1, <2>1
  <2>2. CASE N = 3
    BY <1>1, <2>2
  <2>3. CASE N = 4
    BY <1>1, <2>3
  <2> QED BY <1>1, <2>1, <2>2, <2>3
<1>5. \A k \in 1..(H * N) : \E j \in 0..(H - 1), a \in 1..N : k = j * N + a
  <2> SUFFICES ASSUME NEW k \in 1..(H * N)
               PROVE  \E j \in 0..(H - 1), a \in 1..N : k = j * N + a
    OBVIOUS
  <2>1. CASE N = 2
    <3> DEFINE j == (k - 1) \div 2
               a == ((k - 1) % 2) + 1
    <3>1. k \in Int /\ k >= 1 /\ k <= H * 2
      BY <1>1, <2>1
    <3>2. j \in 0..(H - 1) /\ a \in 1..2 /\ k = j * 2 + a
      BY <1>1, <3>1
    <3> HIDE DEF j, a
    <3> QED BY <2>1, <3>2
  <2>2. CASE N = 3
    <3> DEFINE j == (k - 1) \div 3
               a == ((k - 1) % 3) + 1
    <3>1. k \in Int /\ k >= 1 /\ k <= H * 3
      BY <1>1, <2>2
    <3>2. j \in 0..(H - 1) /\ a \in 1..3 /\ k = j * 3 + a
      BY <1>1, <3>1
    <3> HIDE DEF j, a
    <3> QED BY <2>2, <3>2
  <2>3. CASE N = 4
    <3> DEFINE j == (k - 1) \div 4
               a == ((k - 1) % 4) + 1
    <3>1. k \in Int /\ k >= 1 /\ k <= H * 4
      BY <1>1, <2>3
    <3>2. j \in 0..(H - 1) /\ a \in 1..4 /\ k = j * 4 + a
      BY <1>1, <3>1
    <3> HIDE DEF j, a
    <3> QED BY <2>3, <3>2
  <2> QED BY <1>1, <2>1, <2>2, <2>3
<1>6. ASSUME NEW p \in A, NEW q \in A, p # q
      PROVE  dealRoundRobinActive(A, dealer, p) \cap dealRoundRobinActive(A, dealer, q) = {}
  <2>1. Pos(p) # Pos(q) /\ Pos(p) \in 1..N /\ Pos(q) \in 1..N
    BY <1>2, <1>6
  <2>2. \A i, j \in 0..(H - 1) : i * N + Pos(p) # j * N + Pos(q)
    BY <1>4, <2>1
  <2> QED BY <1>3, <2>2
<1>7. ASSUME NEW k \in 1..(H * N)
      PROVE  \E p \in A : k \in dealRoundRobinActive(A, dealer, p)
  <2>1. PICK j \in 0..(H - 1), a \in 1..N : k = j * N + a
    BY <1>5
  <2>2. PICK p \in A : Pos(p) = a
    BY <1>2
  <2> QED BY <1>3, <2>1, <2>2
<1> QED BY <1>6, <1>7 DEF N, H

\* A hand at a time: again every one of the first cards goes to exactly one player.
LEMMA BlocksArePartition ==
  ASSUME NEW A \in SUBSET Seats, Cardinality(A) >= 2, NEW order \in Bijection(1..Cardinality(A), A)
  PROVE  /\ \A p, q \in A : p # q => dealInBlocksActive(order, p) \cap dealInBlocksActive(order, q) = {}
         /\ \A k \in 1..(InitialHandSize * Cardinality(A)) :
              \E p \in A : k \in dealInBlocksActive(order, p)
<1> DEFINE N == Cardinality(A)
           H == InitialHandSize
           Block(p) == CHOOSE i \in DOMAIN order : order[i] = p
<1>1. N \in 2..4 /\ H \in Nat \ {0}
  <2>1. N \in 0..NumPlayers /\ N >= 2
    BY SeatCount
  <2>2. NumPlayers \in 2..4 /\ H \in Nat \ {0}
    BY GameAssumption
  <2> QED BY ONLY <2>1, <2>2
<1>2. /\ DOMAIN order = 1..N /\ \A i \in 1..N : order[i] \in A
      /\ \A i, j \in 1..N : order[i] = order[j] => i = j
      /\ \A p \in A : \E i \in 1..N : order[i] = p
  BY DEF Bijection, Injection, Surjection, IsInjective
<1>3. \A p \in A : Block(p) \in 1..N /\ order[Block(p)] = p
  BY <1>2
<1>4. \A p \in A : dealInBlocksActive(order, p) = {(Block(p) - 1) * H + j : j \in 1..H}
  BY DEF dealInBlocksActive
<1> HIDE DEF N, H, Block
<1>5. \A b \in 1..4 : (b - 1) * H = IF b = 1 THEN 0 ELSE IF b = 2 THEN H
                                    ELSE IF b = 3 THEN H + H ELSE H + H + H
  <2>1. \A b \in 1..4 : b = 1 \/ b = 2 \/ b = 3 \/ b = 4
    OBVIOUS
  <2>2. (1 - 1) * H = 0 /\ (2 - 1) * H = H /\ (3 - 1) * H = H + H /\ (4 - 1) * H = H + H + H
    BY <1>1
  <2> QED BY <2>1, <2>2
<1>6. \A b, c \in 1..4 : \A i, j \in 1..H : (b - 1) * H + i = (c - 1) * H + j => b = c
  <2> SUFFICES ASSUME NEW b \in 1..4, NEW c \in 1..4, NEW i \in 1..H, NEW j \in 1..H,
                      (b - 1) * H + i = (c - 1) * H + j
               PROVE  b = c
    OBVIOUS
  <2> DEFINE x == (b - 1) * H
             y == (c - 1) * H
  <2>1. /\ x = IF b = 1 THEN 0 ELSE IF b = 2 THEN H ELSE IF b = 3 THEN H + H ELSE H + H + H
        /\ y = IF c = 1 THEN 0 ELSE IF c = 2 THEN H ELSE IF c = 3 THEN H + H ELSE H + H + H
    BY <1>5
  <2>2. x + i = y + j
    OBVIOUS
  <2> HIDE DEF x, y
  <2> QED BY <1>1, <2>1, <2>2
<1>7. \A k \in 1..(H * N) : \E b \in 1..N, j \in 1..H : k = (b - 1) * H + j
  <2> SUFFICES ASSUME NEW k \in 1..(H * N)
               PROVE  \E b \in 1..N, j \in 1..H : k = (b - 1) * H + j
    OBVIOUS
  <2>1. k \in Int /\ 1 <= k /\ (N = 2 => k <= H + H) /\ (N = 3 => k <= H + H + H)
        /\ (N = 4 => k <= H + H + H + H)
    <3>1. H * 2 = H + H /\ H * 3 = H + H + H /\ H * 4 = H + H + H + H
      BY <1>1
    <3> QED BY <1>1, <3>1
  <2>2. \E b \in 1..N, j \in 1..H :
          k = (IF b = 1 THEN 0 ELSE IF b = 2 THEN H ELSE IF b = 3 THEN H + H ELSE H + H + H) + j
    <3>1. CASE k <= H
      <4>1. 1 \in 1..N /\ k \in 1..H /\ k = 0 + k
        BY <1>1, <2>1, <3>1
      <4> QED BY <4>1
    <3>2. CASE H < k /\ k <= H + H
      <4>1. 2 \in 1..N /\ k - H \in 1..H /\ k = H + (k - H)
        BY <1>1, <2>1, <3>2
      <4> QED BY <4>1
    <3>3. CASE H + H < k /\ k <= H + H + H
      <4>1. 3 \in 1..N /\ k - (H + H) \in 1..H /\ k = (H + H) + (k - (H + H))
        BY <1>1, <2>1, <3>3
      <4> QED BY <4>1
    <3>4. CASE H + H + H < k
      <4>1. 4 \in 1..N /\ k - (H + H + H) \in 1..H /\ k = (H + H + H) + (k - (H + H + H))
        BY <1>1, <2>1, <3>4
      <4> QED BY <4>1
    <3> QED BY <1>1, <2>1, <3>1, <3>2, <3>3, <3>4
  <2>3. \A b \in 1..N : b \in 1..4
    BY <1>1
  <2> QED BY <1>5, <2>2, <2>3
<1>8. ASSUME NEW p \in A, NEW q \in A, p # q
      PROVE  dealInBlocksActive(order, p) \cap dealInBlocksActive(order, q) = {}
  <2>1. Block(p) # Block(q) /\ Block(p) \in 1..4 /\ Block(q) \in 1..4
    BY <1>1, <1>3, <1>8
  <2>2. \A i, j \in 1..H : (Block(p) - 1) * H + i # (Block(q) - 1) * H + j
    BY <1>6, <2>1
  <2> QED BY <1>4, <2>2
<1>9. ASSUME NEW k \in 1..(H * N)
      PROVE  \E p \in A : k \in dealInBlocksActive(order, p)
  <2>1. PICK b \in 1..N, j \in 1..H : k = (b - 1) * H + j
    BY <1>7
  <2>2. order[b] \in A /\ Block(order[b]) = b
    BY <1>2, <1>3
  <2> QED BY <1>4, <2>1, <2>2
<1> QED BY <1>8, <1>9 DEF N, H

\* No player picks more cards than a hand has.
LEMMA DealPicksCount ==
  ASSUME NEW A \in SUBSET Seats, NEW dealer \in Seats, NEW deal, NEW p \in A
  PROVE  ExistsSurjection(1..InitialHandSize, DealPicks(A, dealer, deal, p))
<1> DEFINE H == InitialHandSize
           N == Cardinality(A)
           K == DealPicks(A, dealer, deal, p)
<1>1. H \in Nat
  BY GameAssumption
<1>2. CASE deal.type = "round_robin"
  <2> DEFINE Card(j) == j * N + dealPosition(A, dealer, p)
             g == [j \in 1..H |-> Card(j - 1)]
  <2>1. K = {Card(j) : j \in 0..(H - 1)}
    BY <1>2 DEF DealPicks, dealRoundRobinActive
  <2> HIDE DEF K, Card, H
  <2>2. \A j \in 1..H : j - 1 \in 0..(H - 1)
    BY <1>1
  <2>3. \A j \in 0..(H - 1) : j + 1 \in 1..H /\ (j + 1) - 1 = j
    BY <1>1
  <2>4. \A j \in 1..H : g[j] \in K
    BY <2>1, <2>2
  <2>5. \A x \in K : \E j \in 1..H : g[j] = x
    <3> SUFFICES ASSUME NEW i \in 0..(H - 1)
                 PROVE  \E j \in 1..H : g[j] = Card(i)
      BY <2>1
    <3>1. i + 1 \in 1..H /\ g[i + 1] = Card(i)
      BY <2>3
    <3> QED BY <3>1
  <2>6. g \in Surjection(1..H, K)
    BY <2>4, <2>5 DEF Surjection
  <2> QED BY <2>6 DEF ExistsSurjection, K, H
<1>3. CASE deal.type # "round_robin"
  <2> DEFINE block == CHOOSE i \in DOMAIN deal.order : deal.order[i] = p
             Card(j) == (block - 1) * H + j
             g == [j \in 1..H |-> Card(j)]
  <2>1. K = {Card(j) : j \in 1..H}
    BY <1>3 DEF DealPicks, dealInBlocksActive
  <2> HIDE DEF K, Card, H
  <2>2. g \in Surjection(1..H, K)
    BY <2>1 DEF Surjection
  <2> QED BY <2>2 DEF ExistsSurjection, K, H
<1> QED BY <1>2, <1>3

\* The cards in the hands.
HeldCards(hands) == UNION {hands[p] : p \in Seats}

\* The hands of a deal: the first cards of the main pile, each in one hand, and no hand
\* larger than the first hands are.
LEMMA DealtHands ==
  ASSUME NEW A \in SUBSET Seats, Cardinality(A) >= 2, NEW dealer \in Seats, NEW deal \in Deals(A),
         NEW main, NEW X, Lists(main, X), InitialHandSize * Cardinality(A) <= Len(main),
         NEW hands, hands = dealInitialHands(A, dealer, deal, main)
  PROVE  /\ HeldCards(hands) = FirstCards(main, InitialHandSize * Cardinality(A))
         /\ \A p, q \in Seats : p = q \/ hands[p] \cap hands[q] = {}
         /\ \A p \in Seats : Cardinality(hands[p]) <= InitialHandSize
<1> DEFINE required == InitialHandSize * Cardinality(A)
           K(p) == DealPicks(A, dealer, deal, p)
<1>1. deal.type # "round_robin" => deal.order \in Bijection(1..Cardinality(A), A)
  BY DEF Deals
<1>2. \A p \in A : K(p) \subseteq 1..required
  BY <1>1, DealInRange DEF DealPicks
<1>3. /\ \A p, q \in A : p # q => K(p) \cap K(q) = {}
      /\ \A k \in 1..required : \E p \in A : k \in K(p)
  <2>1. CASE deal.type = "round_robin"
    BY <2>1, RoundRobinIsPartition DEF DealPicks
  <2>2. CASE deal.type # "round_robin"
    BY <1>1, <2>2, BlocksArePartition DEF DealPicks
  <2> QED BY <2>1, <2>2
<1>4. /\ \A p \in A : hands[p] = {main[k] : k \in K(p)}
      /\ \A p \in Seats \ A : hands[p] = {}
  BY DEF dealInitialHands, DealPicks
<1>5. required \in Int /\ Len(main) \in Nat
      /\ \A i, j \in 1..Len(main) : main[i] = main[j] => i = j
  <2>1. Cardinality(A) \in 0..NumPlayers /\ NumPlayers \in Nat /\ InitialHandSize \in Nat
    BY SeatCount, GameAssumption
  <2>2. required \in Int
    BY <2>1
  <2> QED BY <2>2, SeqCards DEF Lists
<1>6. \A p \in A : ExistsSurjection(1..InitialHandSize, K(p))
  BY DealPicksCount
<1>7. required <= Len(main)
  OBVIOUS
<1> HIDE DEF K, required
<1>8. \A k \in 1..required : k \in 1..Len(main)
  BY <1>5, <1>7
<1>9. UNION {hands[p] : p \in Seats} = {main[k] : k \in 1..required}
  <2>1. \A p \in Seats : \A x \in hands[p] : \E k \in 1..required : x = main[k]
    <3> SUFFICES ASSUME NEW p \in Seats, NEW x \in hands[p]
                 PROVE  \E k \in 1..required : x = main[k]
      OBVIOUS
    <3>1. p \in A
      BY <1>4
    <3>2. PICK k \in K(p) : x = main[k]
      BY <1>4, <3>1
    <3> QED BY <1>2, <3>1, <3>2
  <2>2. \A k \in 1..required : \E p \in Seats : main[k] \in hands[p]
    <3> SUFFICES ASSUME NEW k \in 1..required
                 PROVE  \E p \in Seats : main[k] \in hands[p]
      OBVIOUS
    <3>1. PICK p \in A : k \in K(p)
      BY <1>3
    <3>2. main[k] \in hands[p]
      BY <1>4, <3>1
    <3> QED BY <3>1, <3>2
  <2>3. \A x : x \in UNION {hands[p] : p \in Seats} <=> \E p \in Seats : x \in hands[p]
    BY Zenon
  <2>4. \A x : x \in {main[k] : k \in 1..required} <=> \E k \in 1..required : x = main[k]
    BY Zenon
  <2>5. \A x : x \in UNION {hands[p] : p \in Seats} <=> x \in {main[k] : k \in 1..required}
    BY <2>1, <2>2, <2>3, <2>4
  <2> QED BY <2>5
<1>10. \A p, q \in Seats : p = q \/ hands[p] \cap hands[q] = {}
  <2> SUFFICES ASSUME NEW p \in Seats, NEW q \in Seats, p # q, NEW x, x \in hands[p], x \in hands[q]
               PROVE  FALSE
    BY Zenon
  <2>1. p \in A /\ q \in A
    BY <1>4
  <2>2. PICK k \in K(p) : x = main[k]
    BY <1>4, <2>1
  <2>3. PICK l \in K(q) : x = main[l]
    BY <1>4, <2>1
  <2>4. k = l
    BY <1>2, <1>5, <1>8, <2>1, <2>2, <2>3
  <2> QED BY <1>3, <2>1, <2>2, <2>3, <2>4
<1>11. ASSUME NEW p \in Seats
       PROVE  Cardinality(hands[p]) <= InitialHandSize
  <2>1. InitialHandSize \in Nat
    BY GameAssumption
  <2>2. CASE p \notin A
    <3>1. hands[p] = {}
      BY <1>4, <1>11, <2>2
    <3> QED BY <2>1, <3>1, FS_EmptySet
  <2>3. CASE p \in A
    <3> DEFINE H == InitialHandSize
    <3>1. PICK g : g \in Surjection(1..H, K(p))
      BY <1>6, <2>3 DEF ExistsSurjection
    <3> DEFINE f == [j \in 1..H |-> main[g[j]]]
    <3>2. hands[p] = {main[k] : k \in K(p)}
      BY <1>4, <2>3
    <3>3. /\ \A j \in 1..H : g[j] \in K(p)
          /\ \A k \in K(p) : \E j \in 1..H : g[j] = k
      BY <3>1 DEF Surjection
    <3>4. f \in Surjection(1..H, hands[p])
      <4>1. \A j \in 1..H : f[j] \in hands[p]
        BY <3>2, <3>3
      <4>2. \A x \in hands[p] : \E j \in 1..H : f[j] = x
        BY <3>2, <3>3
      <4> QED BY <4>1, <4>2 DEF Surjection
    <3>5. ExistsSurjection(1..H, hands[p])
      BY <3>4 DEF ExistsSurjection
    <3> QED BY <2>1, <3>5, FS_SurjCardinalityBound
  <2> QED BY <2>2, <2>3
<1> QED BY <1>9, <1>10, <1>11 DEF required, HeldCards, FirstCards

-----------------------------------------------------------------------------
(***************************************************************************)
(* The invariant, and the steps.                                           *)
(***************************************************************************)
\* CardsConserved of the given hands, table and piles.
Placed(hands, table, draw, discard) ==
  LET held == UNION {hands[p] : p \in Seats}
      laid == cardsOf(table)
  IN  /\ held \cup laid \cup ToSet(draw) \cup ToSet(discard) = Deck
      /\ held \cap laid = {} /\ (held \cup laid) \cap ToSet(draw) = {}
      /\ (held \cup laid \cup ToSet(draw)) \cap ToSet(discard) = {}
      /\ \A p, q \in Seats : p = q \/ hands[p] \cap hands[q] = {}
      /\ noCardTwice(table)
      /\ IsInjective(draw) /\ IsInjective(discard)

\* The cards a step may move: those of one player's hand, of the table and of the piles.
\* When they are all placed again, each once, all cards are.
LEMMA PlacedAgain ==
  ASSUME NEW hands \in [Seats -> SUBSET Deck], NEW table, NEW draw, NEW discard,
         Placed(hands, table, draw, discard), NEW p \in Seats,
         NEW cards, NEW newTable, NEW newDraw, NEW newDiscard, NEW V, NEW W,
         noCardTwice(newTable), Lists(newDraw, V), Lists(newDiscard, W),
         cards \cup cardsOf(newTable) \cup V \cup W
           = hands[p] \cup cardsOf(table) \cup ToSet(draw) \cup ToSet(discard),
         cards \cap cardsOf(newTable) = {}, (cards \cup cardsOf(newTable)) \cap V = {},
         (cards \cup cardsOf(newTable) \cup V) \cap W = {}
  PROVE  Placed([hands EXCEPT ![p] = cards], newTable, newDraw, newDiscard)
<1> DEFINE held   == UNION {hands[q] : q \in Seats}
           others == UNION {hands[q] : q \in Seats \ {p}}
           h      == [hands EXCEPT ![p] = cards]
           held2  == UNION {h[q] : q \in Seats}
           T      == cardsOf(table)
           U      == cardsOf(newTable)
           B      == ToSet(draw)
           C      == ToSet(discard)
<1>1. /\ held \cup T \cup B \cup C = Deck
      /\ held \cap T = {} /\ (held \cup T) \cap B = {} /\ (held \cup T \cup B) \cap C = {}
      /\ \A r, q \in Seats : r = q \/ hands[r] \cap hands[q] = {}
  BY DEF Placed
<1>2. /\ IsInjective(newDraw) /\ IsInjective(newDiscard)
      /\ ToSet(newDraw) = V /\ ToSet(newDiscard) = W
  BY DEF Lists
<1>3. h[p] = cards /\ \A q \in Seats : q # p => h[q] = hands[q]
  OBVIOUS
<1> HIDE DEF h
<1>4. held = others \cup hands[p]
  <2>1. \A x : x \in held <=> \E q \in Seats : x \in hands[q]
    BY Zenon DEF held
  <2>2. \A x : x \in others <=> \E q \in Seats : q # p /\ x \in hands[q]
    BY Zenon DEF others
  <2> HIDE DEF held, others
  <2>3. \A x : x \in held <=> x \in others \/ x \in hands[p]
    BY <2>1, <2>2
  <2> QED BY <2>3
<1>5. held2 = others \cup cards
  <2>1. \A x : x \in held2 <=> \E q \in Seats : x \in h[q]
    BY Zenon DEF held2
  <2>2. \A x : x \in others <=> \E q \in Seats : q # p /\ x \in hands[q]
    BY Zenon DEF others
  <2> HIDE DEF held2, others
  <2>3. \A x : x \in held2 <=> x \in others \/ x \in cards
    BY <1>3, <2>1, <2>2
  <2> QED BY <2>3
<1>6. others \cap hands[p] = {}
  <2>1. \A q \in Seats \ {p} : hands[q] \cap hands[p] = {}
    BY <1>1
  <2> QED BY <2>1
<1>7. \A q \in Seats : q # p => hands[q] \subseteq others
  BY DEF others
<1>8. cards \cup U \cup V \cup W = hands[p] \cup T \cup B \cup C
      /\ cards \cap U = {} /\ (cards \cup U) \cap V = {} /\ (cards \cup U \cup V) \cap W = {}
  OBVIOUS
<1> HIDE DEF held, others, held2, T, U, B, C
<1>9. others \cap (hands[p] \cup T \cup B \cup C) = {}
  BY <1>1, <1>4, <1>6
<1>10. others \cap (cards \cup U \cup V \cup W) = {}
  BY <1>8, <1>9
<1>11. held2 \cup U \cup V \cup W = Deck
  <2>1. held2 \cup U \cup V \cup W = others \cup (cards \cup U \cup V \cup W)
    BY <1>5
  <2>2. others \cup (hands[p] \cup T \cup B \cup C) = Deck
    BY <1>1, <1>4
  <2> QED BY <1>8, <2>1, <2>2
<1>12. held2 \cap U = {} /\ (held2 \cup U) \cap V = {} /\ (held2 \cup U \cup V) \cap W = {}
  BY <1>5, <1>8, <1>10
<1>13. \A r, q \in Seats : r = q \/ h[r] \cap h[q] = {}
  <2>1. \A q \in Seats : q # p => hands[q] \cap cards = {}
    BY <1>7, <1>10
  <2> SUFFICES ASSUME NEW r \in Seats, NEW q \in Seats, r # q
               PROVE  h[r] \cap h[q] = {}
    OBVIOUS
  <2>2. CASE r = p
    BY <1>3, <2>1, <2>2
  <2>3. CASE q = p
    BY <1>3, <2>1, <2>3
  <2>4. CASE r # p /\ q # p
    BY <1>1, <1>3, <2>4
  <2> QED BY <2>2, <2>3, <2>4
<1> QED BY <1>2, <1>11, <1>12, <1>13 DEF Placed, h, held2, U

\* Where the cards are before a step.
LEMMA PlacedHand ==
  ASSUME TypeOK, CardsConserved, NEW p \in Seats
  PROVE  /\ hand[p] \cap cardsOf(activeCompositions) = {}
         /\ (hand[p] \cup cardsOf(activeCompositions)) \cap ToSet(drawPile) = {}
         /\ (hand[p] \cup cardsOf(activeCompositions) \cup ToSet(drawPile)) \cap ToSet(discardPile) = {}
         /\ noCardTwice(activeCompositions)
         /\ Lists(drawPile, ToSet(drawPile)) /\ Lists(discardPile, ToSet(discardPile))
         /\ Placed(hand, activeCompositions, drawPile, discardPile)
<1>1. hand[p] \subseteq UNION {hand[q] : q \in Seats}
  OBVIOUS
<1>2. Lists(drawPile, ToSet(drawPile)) /\ Lists(discardPile, ToSet(discardPile))
  BY DEF TypeOK, CardsConserved, Lists
<1>3. Placed(hand, activeCompositions, drawPile, discardPile)
  BY DEF CardsConserved, Placed
<1>4. noCardTwice(activeCompositions)
  BY DEF CardsConserved
<1> DEFINE held == UNION {hand[q] : q \in Seats}
           T == cardsOf(activeCompositions)
<1>5. held \cap T = {} /\ (held \cup T) \cap ToSet(drawPile) = {}
      /\ (held \cup T \cup ToSet(drawPile)) \cap ToSet(discardPile) = {}
  BY DEF CardsConserved
<1> HIDE DEF held, T
<1>6. hand[p] \subseteq held
  BY <1>1 DEF held
<1> QED BY <1>2, <1>3, <1>4, <1>5, <1>6 DEF T

\* The cards after a step are conserved when they are placed.
LEMMA PlacedNext ==
  Placed(hand', activeCompositions', drawPile', discardPile') => CardsConserved'
BY DEF CardsConserved, Placed

\* A deal places every card: in a hand, on the discard pile or on the draw pile.
LEMMA StartRoundCards ==
  ASSUME TypeOK, NEW dealer \in Seats, NEW chooser, NEW deal \in Deals(activePlayerIndexes),
         NEW deck, Lists(deck, Deck), startRound(dealer, chooser, deal, deck)
  PROVE  /\ Placed(hand', activeCompositions', drawPile', discardPile')
         /\ \A p \in Seats : Cardinality(hand'[p]) <= InitialHandSize
<1> DEFINE active   == activePlayerIndexes
           required == InitialHandSize * Cardinality(active)
           cut      == deal.cutSize
           main     == SubSeq(deck, cut + 1, Len(deck))
           setAside == SubSeq(deck, 1, cut)
           undealt  == SubSeq(main, required + 1, Len(main))
           rest     == undealt \o setAside
           hands    == dealInitialHands(active, dealer, deal, main)
<1>1. /\ Cardinality(active) >= 2
      /\ Len(deck) >= required + 1
      /\ cut <= Len(deck) - required
      /\ hand' = hands
      /\ activeCompositions' = {}
      /\ drawPile' = Tail(rest)
      /\ discardPile' = <<Head(rest)>>
  BY DEF startRound
<1>2. active \in SUBSET Seats /\ deck \in Seq(Deck) /\ Len(deck) \in Nat
  BY LenProperties DEF activePlayerIndexes, Lists
<1>3. required \in Nat /\ cut \in Nat
  <2>1. Cardinality(active) \in 0..NumPlayers
    BY <1>2, SeatCount
  <2>2. cut \in CutSizes
    BY DEF Deals
  <2>3. Cardinality(active) \in Nat /\ InitialHandSize \in Nat
    BY <2>1, GameAssumption
  <2>4. required \in Nat
    BY <2>3
  <2> QED BY <2>2, <2>4, GameAssumption
<1> HIDE DEF required, cut, active
<1>4. cut \in 0..Len(deck)
  BY <1>1, <1>2, <1>3
<1> DEFINE S == FirstCards(deck, cut)
           M == LastCards(deck, cut)
<1>5. Lists(setAside, S) /\ Lists(main, M) /\ S \cup M = Deck /\ S \cap M = {}
  BY <1>4, ListsCut
<1>6. Len(main) = Len(deck) - cut /\ main \in Seq(Deck) /\ Len(setAside) = cut
  BY <1>2, <1>3, <1>4, SubSeqType
<1> HIDE DEF main, setAside, S, M
<1>7. required \in 0..Len(main) /\ Len(main) \in Nat
  BY <1>1, <1>2, <1>3, <1>6
<1> DEFINE D == FirstCards(main, required)
           E == LastCards(main, required)
<1>8. Lists(undealt, E) /\ D \cup E = M /\ D \cap E = {}
  BY <1>5, <1>7, ListsCut
<1>9. Len(undealt) = Len(main) - required
  BY <1>3, <1>6, <1>7, SubSeqType
<1> HIDE DEF undealt, D, E
<1>10. Lists(rest, E \cup S)
  BY <1>5, <1>8, ListsConcat
<1>11. rest # <<>>
  <2>1. undealt \in Seq(Deck) /\ setAside \in Seq(Deck)
    BY <1>5, <1>8 DEF Lists
  <2>2. Len(rest) = (Len(main) - required) + cut
    BY <1>6, <1>9, <2>1, ConcatProperties
  <2>3. Len(rest) >= 1
    BY <1>1, <1>2, <1>3, <1>6, <2>2
  <2> HIDE DEF rest
  <2> QED BY <2>3
<1> HIDE DEF rest
<1>12. Head(rest) \in E \cup S /\ Lists(Tail(rest), (E \cup S) \ {Head(rest)})
  BY <1>10, <1>11, ListsTail
<1>13. Head(rest) \in Deck
  BY <1>5, <1>8, <1>12
<1>14. Lists(<<Head(rest)>>, {Head(rest)})
  BY <1>13, ListsOne
<1>15. required <= Len(main)
  BY <1>7
<1>16. /\ UNION {hands[p] : p \in Seats} = D
       /\ \A p, q \in Seats : p = q \/ hands[p] \cap hands[q] = {}
       /\ \A p \in Seats : Cardinality(hands[p]) <= InitialHandSize
  <2>1. deal \in Deals(active)
    BY DEF active
  <2>2. InitialHandSize * Cardinality(active) <= Len(main)
    BY <1>15 DEF required
  <2>3. HeldCards(hands) = FirstCards(main, InitialHandSize * Cardinality(active))
    BY ONLY <1>1, <1>2, <1>5, <2>1, <2>2, dealer \in Seats, DealtHands DEF hands
  <2>4. /\ \A p, q \in Seats : p = q \/ hands[p] \cap hands[q] = {}
        /\ \A p \in Seats : Cardinality(hands[p]) <= InitialHandSize
    BY ONLY <1>1, <1>2, <1>5, <2>1, <2>2, dealer \in Seats, DealtHands DEF hands
  <2> QED BY <2>3, <2>4 DEF required, D, HeldCards
<1> HIDE DEF hands
<1>17. cardsOf({}) = {} /\ noCardTwice({})
  BY DEF cardsOf, noCardTwice
<1>18. /\ ToSet(Tail(rest)) = (E \cup S) \ {Head(rest)} /\ IsInjective(Tail(rest))
       /\ ToSet(<<Head(rest)>>) = {Head(rest)} /\ IsInjective(<<Head(rest)>>)
  BY <1>12, <1>14 DEF Lists
<1>19. Placed(hands, {}, Tail(rest), <<Head(rest)>>)
  <2> DEFINE held == UNION {hands[p] : p \in Seats}
  <2>1. held = D
    BY <1>16
  <2> HIDE DEF held
  <2>2. held \cup {} \cup ToSet(Tail(rest)) \cup ToSet(<<Head(rest)>>) = Deck
    BY <1>5, <1>8, <1>12, <1>18, <2>1
  <2>3. (held \cup {}) \cap ToSet(Tail(rest)) = {} /\ held \cap {} = {}
        /\ (held \cup {} \cup ToSet(Tail(rest))) \cap ToSet(<<Head(rest)>>) = {}
    BY <1>5, <1>8, <1>12, <1>18, <2>1
  <2> QED BY <1>16, <1>17, <1>18, <2>2, <2>3 DEF Placed, held
<1> QED BY <1>1, <1>16, <1>19

\* DrawFromDeck takes the card it gives to the player from the draw pile, refilled if it
\* has to be.
LEMMA DrawFromDeckCards ==
  ASSUME TypeOK, CardsConserved, DrawFromDeck
  PROVE  CardsConserved'
<1> DEFINE p == turn.playerIndex
           T == cardsOf(activeCompositions)
           B == ToSet(drawPile)
           C == ToSet(discardPile)
           piles == recycleDiscardIntoDrawPileIfNeeded(drawPile, discardPile)
           V == ToSet(piles.draw)
           W == ToSet(piles.discard)
           x == Head(piles.draw)
<1>1. p \in Seats /\ hand \in [Seats -> SUBSET Deck]
  BY DEF TypeOK, Turns
<1>2. /\ hand[p] \cap T = {} /\ (hand[p] \cup T) \cap B = {} /\ (hand[p] \cup T \cup B) \cap C = {}
      /\ noCardTwice(activeCompositions) /\ Lists(drawPile, B) /\ Lists(discardPile, C)
      /\ Placed(hand, activeCompositions, drawPile, discardPile)
  BY <1>1, PlacedHand
<1>3. /\ piles.draw # <<>>
      /\ hand' = [hand EXCEPT ![p] = hand[p] \cup {x}]
      /\ drawPile' = Tail(piles.draw) /\ discardPile' = piles.discard
      /\ activeCompositions' = activeCompositions
  BY DEF DrawFromDeck
<1>4. Lists(piles.draw, V) /\ Lists(piles.discard, W) /\ V \cap W = {} /\ V \cup W = B \cup C
  <2>1. B \cap C = {}
    BY <1>2
  <2>2. PilesHold(piles, B \cup C)
    BY <1>2, <2>1, ListsRecycle
  <2> QED BY <2>2 DEF PilesHold
<1> HIDE DEF p, T, B, C, V, W, piles
<1>5. x \in V /\ Lists(Tail(piles.draw), V \ {x})
  BY <1>3, <1>4, ListsTail
<1> HIDE DEF x
<1>6. /\ (hand[p] \cup {x}) \cup T \cup (V \ {x}) \cup W = hand[p] \cup T \cup B \cup C
      /\ (hand[p] \cup {x}) \cap T = {} /\ ((hand[p] \cup {x}) \cup T) \cap (V \ {x}) = {}
      /\ ((hand[p] \cup {x}) \cup T \cup (V \ {x})) \cap W = {}
  BY <1>2, <1>4, <1>5
<1>7. Placed([hand EXCEPT ![p] = hand[p] \cup {x}], activeCompositions, Tail(piles.draw), piles.discard)
  BY ONLY <1>1, <1>2, <1>4, <1>5, <1>6, PlacedAgain DEF T, B, C
<1> QED BY <1>3, <1>7, PlacedNext

\* DrawFromDiscard moves the top card of the discard pile to the player's hand.
LEMMA DrawFromDiscardCards ==
  ASSUME TypeOK, CardsConserved, DrawFromDiscard
  PROVE  CardsConserved'
<1> DEFINE p == turn.playerIndex
           T == cardsOf(activeCompositions)
           B == ToSet(drawPile)
           C == ToSet(discardPile)
           x == Head(discardPile)
<1>1. p \in Seats /\ hand \in [Seats -> SUBSET Deck]
  BY DEF TypeOK, Turns
<1>2. /\ hand[p] \cap T = {} /\ (hand[p] \cup T) \cap B = {} /\ (hand[p] \cup T \cup B) \cap C = {}
      /\ noCardTwice(activeCompositions) /\ Lists(drawPile, B) /\ Lists(discardPile, C)
      /\ Placed(hand, activeCompositions, drawPile, discardPile)
  BY <1>1, PlacedHand
<1>3. /\ discardPile # <<>>
      /\ hand' = [hand EXCEPT ![p] = hand[p] \cup {x}]
      /\ discardPile' = Tail(discardPile)
      /\ activeCompositions' = activeCompositions /\ drawPile' = drawPile
  BY DEF DrawFromDiscard
<1> HIDE DEF p, T, B, C
<1>5. x \in C /\ Lists(Tail(discardPile), C \ {x})
  BY <1>2, <1>3, ListsTail
<1> HIDE DEF x
<1>6. /\ (hand[p] \cup {x}) \cup T \cup B \cup (C \ {x}) = hand[p] \cup T \cup B \cup C
      /\ (hand[p] \cup {x}) \cap T = {} /\ ((hand[p] \cup {x}) \cup T) \cap B = {}
      /\ ((hand[p] \cup {x}) \cup T \cup B) \cap (C \ {x}) = {}
  BY <1>2, <1>5
<1>7. Placed([hand EXCEPT ![p] = hand[p] \cup {x}], activeCompositions, drawPile, Tail(discardPile))
  BY ONLY <1>1, <1>2, <1>5, <1>6, PlacedAgain DEF T, B, C
<1> QED BY <1>3, <1>7, PlacedNext

\* PlayTable moves cards between the player's hand and the table.
LEMMA PlayTableCards ==
  ASSUME TypeOK, CardsConserved,
         NEW req \in Requests(hand[turn.playerIndex], activeCompositions), PlayTable(req)
  PROVE  CardsConserved'
<1> DEFINE p == turn.playerIndex
           T == cardsOf(activeCompositions)
           B == ToSet(drawPile)
           C == ToSet(discardPile)
<1>1. /\ p \in Seats /\ hand \in [Seats -> SUBSET Deck] /\ hand[p] \in SUBSET Deck
      /\ activeCompositions \in SUBSET Compositions
  BY DEF TypeOK, Turns
<1>2. /\ hand[p] \cap T = {} /\ (hand[p] \cup T) \cap B = {} /\ (hand[p] \cup T \cup B) \cap C = {}
      /\ noCardTwice(activeCompositions) /\ Lists(drawPile, B) /\ Lists(discardPile, C)
      /\ Placed(hand, activeCompositions, drawPile, discardPile)
  BY <1>1, PlacedHand
<1>3. PICK next \in tablePlay(activeCompositions, req) :
        /\ hand' = [hand EXCEPT ![p] = next.hand]
        /\ activeCompositions' = next.table
        /\ drawPile' = drawPile /\ discardPile' = discardPile
  BY DEF PlayTable
<1>4. next \in applyTablePlayState(hand[p], hasOpened[p], activeCompositions, req)
  BY <1>3 DEF tablePlay
<1> DEFINE U == cardsOf(next.table)
<1>5. noCardTwice(next.table) /\ next.hand \cup U = hand[p] \cup T /\ next.hand \cap U = {}
  BY <1>1, <1>2, <1>4, PlayKeepsCards
<1> HIDE DEF p, T, U, B, C
<1>6. /\ next.hand \cup U \cup B \cup C = hand[p] \cup T \cup B \cup C
      /\ (next.hand \cup U) \cap B = {} /\ (next.hand \cup U \cup B) \cap C = {}
  BY <1>2, <1>5
<1>7. Placed([hand EXCEPT ![p] = next.hand], next.table, drawPile, discardPile)
  BY ONLY <1>1, <1>2, <1>5, <1>6, PlacedAgain DEF T, U, B, C
<1> QED BY <1>3, <1>7, PlacedNext

\* The compositions rebuilt by RestoreGameState have the cards of those they replace.
LEMMA RestoredCards ==
  ASSUME TypeOK, noCardTwice(activeCompositions), NEW table \in restoredTable
  PROVE  noCardTwice(table) /\ cardsOf(table) = cardsOf(activeCompositions)
<1> DEFINE Restored(c) == CHOOSE d \in newComposition(c.cards, c.variant) : TRUE
<1>1. /\ \A c \in activeCompositions : newComposition(c.cards, c.variant) # {}
      /\ table = {Restored(c) : c \in activeCompositions}
  BY DEF restoredTable
<1>2. \A c \in activeCompositions : /\ IsInjective(Restored(c).cards)
                                    /\ ToSet(Restored(c).cards) = ToSet(c.cards)
  <2> SUFFICES ASSUME NEW c \in activeCompositions
               PROVE  IsInjective(Restored(c).cards) /\ ToSet(Restored(c).cards) = ToSet(c.cards)
    OBVIOUS
  <2>1. c.cards \in Seq(Deck) /\ c.variant \in Variants
    BY DEF TypeOK, Compositions
  <2>2. Lists(c.cards, ToSet(c.cards))
    BY <2>1 DEF noCardTwice, Lists
  <2>3. Restored(c) \in newComposition(c.cards, c.variant)
    BY <1>1
  <2> HIDE DEF Restored
  <2>4. Lists(Restored(c).cards, ToSet(c.cards))
    BY <2>1, <2>2, <2>3, NewCompositionCards
  <2> QED BY <2>4 DEF Lists
<1> HIDE DEF Restored
<1>3. cardsOf(table) = cardsOf(activeCompositions)
  <2>1. {ToSet(d.cards) : d \in table} = {ToSet(c.cards) : c \in activeCompositions}
    <3>1. \A d \in table : \E c \in activeCompositions : ToSet(d.cards) = ToSet(c.cards)
      BY <1>1, <1>2
    <3>2. \A c \in activeCompositions : \E d \in table : ToSet(d.cards) = ToSet(c.cards)
      BY <1>1, <1>2
    <3> QED BY <3>1, <3>2
  <2> QED BY <2>1 DEF cardsOf
<1>4. \A d \in table : IsInjective(d.cards)
  BY <1>1, <1>2
<1>5. ASSUME NEW d \in table, NEW e \in table, d # e
      PROVE  ToSet(d.cards) \cap ToSet(e.cards) = {}
  <2>1. PICK b \in activeCompositions : d = Restored(b)
    BY <1>1
  <2>2. PICK c \in activeCompositions : e = Restored(c)
    BY <1>1
  <2>3. b # c
    BY <1>5, <2>1, <2>2
  <2>4. ToSet(b.cards) \cap ToSet(c.cards) = {}
    BY <2>3 DEF noCardTwice
  <2> QED BY <1>2, <2>1, <2>2, <2>4
<1> QED BY <1>3, <1>4, <1>5 DEF noCardTwice

\* The compositions that leave the table after a discard, and those that stay.
Completed(table) == {c \in table : isComplete(c)}
Unfinished(table) == {c \in table : ~isComplete(c)}

\* The completed compositions' cards are moved to the discard pile, each once, and the
\* others stay on the table.
LEMMA CompletedCards ==
  ASSUME NEW table \in SUBSET Compositions, noCardTwice(table),
         NEW t \in removeCompletedCompositionsToDiscard(table)
  PROVE  /\ Lists(t, cardsOf(Completed(table)))
         /\ noCardTwice(Unfinished(table))
         /\ cardsOf(Unfinished(table)) \cup cardsOf(Completed(table)) = cardsOf(table)
         /\ cardsOf(Unfinished(table)) \cap cardsOf(Completed(table)) = {}
<1>1. t \in SetToSeqs(cardsOf(Completed(table)))
  BY DEF removeCompletedCompositionsToDiscard, cardsOf, Completed
<1>2. /\ \A c \in table : c \in Unfinished(table) \/ c \in Completed(table)
      /\ \A c \in Unfinished(table) : c \in table /\ c \notin Completed(table)
      /\ \A c \in Completed(table) : c \in table
  BY DEF Unfinished, Completed
<1>3. \A S : \A x : x \in cardsOf(S) <=> \E c \in S : x \in ToSet(c.cards)
  BY DEF cardsOf
<1>4. \A c \in table : ToSet(c.cards) \subseteq Deck
  BY SeqCards DEF Compositions
<1>5. cardsOf(Completed(table)) \subseteq Deck
  BY <1>2, <1>3, <1>4
<1>6. Lists(t, cardsOf(Completed(table)))
  BY <1>1, <1>5, ListsSet
<1>7. noCardTwice(Unfinished(table))
  BY <1>2 DEF noCardTwice
<1>8. \A x : x \in cardsOf(table) <=> x \in cardsOf(Unfinished(table)) \/ x \in cardsOf(Completed(table))
  BY <1>2, <1>3, Zenon
<1>9. ASSUME NEW x, x \in cardsOf(Unfinished(table)), x \in cardsOf(Completed(table))
      PROVE  FALSE
  <2>1. PICK c \in Unfinished(table) : x \in ToSet(c.cards)
    BY <1>3, <1>9
  <2>2. PICK d \in Completed(table) : x \in ToSet(d.cards)
    BY <1>3, <1>9
  <2>3. c # d /\ c \in table /\ d \in table
    BY <1>2
  <2> QED BY <2>1, <2>2, <2>3 DEF noCardTwice
<1> QED BY <1>6, <1>7, <1>8, <1>9

\* A discard puts the card and the completed compositions on the discard pile, which is
\* recycled when the next player would find no card.
LEMMA DiscardCards ==
  ASSUME TypeOK, CardsConserved, NEW cards \in SUBSET Deck, NEW table \in SUBSET Compositions,
         noCardTwice(table), cards \cap cardsOf(table) = {},
         cards \cup cardsOf(table) = hand[turn.playerIndex] \cup cardsOf(activeCompositions),
         NEW card \in cards, discardAndEndTurn(cards, table, card)
  PROVE  CardsConserved'
<1> DEFINE p == turn.playerIndex
           T == cardsOf(activeCompositions)
           B == ToSet(drawPile)
           C == ToSet(discardPile)
           Y == cardsOf(Unfinished(table))
           Z == cardsOf(Completed(table))
           left == cards \ {card}
<1>1. /\ p \in Seats /\ hand \in [Seats -> SUBSET Deck]
  BY DEF TypeOK, Turns
<1>2. /\ hand[p] \cap T = {} /\ (hand[p] \cup T) \cap B = {} /\ (hand[p] \cup T \cup B) \cap C = {}
      /\ noCardTwice(activeCompositions) /\ Lists(drawPile, B) /\ Lists(discardPile, C)
      /\ Placed(hand, activeCompositions, drawPile, discardPile)
  BY <1>1, PlacedHand
<1>3. hand' = [hand EXCEPT ![p] = left] /\ activeCompositions' = Unfinished(table)
  BY DEF discardAndEndTurn, Unfinished
<1>4. PICK completed \in removeCompletedCompositionsToDiscard(table) :
        \/ discardPile' = <<card>> \o completed \o discardPile /\ drawPile' = drawPile
        \/ advanceTurn(activePlayerIndexes, drawPile, <<card>> \o completed \o discardPile)
  BY DEF discardAndEndTurn
<1> DEFINE pile == (<<card>> \o completed) \o discardPile
           piles == recycleDiscardIntoDrawPileIfNeeded(drawPile, pile)
<1>5. \/ discardPile' = pile /\ drawPile' = drawPile
      \/ drawPile' = piles.draw /\ discardPile' = piles.discard
  BY <1>4 DEF advanceTurn
<1>6. /\ Lists(completed, Z) /\ noCardTwice(Unfinished(table))
      /\ Y \cup Z = cardsOf(table) /\ Y \cap Z = {}
  BY <1>4, CompletedCards
<1>7. cards \cup (Y \cup Z) = hand[p] \cup T /\ cards \cap (Y \cup Z) = {}
  BY <1>6
<1>8. Lists(<<card>>, {card})
  BY ListsOne
<1> HIDE DEF p, T, B, C, Y, Z, piles
<1>9. Lists(<<card>> \o completed, {card} \cup Z)
  <2>1. {card} \cap Z = {}
    BY <1>7
  <2> QED BY <1>6, <1>8, <2>1, ListsConcat
<1>10. Lists(pile, ({card} \cup Z) \cup C)
  <2>1. ({card} \cup Z) \cap C = {}
    BY <1>2, <1>7
  <2> QED BY <1>2, <1>9, <2>1, ListsConcat
<1>11. B \cap (({card} \cup Z) \cup C) = {}
  BY <1>2, <1>7
<1> HIDE DEF pile
<1>12. PilesHold(piles, B \cup (({card} \cup Z) \cup C))
  BY <1>2, <1>10, <1>11, ListsRecycle DEF piles
<1>13. /\ Lists(drawPile', ToSet(drawPile')) /\ Lists(discardPile', ToSet(discardPile'))
       /\ ToSet(drawPile') \cap ToSet(discardPile') = {}
       /\ ToSet(drawPile') \cup ToSet(discardPile') = B \cup (({card} \cup Z) \cup C)
  <2>1. CASE discardPile' = pile /\ drawPile' = drawPile
    <3>1. ToSet(discardPile') = ({card} \cup Z) \cup C
      BY <1>10, <2>1 DEF Lists
    <3>2. ToSet(drawPile') = B
      BY <2>1 DEF B
    <3> QED BY <1>2, <1>10, <1>11, <2>1, <3>1, <3>2
  <2>2. CASE drawPile' = piles.draw /\ discardPile' = piles.discard
    BY <1>12, <2>2 DEF PilesHold
  <2> QED BY <1>5, <2>1, <2>2
<1> DEFINE V == ToSet(drawPile')
           W == ToSet(discardPile')
<1>14. Lists(drawPile', V) /\ Lists(discardPile', W)
  BY <1>13
<1>15. V \cap W = {} /\ V \cup W = B \cup (({card} \cup Z) \cup C)
  BY <1>13
<1> HIDE DEF V, W
<1>16. /\ left \cup Y \cup V \cup W = hand[p] \cup T \cup B \cup C
       /\ left \cap Y = {} /\ (left \cup Y) \cap V = {} /\ (left \cup Y \cup V) \cap W = {}
  <2>1. (left \cup Y) \cap (B \cup (({card} \cup Z) \cup C)) = {}
    BY <1>2, <1>6, <1>7
  <2>2. (left \cup Y) \cup (B \cup (({card} \cup Z) \cup C)) = hand[p] \cup T \cup B \cup C
    BY <1>7
  <2>3. left \cap Y = {}
    BY <1>7
  <2> HIDE DEF left
  <2> QED BY <1>15, <2>1, <2>2, <2>3
<1> HIDE DEF left
<1>17. Placed([hand EXCEPT ![p] = left], Unfinished(table), drawPile', discardPile')
  BY ONLY <1>1, <1>2, <1>6, <1>14, <1>16, PlacedAgain DEF T, B, C, Y
<1> QED BY <1>3, <1>17, PlacedNext

\* Whoever leaves puts the cards of the hand into the shuffled draw pile.
LEMMA ForfeitCards ==
  ASSUME TypeOK, CardsConserved, NEW p \in Seats, ForfeitPlayer(p)
  PROVE  CardsConserved'
<1> DEFINE T == cardsOf(activeCompositions)
           B == ToSet(drawPile)
           C == ToSet(discardPile)
<1>1. hand \in [Seats -> SUBSET Deck] /\ hand[p] \in SUBSET Deck
  BY DEF TypeOK
<1>2. /\ hand[p] \cap T = {} /\ (hand[p] \cup T) \cap B = {} /\ (hand[p] \cup T \cup B) \cap C = {}
      /\ noCardTwice(activeCompositions) /\ Lists(drawPile, B) /\ Lists(discardPile, C)
      /\ Placed(hand, activeCompositions, drawPile, discardPile)
  BY <1>1, PlacedHand
<1>3. hand' = [hand EXCEPT ![p] = {}] /\ activeCompositions' = activeCompositions
  BY DEF ForfeitPlayer
<1>4. PICK draw \in IF hand[p] = {} THEN {drawPile} ELSE Shuffle(drawPile \o SetToSeq(hand[p])) :
        \/ advanceTurn(activePlayerIndexes \ {p}, draw, discardPile)
        \/ drawPile' = draw /\ discardPile' = discardPile
  BY DEF ForfeitPlayer
<1> HIDE DEF T, B, C
<1>5. Lists(draw, B \cup hand[p])
  <2>1. CASE hand[p] = {}
    <3>1. draw = drawPile /\ B \cup hand[p] = B
      BY <1>4, <2>1
    <3> QED BY <1>2, <3>1
  <2>2. CASE hand[p] # {}
    <3>1. draw \in Shuffle(drawPile \o SetToSeq(hand[p]))
      BY <1>4, <2>2
    <3>2. Lists(SetToSeq(hand[p]), hand[p])
      BY <1>1, ListsSet
    <3>3. B \cap hand[p] = {}
      BY <1>2
    <3>4. Lists(drawPile \o SetToSeq(hand[p]), B \cup hand[p])
      BY <1>2, <3>2, <3>3, ListsConcat
    <3> QED BY <3>1, <3>4, ListsShuffle
  <2> QED BY <2>1, <2>2
<1> DEFINE piles == recycleDiscardIntoDrawPileIfNeeded(draw, discardPile)
<1>6. \/ drawPile' = piles.draw /\ discardPile' = piles.discard
      \/ drawPile' = draw /\ discardPile' = discardPile
  BY <1>4 DEF advanceTurn
<1>7. (B \cup hand[p]) \cap C = {}
  BY <1>2
<1>8. PilesHold(piles, (B \cup hand[p]) \cup C)
  BY <1>2, <1>5, <1>7, ListsRecycle
<1> HIDE DEF piles
<1>9. /\ Lists(drawPile', ToSet(drawPile')) /\ Lists(discardPile', ToSet(discardPile'))
      /\ ToSet(drawPile') \cap ToSet(discardPile') = {}
      /\ ToSet(drawPile') \cup ToSet(discardPile') = (B \cup hand[p]) \cup C
  <2>1. CASE drawPile' = draw /\ discardPile' = discardPile
    <3>1. ToSet(drawPile') = B \cup hand[p]
      BY <1>5, <2>1 DEF Lists
    <3>2. ToSet(discardPile') = C
      BY <2>1 DEF C
    <3> QED BY <1>2, <1>5, <1>7, <2>1, <3>1, <3>2
  <2>2. CASE drawPile' = piles.draw /\ discardPile' = piles.discard
    BY <1>8, <2>2 DEF PilesHold
  <2> QED BY <1>6, <2>1, <2>2
<1> DEFINE V == ToSet(drawPile')
           W == ToSet(discardPile')
<1>10. Lists(drawPile', V) /\ Lists(discardPile', W)
  BY <1>9
<1>11. V \cap W = {} /\ V \cup W = (B \cup hand[p]) \cup C
  BY <1>9
<1> HIDE DEF V, W
<1>12. /\ {} \cup T \cup V \cup W = hand[p] \cup T \cup B \cup C
       /\ {} \cap T = {} /\ ({} \cup T) \cap V = {} /\ ({} \cup T \cup V) \cap W = {}
  BY <1>2, <1>11
<1>13. Placed([hand EXCEPT ![p] = {}], activeCompositions, drawPile', discardPile')
  BY ONLY <1>1, <1>2, <1>10, <1>12, PlacedAgain DEF T, B, C
<1> QED BY <1>3, <1>13, PlacedNext

-----------------------------------------------------------------------------
(***************************************************************************)
(* The sizes of the hands.                                                 *)
(***************************************************************************)
\* How many cards the players may hold during a round.
LEMMA HandSizes ==
  ASSUME TypeOK, HandStaysBounded, phase = "in_progress", NEW q \in Seats
  PROVE  /\ IsFiniteSet(hand[q]) /\ Cardinality(hand[q]) \in Nat
         /\ Cardinality(hand[q]) <= InitialHandSize + 1
         /\ ~(turn.hasDrawn /\ turn.playerIndex = q) => Cardinality(hand[q]) <= InitialHandSize
<1>1. IsFiniteSet(hand[q])
  BY DeckIsOK, FS_Subset DEF DeckOK, TypeOK
<1>2. Cardinality(hand[q]) \in Nat /\ InitialHandSize \in Nat
  BY <1>1, FS_CardinalityType, GameAssumption
<1>3. Cardinality(hand[q]) <= IF turn.hasDrawn /\ turn.playerIndex = q
                              THEN InitialHandSize + 1 ELSE InitialHandSize
  BY DEF HandStaysBounded
<1> QED BY <1>1, <1>2, <1>3

\* A draw adds one card to the hand of a player who had not drawn.
LEMMA DrawnHandSize ==
  ASSUME TypeOK, HandStaysBounded, phase = "in_progress", ~turn.hasDrawn, NEW x,
         hand' = [hand EXCEPT ![turn.playerIndex] = @ \cup {x}],
         turn'.hasDrawn, turn'.playerIndex = turn.playerIndex
  PROVE  HandStaysBounded'
<1> DEFINE p == turn.playerIndex
<1>1. p \in Seats /\ hand \in [Seats -> SUBSET Deck]
  BY DEF TypeOK, Turns
<1>2. /\ IsFiniteSet(hand[p]) /\ Cardinality(hand[p]) \in Nat
      /\ Cardinality(hand[p]) <= InitialHandSize /\ InitialHandSize \in Nat
  BY <1>1, HandSizes, GameAssumption
<1>3. Cardinality(hand[p] \cup {x}) \in Nat /\ Cardinality(hand[p] \cup {x}) <= InitialHandSize + 1
  <2>1. Cardinality(hand[p] \cup {x})
          = IF x \in hand[p] THEN Cardinality(hand[p]) ELSE Cardinality(hand[p]) + 1
    BY <1>2, FS_AddElement
  <2> QED BY <1>2, <2>1
<1>4. ASSUME NEW q \in Seats
      PROVE  Cardinality(hand'[q]) <= IF turn'.hasDrawn /\ turn'.playerIndex = q
                                      THEN InitialHandSize + 1 ELSE InitialHandSize
  <2>1. CASE q = p
    BY <1>1, <1>3, <2>1
  <2>2. CASE q # p
    <3>1. hand'[q] = hand[q]
      BY <1>1, <2>2
    <3> QED BY <2>2, <3>1, HandSizes
  <2> QED BY <2>1, <2>2
<1> QED BY <1>4 DEF HandStaysBounded

\* A discard ends the round or leaves everybody within the first size of the hands.
LEMMA DiscardHandSize ==
  ASSUME TypeOK, HandStaysBounded, phase = "in_progress",
         NEW cards \in SUBSET Deck, NEW table \in SUBSET Compositions, NEW card \in cards,
         Cardinality(cards) <= Cardinality(hand[turn.playerIndex]),
         discardAndEndTurn(cards, table, card)
  PROVE  HandStaysBounded' /\ phase' # "lobby"
<1> DEFINE p == turn.playerIndex
<1>1. p \in Seats /\ hand \in [Seats -> SUBSET Deck]
  BY DEF TypeOK, Turns
<1>2. /\ hand' = [hand EXCEPT ![p] = cards \ {card}]
      /\ \/ finishRound(p, hand', statistics)
         \/ \E pile \in Seq(Deck) :
              advanceTurn(activePlayerIndexes, drawPile, pile) /\ UNCHANGED scoreVars
  BY DiscardResult
<1>3. CASE finishRound(p, hand', statistics)
  <2>1. phase' \in {"game_over", "round_over"}
    BY <1>3 DEF finishRound
  <2> QED BY <2>1 DEF HandStaysBounded
<1>4. CASE \E pile \in Seq(Deck) :
             advanceTurn(activePlayerIndexes, drawPile, pile) /\ UNCHANGED scoreVars
  <2>1. ~turn'.hasDrawn /\ phase' = "in_progress"
    BY <1>4 DEF advanceTurn, newTurn, scoreVars
  <2>2. IsFiniteSet(cards) /\ Cardinality(cards) \in Nat
    BY DeckIsOK, FS_Subset, FS_CardinalityType DEF DeckOK
  <2>3. /\ Cardinality(hand[p]) \in Nat /\ InitialHandSize \in Nat
        /\ Cardinality(hand[p]) <= InitialHandSize + 1
    BY <1>1, HandSizes, GameAssumption
  <2>4. Cardinality(cards \ {card}) = Cardinality(cards) - 1
    BY <2>2, FS_RemoveElement
  <2>5. Cardinality(cards \ {card}) <= InitialHandSize
    BY <2>2, <2>3, <2>4
  <2>6. ASSUME NEW q \in Seats PROVE Cardinality(hand'[q]) <= InitialHandSize
    <3>1. CASE q = p
      BY <1>1, <1>2, <2>5, <3>1
    <3>2. CASE q # p
      <4>1. hand'[q] = hand[q]
        BY <1>1, <1>2, <3>2
      <4> QED BY <3>2, <4>1, HandSizes
    <3> QED BY <3>1, <3>2
  <2> QED BY <2>1, <2>6 DEF HandStaysBounded
<1> QED BY <1>2, <1>3, <1>4

\* Whoever leaves has no cards, and the others keep theirs.
LEMMA ForfeitHandSize ==
  ASSUME TypeOK, HandStaysBounded, NEW p \in Seats, ForfeitPlayer(p)
  PROVE  HandStaysBounded' /\ phase' # "lobby"
<1>1. /\ phase \in {"in_progress", "round_over"}
      /\ hand' = [hand EXCEPT ![p] = {}]
      /\ \/ phase' = "game_over"
         \/ /\ phase' = phase
            /\ \/ turn' = turn
               \/ turn.playerIndex = p /\ ~turn'.hasDrawn
  <2> DEFINE active == activePlayerIndexes \ {p}
  <2>1. /\ phase \in {"in_progress", "round_over"}
        /\ hand' = [hand EXCEPT ![p] = {}]
        /\ IF Cardinality(active) = 1 THEN phase' = "game_over" ELSE phase' = phase
    BY DEF ForfeitPlayer
  <2>2. PICK draw \in IF hand[p] = {} THEN {drawPile} ELSE Shuffle(drawPile \o SetToSeq(hand[p])) :
          IF Cardinality(active) # 1 /\ phase = "in_progress" /\ turn.playerIndex = p
          THEN advanceTurn(active, draw, discardPile)
          ELSE turn' = IF Cardinality(active) = 1 THEN stoppedTurn(turn) ELSE turn
    BY DEF ForfeitPlayer
  <2> QED BY <2>1, <2>2 DEF advanceTurn, newTurn
<1>2. hand \in [Seats -> SUBSET Deck]
  BY DEF TypeOK
<1>3. ASSUME phase' = "in_progress", NEW q \in Seats
      PROVE  Cardinality(hand'[q]) <= IF turn'.hasDrawn /\ turn'.playerIndex = q
                                      THEN InitialHandSize + 1 ELSE InitialHandSize
  <2>1. phase = "in_progress"
    BY <1>1, <1>3
  <2>2. CASE q = p
    <3>1. Cardinality(hand'[q]) = 0 /\ InitialHandSize \in Nat
      BY <1>1, <1>2, <2>2, FS_EmptySet, GameAssumption
    <3> QED BY <3>1
  <2>3. CASE q # p
    <3>1. hand'[q] = hand[q]
      BY <1>1, <1>2, <2>3
    <3>2. turn' = turn \/ turn.playerIndex # q
      BY <1>1, <1>3, <2>3
    <3>3. CASE turn' = turn
      BY <2>1, <3>1, <3>3 DEF HandStaysBounded
    <3>4. CASE turn.playerIndex # q
      <4>1. Cardinality(hand[q]) <= InitialHandSize /\ Cardinality(hand[q]) \in Nat /\ InitialHandSize \in Nat
        BY <2>1, <3>4, HandSizes, GameAssumption
      <4> QED BY <3>1, <4>1
    <3> QED BY <3>2, <3>3, <3>4
  <2> QED BY <2>2, <2>3
<1>4. phase' # "lobby"
  BY <1>1
<1> QED BY <1>3, <1>4 DEF HandStaysBounded

-----------------------------------------------------------------------------
(***************************************************************************)
(* The inductive invariant.                                                *)
(***************************************************************************)
\* A game that has not started yet has all its cards on the draw pile, from which
\* StartGameWithMode deals; every later round is dealt from a new deck.
CardsInv ==
  /\ TypeOK
  /\ CardsConserved
  /\ HandStaysBounded
  /\ phase = "lobby" => Lists(drawPile, Deck)

\* The deck of a round lists all cards.
LEMMA DeckLists == Lists(GameDeck, Deck) /\ \A t \in Shuffle(GameDeck) : Lists(t, Deck)
<1>1. Lists(GameDeck, Deck)
  BY GameAssumption DEF Lists
<1> QED BY <1>1, ListsShuffle

\* A new game has all cards on the draw pile.
LEMMA CardsInit == Init => CardsInv
<1> SUFFICES ASSUME Init
             PROVE  CardsInv
  OBVIOUS
<1>1. /\ hand = [p \in Seats |-> {}] /\ activeCompositions = {} /\ discardPile = <<>>
      /\ drawPile \in Shuffle(GameDeck) /\ phase = "lobby"
  BY DEF Init
<1>2. Lists(drawPile, Deck)
  BY <1>1, DeckLists
<1>3. ToSet(drawPile) = Deck /\ IsInjective(drawPile)
  BY <1>2 DEF Lists
<1>4. ToSet(<<>>) = {} /\ IsInjective(<<>>)
  <2>1. Lists(<<>>, {})
    BY ListsNone
  <2> QED BY <2>1 DEF Lists
<1>5. UNION {hand[p] : p \in Seats} = {} /\ \A p, q \in Seats : hand[p] \cap hand[q] = {}
  BY <1>1
<1>6. cardsOf(activeCompositions) = {} /\ noCardTwice(activeCompositions)
  BY <1>1 DEF cardsOf, noCardTwice
<1>7. CardsConserved
  BY <1>1, <1>3, <1>4, <1>5, <1>6 DEF CardsConserved
<1>8. HandStaysBounded
  BY <1>1 DEF HandStaysBounded
<1> QED BY <1>2, <1>7, <1>8, TypeInit DEF CardsInv

\* A deal places all cards and gives nobody more than the first size of a hand.
LEMMA CardsStartRound ==
  ASSUME TypeOK, NEW dealer \in Seats, NEW chooser, NEW deal \in Deals(activePlayerIndexes),
         NEW deck, Lists(deck, Deck), startRound(dealer, chooser, deal, deck)
  PROVE  CardsConserved' /\ HandStaysBounded' /\ phase' # "lobby"
<1>1. /\ Placed(hand', activeCompositions', drawPile', discardPile')
      /\ \A p \in Seats : Cardinality(hand'[p]) <= InitialHandSize
  BY StartRoundCards
<1>2. deck \in Seq(Deck)
  BY DEF Lists
<1>3. /\ turn'.hasDrawn = FALSE
      /\ \/ \E winner \in activePlayerIndexes, stats \in [Seats -> Counters] :
              finishRound(winner, hand', stats)
         \/ phase' = "in_progress"
  BY <1>2, StartRoundResult
<1>4. phase' # "lobby"
  BY <1>3 DEF finishRound
<1> QED BY <1>1, <1>3, <1>4, PlacedNext DEF HandStaysBounded

\* The invariant is inductive.
LEMMA CardsNext == CardsInv /\ [Next]_vars => CardsInv'
<1> SUFFICES ASSUME CardsInv, [Next]_vars
             PROVE  CardsInv'
  OBVIOUS
<1> DEFINE p == turn.playerIndex
<1>0. TypeOK /\ CardsConserved /\ HandStaysBounded /\ (phase = "lobby" => Lists(drawPile, Deck))
  BY DEF CardsInv
<1>1. TypeOK'
  BY <1>0, TypeNext
<1>2. /\ p \in Seats /\ hand \in [Seats -> SUBSET Deck] /\ hand[p] \in SUBSET Deck
      /\ activeCompositions \in SUBSET Compositions
  BY <1>0 DEF TypeOK, Turns
<1>3. noCardTwice(activeCompositions) /\ hand[p] \cap cardsOf(activeCompositions) = {}
  BY <1>0, <1>2, PlacedHand
<1> HIDE DEF p
<1>4. ASSUME NEW dealer \in Seats, NEW chooser \in Seats, NEW deal \in Deals(activePlayerIndexes),
             NEW mode \in Modes, StartGameWithMode(dealer, chooser, deal, mode)
      PROVE  CardsInv'
  <2>1. Lists(drawPile, Deck) /\ startRound(dealer, chooser, deal, drawPile)
    BY <1>0, <1>4 DEF StartGameWithMode
  <2> QED BY <1>0, <1>1, <2>1, CardsStartRound DEF CardsInv
<1>5. ASSUME NEW deal \in Deals(activePlayerIndexes), NEW deck \in Shuffle(GameDeck),
             StartNextRound(deal, deck)
      PROVE  CardsInv'
  <2> DEFINE dealer  == nextActivePlayerIndex(activePlayerIndexes, dealerIndex)
             chooser == previousActivePlayerIndex(activePlayerIndexes, dealer)
  <2>1. startRound(dealer, chooser, deal, deck)
    BY <1>5 DEF StartNextRound
  <2>2. activePlayerIndexes \in SUBSET Seats /\ dealerIndex \in Seats
    BY <1>0 DEF TypeOK, activePlayerIndexes
  <2>3. dealer \in Seats
    BY <2>2, NextIsActive
  <2>4. Lists(deck, Deck)
    BY DeckLists
  <2> HIDE DEF dealer, chooser
  <2> QED BY <1>0, <1>1, <2>1, <2>3, <2>4, CardsStartRound DEF CardsInv
<1>6. CASE DrawFromDeck
  <2>1. CardsConserved'
    BY <1>0, <1>6, DrawFromDeckCards
  <2> DEFINE x == Head(recycleDiscardIntoDrawPileIfNeeded(drawPile, discardPile).draw)
  <2>2. /\ phase = "in_progress" /\ phase' = phase /\ ~turn.hasDrawn
        /\ hand' = [hand EXCEPT ![turn.playerIndex] = @ \cup {x}]
        /\ turn'.hasDrawn /\ turn'.playerIndex = turn.playerIndex
    BY <1>6 DEF DrawFromDeck, newTurn, scoreVars
  <2> HIDE DEF x
  <2>3. HandStaysBounded'
    BY <1>0, <2>2, DrawnHandSize
  <2> QED BY <1>1, <2>1, <2>2, <2>3 DEF CardsInv
<1>7. CASE DrawFromDiscard
  <2>1. CardsConserved'
    BY <1>0, <1>7, DrawFromDiscardCards
  <2> DEFINE x == Head(discardPile)
  <2>2. /\ phase = "in_progress" /\ phase' = phase /\ ~turn.hasDrawn
        /\ hand' = [hand EXCEPT ![turn.playerIndex] = @ \cup {x}]
        /\ turn'.hasDrawn /\ turn'.playerIndex = turn.playerIndex
    BY <1>0, <1>7 DEF DrawFromDiscard, scoreVars, TypeOK, Turns
  <2> HIDE DEF x
  <2>3. HandStaysBounded'
    BY <1>0, <2>2, DrawnHandSize
  <2> QED BY <1>1, <2>1, <2>2, <2>3 DEF CardsInv
<1>8. ASSUME NEW req \in Requests(hand[turn.playerIndex], activeCompositions), PlayTable(req)
      PROVE  CardsInv'
  <2>1. CardsConserved'
    BY <1>0, <1>8, PlayTableCards
  <2>2. PICK next \in tablePlay(activeCompositions, req) :
          /\ hand' = [hand EXCEPT ![p] = next.hand]
          /\ turn' = [turn EXCEPT !.mustUseDiscardDraw = FALSE]
          /\ phase' = phase
    BY <1>8 DEF PlayTable, scoreVars, p
  <2>3. phase = "in_progress" /\ next \in applyTablePlayState(hand[p], hasOpened[p], activeCompositions, req)
    BY <2>2 DEF tablePlay, p
  <2>4. Cardinality(next.hand) <= Cardinality(hand[p])
    BY <1>2, <1>8, <2>3, PlayKeepsSize DEF p
  <2>5. Cardinality(next.hand) \in Nat /\ Cardinality(hand[p]) \in Nat /\ InitialHandSize \in Nat
    <3>1. next.hand \in SUBSET Deck
      BY <1>0, <1>2, <1>8, <2>2, TablePlayResult
    <3>2. IsFiniteSet(next.hand) /\ IsFiniteSet(hand[p])
      BY <1>2, <3>1, DeckIsOK, FS_Subset DEF DeckOK
    <3> QED BY <3>2, FS_CardinalityType, GameAssumption
  <2>6. turn'.hasDrawn = turn.hasDrawn /\ turn'.playerIndex = turn.playerIndex
    BY <1>0, <2>2 DEF TypeOK, Turns
  <2>7. ASSUME NEW q \in Seats
        PROVE  Cardinality(hand'[q]) <= IF turn'.hasDrawn /\ turn'.playerIndex = q
                                        THEN InitialHandSize + 1 ELSE InitialHandSize
    <3>1. Cardinality(hand[q]) <= IF turn'.hasDrawn /\ turn'.playerIndex = q
                                  THEN InitialHandSize + 1 ELSE InitialHandSize
      BY <1>0, <2>3, <2>6 DEF HandStaysBounded
    <3>2. CASE q = p
      <4>1. hand'[q] = next.hand
        BY <1>2, <2>2, <3>2
      <4> QED BY <2>4, <2>5, <3>1, <3>2, <4>1
    <3>3. CASE q # p
      BY <1>2, <2>2, <3>1, <3>3
    <3> QED BY <3>2, <3>3
  <2>8. HandStaysBounded'
    BY <2>7 DEF HandStaysBounded
  <2> QED BY <1>1, <2>1, <2>2, <2>3, <2>8 DEF CardsInv
<1>9. ASSUME NEW table \in restoredTable, NEW req \in Requests(hand[turn.playerIndex], table),
             PlayTableAndDiscard(table, req)
      PROVE  CardsInv'
  <2>1. PICK next \in tablePlay(table, req) :
          \E card \in next.hand : discardAndEndTurn(next.hand, next.table, card)
    BY <1>9 DEF PlayTableAndDiscard
  <2>2. PICK card \in next.hand : discardAndEndTurn(next.hand, next.table, card)
    BY <2>1
  <2>3. /\ table \in SUBSET Compositions /\ noCardTwice(table)
        /\ cardsOf(table) = cardsOf(activeCompositions)
    BY <1>0, <1>3, RestoredTableType, RestoredCards
  <2>4. /\ phase = "in_progress" /\ next.hand \in SUBSET Deck /\ next.table \in SUBSET Compositions
    BY <1>0, <1>9, <2>1, <2>3, TablePlayResult
  <2>5. next \in applyTablePlayState(hand[p], hasOpened[p], table, req)
    BY <2>1 DEF tablePlay, p
  <2>6. hand[p] \cap cardsOf(table) = {} /\ req \in Requests(hand[p], table)
    BY <1>3, <1>9, <2>3 DEF p
  <2>7. /\ noCardTwice(next.table)
        /\ next.hand \cup cardsOf(next.table) = hand[p] \cup cardsOf(table)
        /\ next.hand \cap cardsOf(next.table) = {}
    BY <1>2, <2>3, <2>5, <2>6, PlayKeepsCards
  <2>8. Cardinality(next.hand) <= Cardinality(hand[p])
    BY <1>2, <2>3, <2>5, <2>6, PlayKeepsSize
  <2>9. CardsConserved'
    BY <1>0, <2>2, <2>3, <2>4, <2>7, DiscardCards DEF p
  <2>10. HandStaysBounded' /\ phase' # "lobby"
    BY <1>0, <2>2, <2>4, <2>8, DiscardHandSize DEF p
  <2> QED BY <1>1, <2>9, <2>10 DEF CardsInv
<1>10. ASSUME NEW card \in hand[turn.playerIndex], DiscardFromHand(card)
       PROVE  CardsInv'
  <2>1. phase = "in_progress" /\ discardAndEndTurn(hand[p], activeCompositions, card)
    BY <1>10 DEF DiscardFromHand, p
  <2>2. card \in hand[p]
    BY <1>10 DEF p
  <2>3. CardsConserved'
    BY <1>0, <1>2, <1>3, <2>1, <2>2, DiscardCards DEF p
  <2>4. Cardinality(hand[p]) <= Cardinality(hand[p])
    BY <1>0, <1>2, <2>1, HandSizes
  <2>5. HandStaysBounded' /\ phase' # "lobby"
    BY <1>0, <1>2, <2>1, <2>2, <2>4, DiscardHandSize DEF p
  <2> QED BY <1>1, <2>3, <2>5 DEF CardsInv
<1>11. ASSUME NEW q \in Seats, ForfeitPlayer(q)
       PROVE  CardsInv'
  <2>1. CardsConserved'
    BY <1>0, <1>11, ForfeitCards
  <2>2. HandStaysBounded' /\ phase' # "lobby"
    BY <1>0, <1>11, ForfeitHandSize
  <2> QED BY <1>1, <2>1, <2>2 DEF CardsInv
<1>12. CASE EndWithoutWinner
  <2>1. phase' = "game_over" /\ UNCHANGED cardVars
    BY <1>12 DEF EndWithoutWinner
  <2>2. CardsConserved'
    BY <1>0, <2>1 DEF CardsConserved, cardVars
  <2> QED BY <1>1, <2>1, <2>2 DEF CardsInv, HandStaysBounded
<1>13. CASE UNCHANGED vars
  <2>1. UNCHANGED <<hand, activeCompositions, drawPile, discardPile, phase, turn>>
    BY <1>13 DEF vars, cardVars, scoreVars
  <2>2. CardsConserved' /\ HandStaysBounded'
    BY <1>0, <2>1 DEF CardsConserved, HandStaysBounded
  <2> QED BY <1>0, <1>1, <2>1, <2>2 DEF CardsInv
<1> QED BY <1>4, <1>5, <1>6, <1>7, <1>8, <1>9, <1>10, <1>11, <1>12, <1>13 DEF Next

\* CardsInv holds in every state of every game.
THEOREM CardsCorrect == Spec => []CardsInv
BY CardsInit, CardsNext, PTL DEF Spec

\* Dealing, drawing, playing, reclaiming, completing, recycling and forfeiting never lose
\* or duplicate a card, whatever the deck, the deals, the plays and the shuffles are.
THEOREM AllCardsConserved == Spec => []CardsConserved
<1>1. CardsInv => CardsConserved
  BY DEF CardsInv
<1> QED BY <1>1, CardsCorrect, PTL

\* No hand grows beyond its first size and the card drawn in the turn: thirteen cards in
\* the code, of the thirty-two that the search of canTakeDiscardNow can number in a word.
THEOREM HandsStayBounded == Spec => []HandStaysBounded
<1>1. CardsInv => HandStaysBounded
  BY DEF CardsInv
<1> QED BY <1>1, CardsCorrect, PTL

-----------------------------------------------------------------------------
(***************************************************************************)
(* Runs: what makes one valid.                                             *)
(***************************************************************************)
\* A sequence of n cards, as NewGameDeck makes them.
CardSeq(cards, n) ==
  /\ Len(cards) = n /\ DOMAIN cards = 1 .. n
  /\ \A i \in 1 .. n : cards[i].rank \in 0 .. King /\ (IsJoker(cards[i]) => cards[i].suit = 0)

\* The positions of the aces.
acesOf(cards) == {i \in nonJokerCards(cards) : cards[i].rank = Ace}

\* f reads the natural cards as different ranks of the window of n that begins with start.
Reading(cards, n, f, start) ==
  /\ start \in 1 .. (15 - n)
  /\ f \in [nonJokerCards(cards) -> start .. (start + n - 1)]
  /\ \A i \in nonJokerCards(cards) : sequenceRankToCardRank(f[i]) = cards[i].rank
  /\ \A i, j \in nonJokerCards(cards) : f[i] = f[j] => i = j

\* A sequence of cards is one of naturals and jokers.
LEMMA CardPositions ==
  ASSUME NEW n \in Nat, NEW cards, CardSeq(cards, n)
  PROVE  /\ DOMAIN cards = 1 .. n /\ IsFiniteSet(DOMAIN cards)
         /\ nonJokerCards(cards) \subseteq 1 .. n
         /\ jokerCardIndices(cards) = (1 .. n) \ nonJokerCards(cards)
         /\ \A i \in nonJokerCards(cards) : cards[i].rank \in 1 .. 13
<1>1. DOMAIN cards = 1 .. n /\ \A i \in 1 .. n : cards[i].rank \in 0 .. 13
  BY DEF CardSeq, King
<1>2. IsFiniteSet(DOMAIN cards)
  BY <1>1, FS_Interval
<1>3. /\ nonJokerCards(cards) \subseteq DOMAIN cards
      /\ jokerCardIndices(cards) = DOMAIN cards \ nonJokerCards(cards)
      /\ \A i \in nonJokerCards(cards) : cards[i].rank # 0
  BY DEF nonJokerCards, jokerCardIndices, IsJoker
<1>4. \A i \in nonJokerCards(cards) : cards[i].rank \in 1 .. 13
  BY <1>1, <1>3
<1> QED BY <1>1, <1>2, <1>3, <1>4

\* What the sequence ranks of the natural cards are.
RanksOf(ranks, cards, aceLow) ==
  LET real == nonJokerCards(cards)
      aces == acesOf(cards)
  IN  /\ ranks \in [real -> 1 .. 14]
      /\ \A i \in real : sequenceRankToCardRank(ranks[i]) = cards[i].rank
      /\ \A i \in real \ aces : ranks[i] = cards[i].rank
      /\ \A i \in aces : aceLow => ranks[i] = 1
      /\ \A i \in aces : ~aceLow /\ Cardinality(aces) # 2 => ranks[i] = 14
      /\ \A i \in aces : ~aceLow /\ Cardinality(aces) = 2 =>
           ranks[i] = IF \A j \in aces : i <= j THEN 1 ELSE 14

\* Card ranks count from 1 to 13, sequence ranks to 14.
LEMMA SequenceRanks ==
  ASSUME NEW n \in Nat, NEW cards, CardSeq(cards, n), NEW aceLow \in BOOLEAN
  PROVE  RanksOf(sequenceRanksForCards(cards, aceLow), cards, aceLow)
<1> DEFINE ranks == sequenceRanksForCards(cards, aceLow)
           aces  == acesOf(cards)
           real  == nonJokerCards(cards)
<1>1. \A i \in real : cards[i].rank \in 1 .. 13
  BY CardPositions
<1>2. /\ DOMAIN ranks = real /\ ranks = [i \in real |-> ranks[i]]
      /\ \A i \in real \ aces : ranks[i] = cards[i].rank
      /\ \A i \in aces : ranks[i] =
           IF aceLow \/ (Cardinality(aces) = 2 /\ \A j \in aces : i <= j) THEN 1 ELSE 14
  BY DEF sequenceRanksForCards, acesOf
<1>3. \A i \in real : i \in aces <=> cards[i].rank = 1
  BY DEF acesOf, Ace
<1> HIDE DEF ranks, aces, real
<1>4. ranks \in [real -> 1 .. 14]
  <2>1. \A i \in real : ranks[i] \in 1 .. 14
    BY <1>1, <1>2, <1>3
  <2> QED BY <1>2, <2>1
<1>5. \A i \in real : sequenceRankToCardRank(ranks[i]) = cards[i].rank
  <2> SUFFICES ASSUME NEW i \in real
               PROVE  sequenceRankToCardRank(ranks[i]) = cards[i].rank
    OBVIOUS
  <2>1. CASE i \in aces
    <3>1. ranks[i] \in {1, 14} /\ cards[i].rank = 1
      BY <2>1, <1>2, <1>3
    <3> QED BY <3>1 DEF sequenceRankToCardRank, Ace
  <2>2. CASE i \notin aces
    <3>1. ranks[i] = cards[i].rank /\ cards[i].rank \in 1 .. 13
      BY <2>2, <1>1, <1>2
    <3> QED BY <3>1 DEF sequenceRankToCardRank
  <2> QED BY <2>1, <2>2
<1>6. aces \subseteq real
  BY DEF aces, real, acesOf
<1> QED BY <1>2, <1>4, <1>5 DEF RanksOf, ranks, aces, real

\* A legal run is one of one suit that has a reading.
LEMMA LegalIsRead ==
  ASSUME NEW n \in Nat, NEW cards, CardSeq(cards, n)
  PROVE  LegalRun(cards) <=>
           /\ n \in 3 .. 14
           /\ \A i, j \in nonJokerCards(cards) : cards[i].suit = cards[j].suit
           /\ \E f, start : Reading(cards, n, f, start)
<1> DEFINE real == nonJokerCards(cards)
           aces == {i \in DOMAIN cards : cards[i].rank = Ace}
           rank(lows, i) == IF cards[i].rank = Ace /\ i \notin lows THEN 14 ELSE cards[i].rank
           Window(start, lows) ==
             /\ \A i \in real : rank(lows, i) \in start .. (start + n - 1)
             /\ \A i, j \in real : i # j => rank(lows, i) # rank(lows, j)
<1>0. LegalRun(cards) <=>
        /\ n \in 3 .. 14
        /\ \A i, j \in real : cards[i].suit = cards[j].suit
        /\ \E start \in 1 .. (15 - n) : \E lows \in SUBSET aces : Window(start, lows)
  BY DEF LegalRun, Reads, CardSeq
<1>1. /\ real \subseteq DOMAIN cards
      /\ \A i \in real : cards[i].rank \in 1 .. 13
  BY CardPositions
<1> HIDE DEF real
<1>2. ASSUME n \in 3 .. 14, NEW start \in 1 .. (15 - n), NEW lows \in SUBSET aces, Window(start, lows)
      PROVE  \E f, t : Reading(cards, n, f, t)
  <2> DEFINE f == [i \in real |-> rank(lows, i)]
  <2>2. f \in [real -> start .. (start + n - 1)]
    BY <1>2
  <2>3. \A i \in real : sequenceRankToCardRank(f[i]) = cards[i].rank
    BY <1>1 DEF sequenceRankToCardRank, Ace
  <2>4. \A i, j \in real : f[i] = f[j] => i = j
    BY <1>2
  <2> QED BY <2>2, <2>3, <2>4 DEF Reading, real
<1>3. ASSUME n \in 3 .. 14, NEW f, NEW start, Reading(cards, n, f, start)
      PROVE  /\ start \in 1 .. (15 - n)
             /\ \E lows \in SUBSET aces : Window(start, lows)
  <2> DEFINE lows == {i \in real : f[i] = 1}
  <2>1. /\ start \in 1 .. (15 - n) /\ f \in [real -> start .. (start + n - 1)]
        /\ \A i \in real : sequenceRankToCardRank(f[i]) = cards[i].rank
        /\ \A i, j \in real : f[i] = f[j] => i = j
    BY <1>3 DEF Reading, real
  <2>2. \A i \in real : f[i] \in 1 .. 14
    BY <1>3, <2>1
  <2>3. lows \in SUBSET aces
    BY <1>1, <2>1 DEF sequenceRankToCardRank, Ace
  <2>4. \A i \in real : rank(lows, i) = f[i]
    BY <1>1, <2>1, <2>2 DEF sequenceRankToCardRank, Ace
  <2> HIDE DEF lows, aces
  <2>5. Window(start, lows)
    BY <2>1, <2>4
  <2> QED BY <2>1, <2>3, <2>5
<1> HIDE DEF Window, rank, aces
<1> QED BY <1>0, <1>2, <1>3 DEF real

\* A window of n ranks holds every rank that is less than n above the least.
LEMMA WindowHolds ==
  ASSUME NEW n \in 3 .. 14, NEW m \in 1 .. 14, NEW r \in m .. 14, r - m < n
  PROVE  LET start == IF m + n - 1 <= 14 THEN m ELSE 15 - n
         IN  start \in 1 .. (15 - n) /\ r \in start .. (start + n - 1)
OBVIOUS

\* What tryFitSequence fits can be read, in the window that begins with the least rank, or
\* in the last one.
LEMMA FitIsRead ==
  ASSUME NEW n \in 3 .. 14, NEW cards, CardSeq(cards, n),
         NEW aceLow \in BOOLEAN, tryFitSequence(cards, aceLow)
  PROVE  \E f, start : Reading(cards, n, f, start)
<1> DEFINE real == nonJokerCards(cards)
           ranks == sequenceRanksForCards(cards, aceLow)
<1>1. /\ ranks \in [real -> 1 .. 14]
      /\ \A i \in real : sequenceRankToCardRank(ranks[i]) = cards[i].rank
  BY SequenceRanks DEF RanksOf
<1>2. \A i, j \in real : (ranks[i] = ranks[j] => i = j) /\ ranks[i] - ranks[j] < n
  BY <1>1 DEF tryFitSequence, CardSeq
<1>6. ASSUME NEW start \in 1 .. (15 - n), ranks \in [real -> start .. (start + n - 1)]
      PROVE  Reading(cards, n, ranks, start)
  BY <1>1, <1>2, <1>6 DEF Reading
<1> HIDE DEF ranks, real
<1>3. CASE real = {}
  <2>1. 1 \in 1 .. (15 - n) /\ ranks \in [real -> 1 .. (1 + n - 1)]
    BY <1>1, <1>3
  <2> QED BY <1>6, <2>1
<1>4. CASE real # {}
  <2>1. ranks \in [real -> Nat]
    BY <1>1
  <2>2. PICK m \in real : \A i \in real : ranks[m] <= ranks[i]
    BY <1>4, <2>1, LeastArgument
  <2> DEFINE start == IF ranks[m] + n - 1 <= 14 THEN ranks[m] ELSE 15 - n
  <2>3. ASSUME NEW i \in real
        PROVE  start \in 1 .. (15 - n) /\ ranks[i] \in start .. (start + n - 1)
    <3>1. ranks[m] \in 1 .. 14 /\ ranks[i] \in ranks[m] .. 14 /\ ranks[i] - ranks[m] < n
      BY <1>1, <1>2, <2>2
    <3> QED BY <3>1, WindowHolds
  <2> HIDE DEF start
  <2>4. start \in 1 .. (15 - n) /\ ranks \in [real -> start .. (start + n - 1)]
    BY <1>1, <2>2, <2>3
  <2> QED BY <1>6, <2>4
<1> QED BY <1>3, <1>4

\* Both aces can be read in the longest run only.
LEMMA AcesRead ==
  ASSUME NEW n \in 3 .. 14, NEW cards, CardSeq(cards, n),
         NEW f, NEW start, Reading(cards, n, f, start)
  PROVE  /\ f \in [nonJokerCards(cards) -> 1 .. 14]
         /\ acesOf(cards) = {i \in nonJokerCards(cards) : f[i] \in {1, 14}}
         /\ \/ acesOf(cards) = {}
            \/ \E p : acesOf(cards) = {p}
            \/ /\ n = 14
               /\ \E p, q \in Nat : p < q /\ acesOf(cards) = {p, q}
<1> DEFINE real == nonJokerCards(cards)
           aces == acesOf(cards)
<1>1. /\ start \in 1 .. (15 - n) /\ f \in [real -> start .. (start + n - 1)]
      /\ \A i \in real : sequenceRankToCardRank(f[i]) = cards[i].rank
      /\ \A i, j \in real : f[i] = f[j] => i = j
  BY DEF Reading
<1>2. real \subseteq Nat
  BY CardPositions
<1> HIDE DEF real
<1>3. f \in [real -> 1 .. 14]
  BY <1>1, <1>2
<1>4. aces = {i \in real : f[i] \in {1, 14}}
  BY <1>1, <1>3 DEF sequenceRankToCardRank, acesOf, Ace, real
<1> HIDE DEF aces
<1>5. ASSUME NEW p \in aces, NEW q \in aces, p # q
      PROVE  n = 14 /\ aces = {p, q}
  <2>1. {f[p], f[q]} = {1, 14}
    BY <1>1, <1>4, <1>5
  <2>2. n = 14
    <3>1. 1 \in start .. (start + n - 1) /\ 14 \in start .. (start + n - 1)
      BY <1>1, <1>4, <2>1
    <3> QED BY <1>1, <1>2, <3>1
  <2>3. \A r \in aces : r \in {p, q}
    BY <1>1, <1>4, <2>1
  <2> QED BY <2>2, <2>3
<1>6. CASE \E p, q \in aces : p # q
  <2>1. PICK p \in aces, q \in aces : p # q
    BY <1>6
  <2>2. n = 14 /\ aces = {p, q} /\ p \in Nat /\ q \in Nat
    BY <1>2, <1>4, <1>5, <2>1
  <2>3. p < q \/ q < p
    BY <2>1, <2>2
  <2>4. n = 14 /\ \E u, v \in Nat : u < v /\ aces = {u, v}
    BY <2>2, <2>3
  <2> QED BY <1>3, <1>4, <2>4 DEF real, aces
<1>7. CASE ~ \E p, q \in aces : p # q
  <2>1. ASSUME NEW p \in aces
        PROVE  aces = {p}
    BY <1>7
  <2>2. aces = {} \/ \E p : aces = {p}
    BY <2>1
  <2> QED BY <1>3, <1>4, <2>2 DEF real, aces
<1> QED BY <1>6, <1>7

\* The ranks of a reading are those that sequenceRanksForCards gives, with the one ace
\* low or high as it is read; of two aces, either may be the low one.
LEMMA RanksAreRead ==
  ASSUME NEW n \in 3 .. 14, NEW cards, CardSeq(cards, n),
         NEW f, NEW start, Reading(cards, n, f, start)
  PROVE  \E aceLow \in BOOLEAN :
           LET ranks == sequenceRanksForCards(cards, aceLow)
               real  == nonJokerCards(cards)
           IN  \/ \A i \in real : ranks[i] = f[i]
               \/ /\ n = 14
                  /\ \A i, j \in real : ranks[i] = ranks[j] => i = j
<1> DEFINE real == nonJokerCards(cards)
           aces == acesOf(cards)
           high == sequenceRanksForCards(cards, FALSE)
           low  == sequenceRanksForCards(cards, TRUE)
<1>1. /\ f \in [real -> 1 .. 14] /\ aces = {i \in real : f[i] \in {1, 14}}
      /\ aces = {} \/ (\E p : aces = {p}) \/ (n = 14 /\ \E p, q \in Nat : p < q /\ aces = {p, q})
  BY AcesRead
<1>0. n \in Nat
  OBVIOUS
<1>2. /\ \A i \in real : sequenceRankToCardRank(f[i]) = cards[i].rank
      /\ \A i, j \in real : f[i] = f[j] => i = j
  BY DEF Reading
<1>3. /\ high \in [real -> 1 .. 14]
      /\ \A i \in real : sequenceRankToCardRank(high[i]) = cards[i].rank
      /\ \A i \in aces : Cardinality(aces) # 2 => high[i] = 14
      /\ \A i \in aces : Cardinality(aces) = 2 => high[i] = IF \A j \in aces : i <= j THEN 1 ELSE 14
  <2>1. RanksOf(high, cards, FALSE)
    BY <1>0, SequenceRanks
  <2> HIDE DEF high
  <2> QED BY <2>1 DEF RanksOf
<1>4. /\ low \in [real -> 1 .. 14]
      /\ \A i \in real : sequenceRankToCardRank(low[i]) = cards[i].rank
      /\ \A i \in aces : low[i] = 1
  <2>1. RanksOf(low, cards, TRUE)
    BY <1>0, SequenceRanks
  <2> HIDE DEF low
  <2> QED BY <2>1 DEF RanksOf
<1>5. \A i \in real : i \in aces <=> cards[i].rank = 1
  BY DEF acesOf, Ace
<1> SUFFICES \/ \A i \in real : high[i] = f[i]
             \/ \A i \in real : low[i] = f[i]
             \/ n = 14 /\ \A i, j \in real : high[i] = high[j] => i = j
  OBVIOUS
<1> HIDE DEF real, aces, high, low
<1>6. \A i \in real \ aces : high[i] = f[i] /\ low[i] = f[i] /\ f[i] \in 2 .. 13
  BY <1>1, <1>2, <1>3, <1>4, <1>5 DEF sequenceRankToCardRank, Ace
<1>7. CASE aces = {}
  BY <1>6, <1>7
<1>8. CASE \E p : aces = {p}
  <2>1. PICK p : aces = {p}
    BY <1>8
  <2>2. Cardinality(aces) # 2
    <3>1. Cardinality({p}) = 1
      BY FS_Singleton
    <3> QED BY <2>1, <3>1
  <2>3. p \in real /\ f[p] \in {1, 14} /\ high[p] = 14 /\ low[p] = 1
    BY <1>1, <1>3, <1>4, <2>1, <2>2
  <2> QED BY <1>6, <2>1, <2>3
<1>9. CASE n = 14 /\ \E p, q \in Nat : p < q /\ aces = {p, q}
  <2>1. PICK p \in Nat, q \in Nat : p < q /\ aces = {p, q}
    BY <1>9
  <2>2. Cardinality(aces) = 2
    <3>1. IsFiniteSet({p}) /\ Cardinality({p}) = 1
      BY FS_Singleton
    <3>4. q \notin {p}
      BY <2>1
    <3>2. Cardinality({p} \cup {q}) = Cardinality({p}) + 1
      BY <3>1, <3>4, FS_AddElement
    <3>3. {p} \cup {q} = aces
      BY <2>1
    <3> QED BY <3>1, <3>2, <3>3
  <2>3. high[p] = 1 /\ high[q] = 14
    BY <1>3, <2>1, <2>2
  <2>4. ASSUME NEW i \in real, NEW j \in real, high[i] = high[j]
        PROVE  i = j
    <3>1. i \in {p, q} \/ (high[i] = f[i] /\ high[i] \in 2 .. 13)
      BY <1>6, <2>1
    <3>2. j \in {p, q} \/ (high[j] = f[j] /\ high[j] \in 2 .. 13)
      BY <1>6, <2>1
    <3>3. CASE i \in {p, q} /\ j \in {p, q}
      BY <2>3, <2>4, <3>3
    <3>4. CASE i \notin {p, q} \/ j \notin {p, q}
      BY <1>2, <2>3, <2>4, <3>1, <3>2, <3>4
    <3> QED BY <3>3, <3>4
  <2> QED BY <1>9, <2>4
<1> QED BY <1>1, <1>7, <1>8, <1>9

\* What can be read is fitted.
LEMMA ReadFits ==
  ASSUME NEW n \in 3 .. 14, NEW cards, CardSeq(cards, n),
         NEW f, NEW start, Reading(cards, n, f, start)
  PROVE  \E aceLow \in BOOLEAN : tryFitSequence(cards, aceLow)
<1> DEFINE real == nonJokerCards(cards)
<1>1. PICK aceLow \in BOOLEAN :
        \/ \A i \in real : sequenceRanksForCards(cards, aceLow)[i] = f[i]
        \/ /\ n = 14
           /\ \A i, j \in real :
                sequenceRanksForCards(cards, aceLow)[i] = sequenceRanksForCards(cards, aceLow)[j] => i = j
  BY RanksAreRead
<1> DEFINE ranks == sequenceRanksForCards(cards, aceLow)
<1>2. ranks \in [real -> 1 .. 14]
  BY SequenceRanks DEF RanksOf
<1>3. /\ start \in 1 .. (15 - n) /\ f \in [real -> start .. (start + n - 1)]
      /\ \A i, j \in real : f[i] = f[j] => i = j
  BY DEF Reading
<1>8. (\A i \in real : ranks[i] = f[i]) \/ (n = 14 /\ \A i, j \in real : ranks[i] = ranks[j] => i = j)
  BY <1>1
<1> SUFFICES /\ \A i, j \in DOMAIN ranks : ranks[i] = ranks[j] => i = j
             /\ \A i, j \in DOMAIN ranks : ranks[i] - ranks[j] < n
  BY DEF tryFitSequence, CardSeq
<1> HIDE DEF ranks, real
<1>6. \A i, j \in real : ranks[i] = ranks[j] => i = j
  BY <1>3, <1>8
<1>7. ASSUME NEW i \in real, NEW j \in real
      PROVE  ranks[i] - ranks[j] < n
  <2>1. ranks[i] \in 1 .. 14 /\ ranks[j] \in 1 .. 14
    BY <1>2
  <2>2. CASE n = 14
    BY <2>1, <2>2
  <2>3. CASE \A k \in real : ranks[k] = f[k]
    <3>1. ranks[i] \in start .. (start + n - 1) /\ ranks[j] \in start .. (start + n - 1)
      BY <1>3, <2>3
    <3> QED BY <1>3, <3>1
  <2> QED BY <1>8, <2>2, <2>3
<1> QED BY <1>2, <1>6, <1>7

\* Two different elements make a set of two, and every set of two is made of two.
LEMMA PairCardinality ==
  ASSUME NEW T, IsFiniteSet(T)
  PROVE  Cardinality(T) = 2 <=> \E p, q : p # q /\ T = {p, q}
<1>1. ASSUME NEW p, NEW q, p # q, T = {p, q}
      PROVE  Cardinality(T) = 2
  <2>1. IsFiniteSet({p}) /\ Cardinality({p}) = 1
    BY FS_Singleton
  <2>2. q \notin {p}
    BY <1>1
  <2>3. Cardinality({p} \cup {q}) = Cardinality({p}) + 1
    BY <2>1, <2>2, FS_AddElement
  <2>4. {p} \cup {q} = T
    BY <1>1
  <2> QED BY <2>1, <2>3, <2>4
<1>2. ASSUME Cardinality(T) = 2
      PROVE  \E p, q : p # q /\ T = {p, q}
  <2>1. T # {}
    BY <1>2, FS_EmptySet
  <2>2. PICK p \in T : TRUE
    BY <2>1
  <2>3. IsFiniteSet(T \ {p}) /\ Cardinality(T \ {p}) = Cardinality(T) - 1
    BY <2>2, FS_RemoveElement
  <2>4. Cardinality(T \ {p}) = 1
    BY <1>2, <2>3
  <2>5. PICK q : T \ {p} = {q}
    BY <2>3, <2>4, FS_Singleton
  <2>6. p # q /\ T = {p, q}
    BY <2>2, <2>5
  <2> QED BY <2>6
<1> QED BY <1>1, <1>2

\* An injection between sets of the same size leaves nothing out.
LEMMA InjectionCovers ==
  ASSUME NEW S, NEW T, IsFiniteSet(S), IsFiniteSet(T), Cardinality(S) = Cardinality(T),
         NEW f \in [S -> T], \A x, y \in S : f[x] = f[y] => x = y
  PROVE  \A t \in T : \E x \in S : f[x] = t
<1>1. f \in Injection(S, T)
  BY DEF Injection, IsInjective
<1>2. f \in Surjection(S, T)
  BY <1>1, FS_Injection
<1> QED BY <1>2 DEF Surjection

\* The cards of a rank.
ofRank(cards, rank) == {i \in DOMAIN cards : cards[i].rank = rank}

\* A window of naturalRunIsValid: there is one card of every rank of the window, and none of
\* another, with an ace for either end of the ranks.
NaturalWindow(cards, n, start) ==
  LET window == start .. (start + n - 1)
  IN  /\ Cardinality(ofRank(cards, 1)) =
           (IF 1 \in window THEN 1 ELSE 0) + (IF 14 \in window THEN 1 ELSE 0)
      /\ \A r \in 2 .. 13 : Cardinality(ofRank(cards, r)) = IF r \in window THEN 1 ELSE 0

\* naturalRunIsValid looks for a window that the cards fill rank by rank.
LEMMA NaturalWindows ==
  ASSUME NEW n \in Nat, NEW cards, CardSeq(cards, n)
  PROVE  naturalRunIsValid(cards) <=> \E start \in 1 .. (15 - n) : NaturalWindow(cards, n, start)
<1>1. Len(cards) = n
  BY DEF CardSeq
<1> QED BY <1>1, Zenon DEF naturalRunIsValid, NaturalWindow, ofRank, Ace, Two, King

\* Runs of natural cards: the rank counts say what a reading says.
LEMMA NaturalIsRead ==
  ASSUME NEW n \in 3 .. 14, NEW cards, CardSeq(cards, n), jokerCardIndices(cards) = {},
         NEW start \in 1 .. (15 - n), NaturalWindow(cards, n, start)
  PROVE  \E f : Reading(cards, n, f, start)
<1> DEFINE window == start .. (start + n - 1)
           aces   == ofRank(cards, 1)
           real   == nonJokerCards(cards)
<1>1. /\ real = 1 .. n /\ \A i \in real : cards[i].rank \in 1 .. 13
      /\ DOMAIN cards = 1 .. n
      /\ IsFiniteSet(1 .. n)
  <2>1. n \in Nat
    OBVIOUS
  <2>2. /\ DOMAIN cards = 1 .. n /\ IsFiniteSet(DOMAIN cards)
        /\ real \subseteq 1 .. n /\ jokerCardIndices(cards) = (1 .. n) \ real
        /\ \A i \in real : cards[i].rank \in 1 .. 13
    BY <2>1, CardPositions
  <2> QED BY <2>2
<1>2. /\ aces = {i \in real : cards[i].rank = 1}
      /\ \A r \in 2 .. 13 : ofRank(cards, r) = {i \in real : cards[i].rank = r}
  BY <1>1 DEF ofRank
<1>3. /\ IsFiniteSet(aces)
      /\ \A r \in 2 .. 13 : IsFiniteSet(ofRank(cards, r))
  BY <1>1, <1>2, FS_Subset
<1>4. ASSUME NEW i \in real, cards[i].rank # 1
      PROVE  /\ cards[i].rank \in window
             /\ \A j \in real : cards[j].rank = cards[i].rank => i = j
  <2>1. cards[i].rank \in 2 .. 13
    BY <1>1, <1>4
  <2> DEFINE T == ofRank(cards, cards[i].rank)
  <2>2. i \in T /\ IsFiniteSet(T) /\ T = {j \in real : cards[j].rank = cards[i].rank}
    BY <1>2, <1>3, <2>1
  <2>3. Cardinality(T) = IF cards[i].rank \in window THEN 1 ELSE 0
    BY <2>1 DEF NaturalWindow
  <2> HIDE DEF T, window
  <2>4. Cardinality(T) # 0
    BY <2>2, FS_EmptySet
  <2>5. cards[i].rank \in window /\ Cardinality(T) = 1
    BY <2>3, <2>4
  <2>6. PICK x : T = {x}
    BY <2>2, <2>5, FS_Singleton
  <2> QED BY <2>2, <2>5, <2>6
<1>5. Cardinality(aces) = (IF 1 \in window THEN 1 ELSE 0) + (IF 14 \in window THEN 1 ELSE 0)
  BY DEF NaturalWindow
<1>6. \E a \in [aces -> window \cap {1, 14}] : \A i, j \in aces : a[i] = a[j] => i = j
  <2> HIDE DEF window, aces
  <2>1. CASE Cardinality(aces) = 0
    <3>1. aces = {}
      BY <1>3, <2>1, FS_EmptySet
    <3> DEFINE a == [i \in aces |-> 1]
    <3>2. a \in [aces -> window \cap {1, 14}] /\ \A i, j \in aces : a[i] = a[j] => i = j
      BY <3>1
    <3> QED BY <3>2
  <2>2. CASE Cardinality(aces) = 1
    <3>1. PICK p : aces = {p}
      BY <1>3, <2>2, FS_Singleton
    <3>2. PICK x \in window \cap {1, 14} : TRUE
      BY <1>5, <2>2
    <3> DEFINE a == [i \in aces |-> x]
    <3>3. a \in [aces -> window \cap {1, 14}] /\ \A i, j \in aces : a[i] = a[j] => i = j
      BY <3>1, <3>2
    <3> QED BY <3>3
  <2>3. CASE Cardinality(aces) = 2
    <3>1. PICK p, q : p # q /\ aces = {p, q}
      BY <1>3, <2>3, PairCardinality
    <3>2. 1 \in window /\ 14 \in window
      BY <1>5, <2>3
    <3> DEFINE a == [i \in aces |-> IF i = p THEN 1 ELSE 14]
    <3>3. a \in [aces -> window \cap {1, 14}]
      BY <3>2
    <3>4. \A i, j \in aces : a[i] = a[j] => i = j
      BY <3>1
    <3> QED BY <3>3, <3>4
  <2> QED BY <1>5, <2>1, <2>2, <2>3
<1>7. PICK a \in [aces -> window \cap {1, 14}] : \A i, j \in aces : a[i] = a[j] => i = j
  BY <1>6
<1> DEFINE f == [i \in real |-> IF cards[i].rank = 1 THEN a[i] ELSE cards[i].rank]
<1> HIDE DEF window, aces
<1>8. f \in [real -> window]
  BY <1>2, <1>4, <1>7
<1>9. \A i \in real : sequenceRankToCardRank(f[i]) = cards[i].rank
  BY <1>1, <1>2, <1>7 DEF sequenceRankToCardRank, Ace
<1>10. ASSUME NEW i \in real, NEW j \in real, f[i] = f[j]
       PROVE  i = j
  <2>1. cards[i].rank = cards[j].rank
    BY <1>9, <1>10
  <2>2. CASE cards[i].rank # 1
    BY <1>4, <2>1, <2>2
  <2>3. CASE cards[i].rank = 1
    <3>1. i \in aces /\ j \in aces /\ a[i] = a[j]
      BY <1>2, <1>10, <2>1, <2>3
    <3> QED BY <1>7, <3>1
  <2> QED BY <2>2, <2>3
<1> HIDE DEF f
<1> QED BY <1>8, <1>9, <1>10 DEF Reading, window

\* And a reading fills its window rank by rank.
LEMMA ReadIsNatural ==
  ASSUME NEW n \in 3 .. 14, NEW cards, CardSeq(cards, n), jokerCardIndices(cards) = {},
         NEW f, NEW start, Reading(cards, n, f, start)
  PROVE  start \in 1 .. (15 - n) /\ NaturalWindow(cards, n, start)
<1> DEFINE window == start .. (start + n - 1)
           aces   == ofRank(cards, 1)
           real   == nonJokerCards(cards)
<1>1. /\ real = 1 .. n /\ \A i \in real : cards[i].rank \in 1 .. 13
      /\ DOMAIN cards = 1 .. n
      /\ IsFiniteSet(1 .. n) /\ Cardinality(1 .. n) = n
  <2>1. n \in Nat /\ 1 \in Int /\ n \in Int
    OBVIOUS
  <2>2. /\ DOMAIN cards = 1 .. n /\ IsFiniteSet(DOMAIN cards)
        /\ real \subseteq 1 .. n /\ jokerCardIndices(cards) = (1 .. n) \ real
        /\ \A i \in real : cards[i].rank \in 1 .. 13
    BY <2>1, CardPositions
  <2>3. Cardinality(1 .. n) = n
    BY <2>1, FS_Interval
  <2> QED BY <2>2, <2>3
<1>2. /\ start \in 1 .. (15 - n) /\ f \in [real -> window]
      /\ \A i \in real : sequenceRankToCardRank(f[i]) = cards[i].rank
      /\ \A i, j \in real : f[i] = f[j] => i = j
  BY DEF Reading
<1>3. IsFiniteSet(window) /\ Cardinality(window) = n /\ window \subseteq 1 .. 14
  <2>1. start \in Int /\ start + n - 1 \in Int /\ start <= start + n - 1
    BY <1>2
  <2>2. IsFiniteSet(window) /\ Cardinality(window) = (start + n - 1) - start + 1
    BY <2>1, FS_Interval
  <2> QED BY <1>2, <2>1, <2>2
<1>4. \A r \in window : \E i \in real : f[i] = r
  <2> HIDE DEF window, real
  <2> QED BY <1>1, <1>2, <1>3, InjectionCovers
<1>5. ASSUME NEW r \in 2 .. 13
      PROVE  /\ ofRank(cards, r) = {i \in real : f[i] = r}
             /\ Cardinality(ofRank(cards, r)) = IF r \in window THEN 1 ELSE 0
  <2>1. \A i \in real : cards[i].rank = r <=> f[i] = r
    BY <1>1, <1>2, <1>3 DEF sequenceRankToCardRank, Ace
  <2>2. ofRank(cards, r) = {i \in real : f[i] = r}
    BY <1>1, <2>1 DEF ofRank
  <2> HIDE DEF window, real
  <2>3. CASE r \in window
    <3>1. PICK i \in real : f[i] = r
      BY <1>4, <2>3
    <3>2. ofRank(cards, r) = {i}
      BY <1>2, <2>2, <3>1
    <3> QED BY <2>2, <2>3, <3>2, FS_Singleton
  <2>4. CASE r \notin window
    <3>1. ofRank(cards, r) = {}
      BY <1>2, <2>2, <2>4
    <3> QED BY <2>2, <2>4, <3>1, FS_EmptySet
  <2> QED BY <2>3, <2>4
<1>6. aces = {i \in real : f[i] \in {1, 14}}
  <2>1. \A i \in real : cards[i].rank = 1 <=> f[i] \in {1, 14}
    BY <1>1, <1>2, <1>3 DEF sequenceRankToCardRank, Ace
  <2> QED BY <1>1, <2>1 DEF ofRank
<1> HIDE DEF window, aces, real
<1>7. IsFiniteSet(aces)
  BY <1>1, <1>6, FS_Subset
<1>8. Cardinality(aces) = (IF 1 \in window THEN 1 ELSE 0) + (IF 14 \in window THEN 1 ELSE 0)
  <2>1. CASE 1 \in window /\ 14 \in window
    <3>1. PICK p \in real, q \in real : f[p] = 1 /\ f[q] = 14
      BY <1>4, <2>1
    <3>2. p # q
      BY <3>1
    <3>3. aces = {p, q}
      BY <1>2, <1>6, <3>1
    <3>4. Cardinality(aces) = 2
      BY <1>7, <3>2, <3>3, PairCardinality
    <3> QED BY <2>1, <3>4
  <2>2. CASE 1 \in window /\ 14 \notin window
    <3>1. PICK p \in real : f[p] = 1
      BY <1>4, <2>2
    <3>2. aces = {p}
      BY <1>2, <1>6, <2>2, <3>1
    <3>3. Cardinality(aces) = 1
      BY <3>2, FS_Singleton
    <3> QED BY <2>2, <3>3
  <2>3. CASE 1 \notin window /\ 14 \in window
    <3>1. PICK p \in real : f[p] = 14
      BY <1>4, <2>3
    <3>2. aces = {p}
      BY <1>2, <1>6, <2>3, <3>1
    <3>3. Cardinality(aces) = 1
      BY <3>2, FS_Singleton
    <3> QED BY <2>3, <3>3
  <2>4. CASE 1 \notin window /\ 14 \notin window
    <3>1. aces = {}
      BY <1>2, <1>6, <2>4
    <3>2. Cardinality(aces) = 0
      BY <3>1, FS_EmptySet
    <3> QED BY <2>4, <3>2
  <2> QED BY <2>1, <2>2, <2>3, <2>4
<1> QED BY <1>2, <1>5, <1>8 DEF NaturalWindow, window, aces

\* isValidRun accepts exactly the legal runs.
LEMMA ValidIsLegal ==
  ASSUME NEW n \in Nat, NEW cards, CardSeq(cards, n)
  PROVE  isValidRun(cards) <=> LegalRun(cards)
<1> DEFINE real   == nonJokerCards(cards)
           jokers == jokerCardIndices(cards)
<1>1. LegalRun(cards) <=> /\ n \in 3 .. 14
                          /\ \A i, j \in real : cards[i].suit = cards[j].suit
                          /\ \E f, start : Reading(cards, n, f, start)
  BY LegalIsRead
<1>2. isValidRun(cards) <=> /\ n \in 3 .. 14
                            /\ \A i, j \in real : cards[i].suit = cards[j].suit
                            /\ IF jokers = {} THEN naturalRunIsValid(cards)
                               ELSE \E aceLow \in BOOLEAN : tryFitSequence(cards, aceLow)
  BY DEF isValidRun, CardSeq
<1> HIDE DEF real, jokers
<1>3. ASSUME n \in 3 .. 14
      PROVE  (\E f, start : Reading(cards, n, f, start)) <=>
               IF jokers = {} THEN naturalRunIsValid(cards)
               ELSE \E aceLow \in BOOLEAN : tryFitSequence(cards, aceLow)
  <2>1. CASE jokers = {}
    <3>1. naturalRunIsValid(cards) <=> \E start \in 1 .. (15 - n) : NaturalWindow(cards, n, start)
      BY NaturalWindows
    <3>2. ASSUME NEW f, NEW start, Reading(cards, n, f, start)
          PROVE  \E s \in 1 .. (15 - n) : NaturalWindow(cards, n, s)
      BY <1>3, <2>1, <3>2, ReadIsNatural DEF jokers
    <3>3. ASSUME NEW start \in 1 .. (15 - n), NaturalWindow(cards, n, start)
          PROVE  \E f, s : Reading(cards, n, f, s)
      BY <1>3, <2>1, <3>3, NaturalIsRead DEF jokers
    <3> QED BY <2>1, <3>1, <3>2, <3>3
  <2>2. CASE jokers # {}
    <3>1. ASSUME NEW f, NEW start, Reading(cards, n, f, start)
          PROVE  \E aceLow \in BOOLEAN : tryFitSequence(cards, aceLow)
      BY <1>3, <3>1, ReadFits
    <3>2. ASSUME NEW aceLow \in BOOLEAN, tryFitSequence(cards, aceLow)
          PROVE  \E f, start : Reading(cards, n, f, start)
      BY <1>3, <3>2, FitIsRead
    <3> QED BY <2>2, <3>1, <3>2
  <2> QED BY <2>1, <2>2
<1> QED BY <1>1, <1>2, <1>3

\* t has at i the card that s has at b[i].
Moves(b, s, t, n) ==
  /\ b \in [1 .. n -> 1 .. n]
  /\ \A i, j \in 1 .. n : b[i] = b[j] => i = j
  /\ \A j \in 1 .. n : \E i \in 1 .. n : b[i] = j
  /\ t = [i \in 1 .. n |-> s[b[i]]]
  /\ \A i \in 1 .. n : i \in nonJokerCards(t) <=> b[i] \in nonJokerCards(s)
  /\ \A i \in 1 .. n : i \in acesOf(t) <=> b[i] \in acesOf(s)

\* Moving the cards of a sequence moves its naturals and its jokers.
LEMMA PermutedMoves ==
  ASSUME NEW n \in Nat, NEW s, CardSeq(s, n), NEW t, Permuted(s, t)
  PROVE  \E b : Moves(b, s, t, n)
<1>1. DOMAIN s = 1 .. n
  BY DEF CardSeq
<1>2. PICK b \in Bijection(DOMAIN s, DOMAIN s) : t = [i \in DOMAIN s |-> s[b[i]]]
  BY DEF Permuted
<1>3. /\ b \in [1 .. n -> 1 .. n]
      /\ \A i, j \in 1 .. n : b[i] = b[j] => i = j
      /\ \A j \in 1 .. n : \E i \in 1 .. n : b[i] = j
  BY <1>1 DEF Bijection, Injection, Surjection, IsInjective
<1>4. t = [i \in 1 .. n |-> s[b[i]]]
  BY <1>1, <1>2
<1>5. \A i \in 1 .. n : i \in nonJokerCards(t) <=> b[i] \in nonJokerCards(s)
  BY <1>1, <1>3, <1>4 DEF nonJokerCards
<1>6. \A i \in 1 .. n : i \in acesOf(t) <=> b[i] \in acesOf(s)
  BY <1>3, <1>4, <1>5 DEF acesOf
<1> QED BY <1>3, <1>4, <1>5, <1>6 DEF Moves

\* Reordered cards are cards.
LEMMA PermutedCards ==
  ASSUME NEW n \in Nat, NEW s, CardSeq(s, n), NEW t, Permuted(s, t)
  PROVE  CardSeq(t, n)
<1>1. PICK b : Moves(b, s, t, n)
  BY PermutedMoves
<1>2. \A i \in 1 .. n : t[i].rank \in 0 .. King /\ (IsJoker(t[i]) => t[i].suit = 0)
  BY <1>1 DEF CardSeq, Moves
<1>3. Len(t) = n /\ DOMAIN t = 1 .. n
  BY <1>1 DEF Moves
<1> QED BY <1>2, <1>3 DEF CardSeq

\* A reading of the cards is one of the cards in another order,
LEMMA PermutedReads ==
  ASSUME NEW n \in Nat, NEW s, CardSeq(s, n), NEW t, Permuted(s, t),
         NEW f, NEW start, Reading(s, n, f, start)
  PROVE  \E g : Reading(t, n, g, start)
<1> DEFINE rs == nonJokerCards(s)
           rt == nonJokerCards(t)
<1>0. PICK b : Moves(b, s, t, n)
  BY PermutedMoves
<1>1. /\ b \in [1 .. n -> 1 .. n]
      /\ \A i, j \in 1 .. n : b[i] = b[j] => i = j
      /\ t = [i \in 1 .. n |-> s[b[i]]]
      /\ \A i \in 1 .. n : i \in rt <=> b[i] \in rs
  BY <1>0 DEF Moves
<1>2. /\ start \in 1 .. (15 - n) /\ f \in [rs -> start .. (start + n - 1)]
      /\ \A i \in rs : sequenceRankToCardRank(f[i]) = s[i].rank
      /\ \A i, j \in rs : f[i] = f[j] => i = j
  BY DEF Reading
<1>3. rt \subseteq 1 .. n
  BY <1>1 DEF nonJokerCards
<1> DEFINE g == [i \in rt |-> f[b[i]]]
<1> HIDE DEF rs, rt
<1>4. g \in [rt -> start .. (start + n - 1)]
  BY <1>1, <1>2, <1>3
<1>5. \A i \in rt : sequenceRankToCardRank(g[i]) = t[i].rank
  BY <1>1, <1>2, <1>3
<1>6. \A i, j \in rt : g[i] = g[j] => i = j
  BY <1>1, <1>2, <1>3
<1> QED BY <1>2, <1>4, <1>5, <1>6 DEF Reading, rt

\* so that the order of the cards does not decide whether they are a run.
LEMMA PermutedIsValid ==
  ASSUME NEW n \in Nat, NEW s, CardSeq(s, n), NEW t, Permuted(s, t), isValidRun(s)
  PROVE  isValidRun(t)
<1>1. CardSeq(t, n)
  BY PermutedCards
<1>2. /\ n \in 3 .. 14
      /\ \A i, j \in nonJokerCards(s) : s[i].suit = s[j].suit
      /\ \E f, start : Reading(s, n, f, start)
  BY ValidIsLegal, LegalIsRead
<1>3. \A i, j \in nonJokerCards(t) : t[i].suit = t[j].suit
  <2>0. PICK b : Moves(b, s, t, n)
    BY PermutedMoves
  <2>1. /\ b \in [1 .. n -> 1 .. n]
        /\ t = [i \in 1 .. n |-> s[b[i]]]
        /\ \A i \in 1 .. n : i \in nonJokerCards(t) <=> b[i] \in nonJokerCards(s)
    BY <2>0 DEF Moves
  <2>2. nonJokerCards(t) \subseteq 1 .. n
    BY <2>1 DEF nonJokerCards
  <2> QED BY <1>2, <2>1, <2>2
<1>4. \E f, start : Reading(t, n, f, start)
  BY <1>2, PermutedReads
<1>5. LegalRun(t)
  BY <1>1, <1>2, <1>3, <1>4, LegalIsRead
<1> QED BY <1>1, <1>5, ValidIsLegal

\* The natural cards of t have the sequence ranks of those of s, each once.
SameRanks(h, s, t, aceLow) ==
  LET rs == nonJokerCards(s)
      rt == nonJokerCards(t)
  IN  /\ h \in [rt -> rs]
      /\ \A i, j \in rt : h[i] = h[j] => i = j
      /\ \A j \in rs : \E i \in rt : h[i] = j
      /\ \A i \in rt : sequenceRanksForCards(t, aceLow)[i] = sequenceRanksForCards(s, aceLow)[h[i]]

\* Moving the cards moves their sequence ranks, where of two aces the first stays low.
LEMMA PermutedRanks ==
  ASSUME NEW n \in Nat, NEW s, CardSeq(s, n), NEW t, Permuted(s, t), NEW aceLow \in BOOLEAN
  PROVE  \E h : SameRanks(h, s, t, aceLow)
<1> DEFINE rs == nonJokerCards(s)
           rt == nonJokerCards(t)
           as == acesOf(s)
           at == acesOf(t)
           ks == sequenceRanksForCards(s, aceLow)
           kt == sequenceRanksForCards(t, aceLow)
<1>0. PICK b : Moves(b, s, t, n)
  BY PermutedMoves
<1>1. /\ b \in [1 .. n -> 1 .. n]
      /\ \A i, j \in 1 .. n : b[i] = b[j] => i = j
      /\ \A j \in 1 .. n : \E i \in 1 .. n : b[i] = j
      /\ \A i \in 1 .. n : t[i] = s[b[i]]
      /\ \A i \in 1 .. n : i \in rt <=> b[i] \in rs
      /\ \A i \in 1 .. n : i \in at <=> b[i] \in as
  BY <1>0 DEF Moves
<1>2. CardSeq(t, n)
  BY PermutedCards
<1>3. /\ rs \subseteq 1 .. n /\ as \subseteq rs /\ IsFiniteSet(as)
      /\ rt \subseteq 1 .. n /\ at \subseteq rt /\ IsFiniteSet(at)
  <2>1. as \subseteq rs /\ at \subseteq rt
    BY DEF acesOf
  <2>2. rs \subseteq 1 .. n /\ rt \subseteq 1 .. n /\ IsFiniteSet(1 .. n)
    BY <1>2, CardPositions, FS_Interval
  <2>3. IsFiniteSet(as) /\ IsFiniteSet(at)
    BY <2>1, <2>2, FS_Subset
  <2> QED BY <2>1, <2>2, <2>3
<1>4. /\ \A i \in rs \ as : ks[i] = s[i].rank
      /\ \A i \in as : aceLow => ks[i] = 1
      /\ \A i \in as : ~aceLow /\ Cardinality(as) # 2 => ks[i] = 14
      /\ \A i \in as : ~aceLow /\ Cardinality(as) = 2 => ks[i] = IF \A j \in as : i <= j THEN 1 ELSE 14
  BY SequenceRanks DEF RanksOf
<1>5. /\ \A i \in rt \ at : kt[i] = t[i].rank
      /\ \A i \in at : aceLow => kt[i] = 1
      /\ \A i \in at : ~aceLow /\ Cardinality(at) # 2 => kt[i] = 14
      /\ \A i \in at : ~aceLow /\ Cardinality(at) = 2 => kt[i] = IF \A j \in at : i <= j THEN 1 ELSE 14
  BY <1>2, SequenceRanks DEF RanksOf
<1> SUFFICES \E h : /\ h \in [rt -> rs]
                    /\ \A i, j \in rt : h[i] = h[j] => i = j
                    /\ \A j \in rs : \E i \in rt : h[i] = j
                    /\ \A i \in rt : kt[i] = ks[h[i]]
  BY DEF SameRanks
<1> HIDE DEF rs, rt, as, at, ks, kt
<1>6. \A i \in rt \ at : b[i] \in rs \ as /\ kt[i] = ks[b[i]]
  <2> SUFFICES ASSUME NEW i \in rt \ at
               PROVE  b[i] \in rs \ as /\ kt[i] = ks[b[i]]
    OBVIOUS
  <2>1. i \in 1 .. n /\ b[i] \in rs \ as
    BY <1>1, <1>3
  <2>2. kt[i] = t[i].rank
    BY <1>5
  <2>3. ks[b[i]] = s[b[i]].rank
    BY <1>4, <2>1
  <2> QED BY <1>1, <2>1, <2>2, <2>3
<1>7. Cardinality(at) = Cardinality(as)
  <2> DEFINE g == [i \in at |-> b[i]]
  <2>3. as \subseteq 1 .. n /\ at \subseteq 1 .. n
    BY <1>3
  <2>4. \A i \in at : b[i] \in as
    BY <1>1, <2>3
  <2>5. ASSUME NEW j \in as
        PROVE  \E i \in at : b[i] = j
    <3>1. PICK i \in 1 .. n : b[i] = j
      BY <1>1, <2>3
    <3> QED BY <1>1, <3>1
  <2>1. /\ g \in [at -> as]
        /\ \A i, j \in at : g[i] = g[j] => i = j
        /\ \A j \in as : \E i \in at : g[i] = j
    BY <1>1, <2>3, <2>4, <2>5
  <2> HIDE DEF g
  <2>2. g \in Surjection(at, as) /\ g \in Injection(at, as)
    BY <2>1 DEF Injection, Surjection, IsInjective
  <2> QED BY <1>3, <2>2, FS_Surjection
<1>8. CASE aceLow \/ Cardinality(as) # 2
  <2> DEFINE h == [i \in rt |-> b[i]]
  <2>1. /\ h \in [rt -> rs]
        /\ \A i, j \in rt : h[i] = h[j] => i = j
        /\ \A j \in rs : \E i \in rt : h[i] = j
    BY <1>1, <1>3
  <2>2. \A i \in at : b[i] \in as /\ kt[i] = ks[b[i]]
    BY <1>1, <1>3, <1>4, <1>5, <1>7, <1>8
  <2>3. \A i \in rt : kt[i] = ks[h[i]]
    BY <1>6, <2>2
  <2> HIDE DEF h
  <2> QED BY <2>1, <2>3
<1>9. CASE ~aceLow /\ Cardinality(as) = 2
  <2>1. PICK p \in Nat, q \in Nat : p < q /\ as = {p, q}
    <3>1. PICK p, q : p # q /\ as = {p, q}
      BY <1>3, <1>9, PairCardinality
    <3>2. p \in Nat /\ q \in Nat
      <4>1. p \in 1 .. n /\ q \in 1 .. n
        BY <1>3, <3>1
      <4> QED BY <4>1
    <3>3. p < q \/ q < p
      BY <3>1, <3>2
    <3>4. CASE p < q
      BY <3>1, <3>2, <3>4
    <3>5. CASE q < p
      <4>1. as = {q, p}
        BY <3>1
      <4> QED BY <3>2, <3>5, <4>1
    <3> QED BY <3>3, <3>4, <3>5
  <2>2. PICK u \in Nat, v \in Nat : u < v /\ at = {u, v}
    <3>1. PICK p1, q1 : p1 # q1 /\ at = {p1, q1}
      BY <1>3, <1>7, <1>9, PairCardinality
    <3>2. p1 \in Nat /\ q1 \in Nat
      <4>1. p1 \in 1 .. n /\ q1 \in 1 .. n
        BY <1>3, <3>1
      <4> QED BY <4>1
    <3>3. p1 < q1 \/ q1 < p1
      BY <3>1, <3>2
    <3>4. CASE p1 < q1
      BY <3>1, <3>2, <3>4
    <3>5. CASE q1 < p1
      <4>1. at = {q1, p1}
        BY <3>1
      <4> QED BY <3>2, <3>5, <4>1
    <3> QED BY <3>3, <3>4, <3>5
  <2>3. ks[p] = 1 /\ ks[q] = 14
    BY <1>4, <1>9, <2>1
  <2>4. kt[u] = 1 /\ kt[v] = 14
    BY <1>5, <1>7, <1>9, <2>2
  <2> DEFINE h == [i \in rt |-> IF i = u THEN p ELSE IF i = v THEN q ELSE b[i]]
  <2>5. h[u] = p /\ h[v] = q /\ \A i \in rt \ at : h[i] = b[i]
    BY <1>3, <2>2
  <2>6. h \in [rt -> rs]
    BY <1>3, <1>6, <2>1, <2>2
  <2> HIDE DEF h
  <2>7. ASSUME NEW i \in rt, NEW j \in rt, h[i] = h[j]
        PROVE  i = j
    <3>1. CASE i \in at /\ j \in at
      BY <2>1, <2>2, <2>5, <2>7, <3>1
    <3>2. CASE i \notin at /\ j \notin at
      BY <1>1, <1>3, <2>5, <2>7, <3>2
    <3>3. CASE (i \in at /\ j \notin at) \/ (i \notin at /\ j \in at)
      <4>1. (h[i] \in as /\ h[j] \notin as) \/ (h[i] \notin as /\ h[j] \in as)
        BY <1>6, <2>1, <2>2, <2>5, <3>3
      <4> QED BY <2>7, <4>1
    <3> QED BY <3>1, <3>2, <3>3
  <2>8. ASSUME NEW j \in rs
        PROVE  \E i \in rt : h[i] = j
    <3>1. CASE j \in as
      BY <1>3, <2>1, <2>2, <2>5, <3>1
    <3>2. CASE j \notin as
      <4>1. PICK i \in 1 .. n : b[i] = j
        BY <1>1, <1>3
      <4>2. i \in rt \ at
        BY <1>1, <3>2, <4>1
      <4> QED BY <2>5, <4>1, <4>2
    <3> QED BY <3>1, <3>2
  <2>9. \A i \in rt : kt[i] = ks[h[i]]
    BY <1>6, <2>2, <2>3, <2>4, <2>5
  <2> QED BY <2>6, <2>7, <2>8, <2>9
<1> QED BY <1>8, <1>9

\* What a run is worth does not depend on the order of its cards.
LEMMA PermutedFit ==
  ASSUME NEW n \in Nat, NEW s, CardSeq(s, n), NEW t, Permuted(s, t), NEW aceLow \in BOOLEAN
  PROVE  /\ tryFitSequence(t, aceLow) <=> tryFitSequence(s, aceLow)
         /\ fitWindow(t, aceLow) = fitWindow(s, aceLow)
<1> DEFINE rs == nonJokerCards(s)
           rt == nonJokerCards(t)
           ks == sequenceRanksForCards(s, aceLow)
           kt == sequenceRanksForCards(t, aceLow)
<1>0. PICK h : SameRanks(h, s, t, aceLow)
  BY PermutedRanks
<1>1. /\ h \in [rt -> rs]
      /\ \A i, j \in rt : h[i] = h[j] => i = j
      /\ \A j \in rs : \E i \in rt : h[i] = j
      /\ \A i \in rt : kt[i] = ks[h[i]]
  BY <1>0 DEF SameRanks
<1>2. Len(s) = n /\ Len(t) = n
  BY PermutedCards DEF CardSeq
<1>3. DOMAIN ks = rs /\ DOMAIN kt = rt
  BY DEF sequenceRanksForCards
<1>4. /\ tryFitSequence(t, aceLow) <=>
           /\ n <= 14
           /\ rt = {} => n >= 3
           /\ \A i, j \in rt : kt[i] = kt[j] => i = j
           /\ \A i, j \in rt : kt[i] - kt[j] < n
      /\ tryFitSequence(s, aceLow) <=>
           /\ n <= 14
           /\ rs = {} => n >= 3
           /\ \A i, j \in rs : ks[i] = ks[j] => i = j
           /\ \A i, j \in rs : ks[i] - ks[j] < n
  BY <1>2, <1>3, Zenon DEF tryFitSequence
<1> DEFINE lowt == Min({kt[i] : i \in rt})
           lows == Min({ks[i] : i \in rs})
           window == [low \in {lowt, lows} |-> (Min({14, low + n - 1}) - n + 1) .. Min({14, low + n - 1})]
<1>5. /\ fitWindow(t, aceLow) = IF rt = {} THEN 1 .. n ELSE window[lowt]
      /\ fitWindow(s, aceLow) = IF rs = {} THEN 1 .. n ELSE window[lows]
  BY <1>2, <1>3 DEF fitWindow
<1> HIDE DEF rs, rt, ks, kt, window
<1>6. rt = {} <=> rs = {}
  BY <1>1
<1>7. {kt[i] : i \in rt} = {ks[i] : i \in rs}
  BY <1>1
<1>8. (\A i, j \in rt : kt[i] = kt[j] => i = j) <=> (\A i, j \in rs : ks[i] = ks[j] => i = j)
  <2>1. ASSUME \A i, j \in rt : kt[i] = kt[j] => i = j, NEW i \in rs, NEW j \in rs, ks[i] = ks[j]
        PROVE  i = j
    <3>1. PICK u \in rt, v \in rt : h[u] = i /\ h[v] = j
      BY <1>1
    <3> QED BY <1>1, <2>1, <3>1
  <2>2. ASSUME \A i, j \in rs : ks[i] = ks[j] => i = j, NEW i \in rt, NEW j \in rt, kt[i] = kt[j]
        PROVE  i = j
    BY <1>1, <2>2
  <2> QED BY <2>1, <2>2
<1>9. (\A i, j \in rt : kt[i] - kt[j] < n) <=> (\A i, j \in rs : ks[i] - ks[j] < n)
  <2>1. ASSUME \A i, j \in rt : kt[i] - kt[j] < n, NEW i \in rs, NEW j \in rs
        PROVE  ks[i] - ks[j] < n
    <3>1. PICK u \in rt, v \in rt : h[u] = i /\ h[v] = j
      BY <1>1
    <3> QED BY <1>1, <2>1, <3>1
  <2>2. ASSUME \A i, j \in rs : ks[i] - ks[j] < n, NEW i \in rt, NEW j \in rt
        PROVE  kt[i] - kt[j] < n
    BY <1>1, <2>2
  <2> QED BY <2>1, <2>2
<1>10. tryFitSequence(t, aceLow) <=> tryFitSequence(s, aceLow)
  BY <1>4, <1>6, <1>8, <1>9
<1>11. fitWindow(t, aceLow) = fitWindow(s, aceLow)
  <2>1. lowt = lows
    BY <1>7
  <2> HIDE DEF lowt, lows
  <2> QED BY <1>5, <1>6, <2>1
<1> QED BY <1>10, <1>11

\* A run is worth the same in every order of its cards.
LEMMA PermutedPoints ==
  ASSUME NEW n \in Nat, NEW s, CardSeq(s, n), NEW t, Permuted(s, t)
  PROVE  runPoints(t) = runPoints(s)
<1>1. \A low \in BOOLEAN : /\ tryFitSequence(t, low) <=> tryFitSequence(s, low)
                           /\ fitWindow(t, low) = fitWindow(s, low)
  BY PermutedFit
<1>2. {a \in BOOLEAN : tryFitSequence(t, a)} = {a \in BOOLEAN : tryFitSequence(s, a)}
  BY <1>1
<1> DEFINE fits == {a \in BOOLEAN : tryFitSequence(s, a)}
<1>3. /\ runPoints(t) = Max({0} \cup {runCardsPoints(fitWindow(t, a), a) : a \in fits})
      /\ runPoints(s) = Max({0} \cup {runCardsPoints(fitWindow(s, a), a) : a \in fits})
  BY <1>2 DEF runPoints
<1>4. {runCardsPoints(fitWindow(t, a), a) : a \in fits} = {runCardsPoints(fitWindow(s, a), a) : a \in fits}
  BY <1>1
<1> QED BY <1>3, <1>4

-----------------------------------------------------------------------------
(***************************************************************************)
(* The table: what a composition on it always is.                          *)
(***************************************************************************)
\* The cards have ranks.
LEMMA CardRanks == \A c \in Cards : c.rank \in 0 .. King /\ c.rank \in Int
<1>1. \A c \in Cards : c \in [rank : 0 .. King, suit : 0 .. 4, copy : Nat]
  BY CardsAssumption
<1>2. \A c \in Cards : c.rank \in 0 .. King
  BY <1>1
<1> QED BY <1>2 DEF King

\* Every sequence of the game's cards is one that the lemmas on runs are about.
LEMMA TableCards ==
  ASSUME NEW cards \in Seq(Cards)
  PROVE  Len(cards) \in Nat /\ CardSeq(cards, Len(cards))
<1>1. Len(cards) \in Nat /\ DOMAIN cards = 1 .. Len(cards)
  BY LenProperties
<1>2. \A i \in 1 .. Len(cards) : cards[i] \in Cards
  BY ElementOfSeq
<1>3. \A i \in 1 .. Len(cards) :
        cards[i].rank \in 0 .. King /\ (IsJoker(cards[i]) => cards[i].suit = 0)
  BY <1>2, CardRanks, CardsAssumption
<1> QED BY <1>1, <1>3 DEF CardSeq

\* c is a valid composition of the variant, made of the cards.
MadeOf(c, v, cards) ==
  /\ c.variant = v /\ c.cards \in Seq(Cards) /\ isValid(v, c.cards)
  /\ c = [variant |-> v, cards |-> c.cards]
  /\ Permuted(cards, c.cards)

\* What the constructor builds is valid, and it builds something of all valid cards.
LEMMA NewIsMade ==
  ASSUME NEW cards \in Seq(Cards), NEW v \in Variants
  PROVE  /\ \A c \in newComposition(cards, v) : MadeOf(c, v, cards)
         /\ isValid(v, cards) => newComposition(cards, v) # {}
         /\ v = "set" /\ isValid(v, cards) =>
              newComposition(cards, v) = {[variant |-> v, cards |-> cards]}
<1>1. ASSUME NEW c \in newComposition(cards, v)
      PROVE  MadeOf(c, v, cards)
  <2>1. /\ c = [variant |-> v, cards |-> IF v = "run" THEN normalizeRunCards(cards) ELSE cards]
        /\ isValid(v, cards)
    BY DEF newComposition
  <2>2. c.cards \in Seq(Cards) /\ c.variant = v /\ Permuted(cards, c.cards)
    BY CardRanks, NewCompositionKeepsCards
  <2>3. CASE v = "set"
    BY <2>1, <2>2, <2>3 DEF MadeOf
  <2>4. CASE v = "run"
    <3>1. isValidRun(cards)
      BY <2>1, <2>4 DEF isValid
    <3>2. isValidRun(c.cards)
      BY <2>2, <3>1, TableCards, PermutedIsValid
    <3>3. isValid(v, c.cards)
      BY <2>4, <3>2 DEF isValid
    <3> QED BY <2>1, <2>2, <3>3 DEF MadeOf
  <2> QED BY <2>3, <2>4 DEF Variants
<1>2. isValid(v, cards) => newComposition(cards, v) # {}
  BY DEF newComposition
<1>3. v = "set" /\ isValid(v, cards) => newComposition(cards, v) = {[variant |-> v, cards |-> cards]}
  BY DEF newComposition
<1> QED BY <1>1, <1>2, <1>3

\* Laying a run down puts its cards in order once more.
LEMMA LaidIsMade ==
  ASSUME NEW cards \in Seq(Cards), NEW c \in laidComposition(cards)
  PROVE  \E v \in Variants : MadeOf(c, v, cards)
<1>1. PICK d \in inferComposition(cards) :
        c = [d EXCEPT !.cards = IF d.variant = "run" THEN normalizeRunCards(@) ELSE @]
  BY DEF laidComposition
<1>2. PICK v \in Variants : d \in newComposition(cards, v)
  BY <1>1 DEF inferComposition, Variants
<1>3. MadeOf(d, v, cards)
  BY <1>2, NewIsMade
<1>4. c = [variant |-> v, cards |-> IF v = "run" THEN normalizeRunCards(d.cards) ELSE d.cards]
  BY <1>1, <1>3 DEF MadeOf
<1>5. CASE v = "set"
  BY <1>3, <1>4, <1>5 DEF MadeOf
<1>6. CASE v = "run"
  <2>1. d.cards \in Seq(Cards) /\ isValidRun(d.cards) /\ Permuted(cards, d.cards)
    BY <1>3, <1>6 DEF MadeOf, isValid
  <2>2. Permuted(d.cards, c.cards)
    BY <1>4, <1>6, <2>1, CardRanks, NormalizePermutes
  <2>3. c.cards \in Seq(Cards) /\ Permuted(cards, c.cards)
    BY <2>1, <2>2, PermutedSeq, PermutedTwice
  <2>4. isValidRun(c.cards)
    BY <2>1, <2>2, TableCards, PermutedIsValid
  <2> QED BY <1>4, <1>6, <2>3, <2>4 DEF MadeOf, isValid
<1> QED BY <1>5, <1>6 DEF Variants

-----------------------------------------------------------------------------
(***************************************************************************)
(* Runs in order.                                                          *)
(***************************************************************************)
\* Every natural card is at the place that its rank has in the window that begins with s.
InPlace(cards, n, s) ==
  /\ s \in 1 .. (15 - n)
  /\ \A p \in nonJokerCards(cards) : cards[p].rank = sequenceRankToCardRank(s + p - 1)

\* The candidates of runOrderCandidates by their numbers.
RanksAt(cards, n, k) == sequenceRanksForCards(cards, k > 15 - n)
\* The first rank of candidate k.
StartAt(n, k)        == IF k > 15 - n THEN k - (15 - n) ELSE k
\* The order that candidate k puts the cards in.
OrderAt(cards, n, k) == candidateOrder(cards, RanksAt(cards, n, k), StartAt(n, k))

\* What a candidate lays at each place: the natural card with the rank of the place, or a
\* joker where there is none.
Lays(order, cards, n, ranks, start) ==
  /\ DOMAIN order = 1 .. n
  /\ \A m \in 1 .. n :
       \/ \E i \in nonJokerCards(cards) : ranks[i] = start + m - 1 /\ order[m] = cards[i]
       \/ /\ \A i \in nonJokerCards(cards) : ranks[i] # start + m - 1
          /\ \E i \in jokerCardIndices(cards) : order[m] = cards[i]

\* A fitting candidate lays every natural card where its rank belongs.
LEMMA CandidateLays ==
  ASSUME NEW n \in 3 .. 14, NEW cards, CardSeq(cards, n),
         NEW ranks \in [nonJokerCards(cards) -> 1 .. 14],
         NEW start \in 1 .. (15 - n), candidateFits(cards, ranks, start)
  PROVE  Lays(candidateOrder(cards, ranks, start), cards, n, ranks, start)
<1> DEFINE real   == nonJokerCards(cards)
           jokers == jokerCardIndices(cards)
           gaps   == {k \in DOMAIN cards : \A i \in DOMAIN ranks : ranks[i] # start + k - 1}
           fill   == CHOOSE f \in Bijection(gaps, jokers) : TRUE
           At(k)  == IF k \in DOMAIN fill THEN fill[k]
                     ELSE CHOOSE i \in DOMAIN ranks : ranks[i] = start + k - 1
           order  == candidateOrder(cards, ranks, start)
<1>1. DOMAIN cards = 1 .. n /\ IsFiniteSet(DOMAIN cards) /\ DOMAIN ranks = real
      /\ jokers \subseteq DOMAIN cards
  <2>1. n \in Nat
    OBVIOUS
  <2>2. DOMAIN cards = 1 .. n /\ IsFiniteSet(DOMAIN cards)
    BY <2>1, CardPositions
  <2> QED BY <2>2 DEF jokerCardIndices
<1>2. Cardinality(gaps) = Cardinality(jokers)
  <2>1. gaps = {k \in DOMAIN cards : start + k - 1 \notin {ranks[i] : i \in DOMAIN ranks}}
    OBVIOUS
  <2> QED BY <2>1 DEF candidateFits
<1>3. order = [k \in DOMAIN cards |-> cards[At(k)]]
  BY DEF candidateOrder
<1>4. gaps \subseteq DOMAIN cards
  OBVIOUS
<1>5. \A k \in DOMAIN cards : k \in gaps <=> \A i \in real : ranks[i] # start + k - 1
  BY <1>1
<1> HIDE DEF gaps
<1>6. fill \in Bijection(gaps, jokers)
  <2>1. ExistsBijection(gaps, jokers)
    BY <1>1, <1>2, <1>4, FS_Subset, FS_SameCardinalityBij
  <2> QED BY <2>1 DEF ExistsBijection
<1>7. fill \in [gaps -> jokers]
  BY <1>6 DEF Bijection, Injection
<1> HIDE DEF fill, order, jokers
<1> SUFFICES ASSUME NEW m \in 1 .. n
             PROVE  \/ \E i \in real : ranks[i] = start + m - 1 /\ order[m] = cards[i]
                    \/ /\ \A i \in real : ranks[i] # start + m - 1
                       /\ \E i \in jokers : order[m] = cards[i]
  BY <1>1, <1>3 DEF Lays, order, jokers
<1>8. order[m] = cards[At(m)]
  BY <1>1, <1>3
<1>9. CASE m \in gaps
  <2>1. At(m) = fill[m] /\ fill[m] \in jokers
    BY <1>7, <1>9
  <2>2. \A i \in real : ranks[i] # start + m - 1
    BY <1>1, <1>5, <1>9
  <2> QED BY <1>8, <2>1, <2>2
<1>10. CASE m \notin gaps
  <2>1. \E i \in DOMAIN ranks : ranks[i] = start + m - 1
    BY <1>1, <1>5, <1>10
  <2>2. At(m) = CHOOSE i \in DOMAIN ranks : ranks[i] = start + m - 1
    BY <1>7, <1>10
  <2>3. At(m) \in real /\ ranks[At(m)] = start + m - 1
    BY <1>1, <2>1, <2>2
  <2> QED BY <1>8, <2>3
<1> QED BY <1>9, <1>10

\* A candidate has every natural card in place.
LEMMA CandidateInPlace ==
  ASSUME NEW n \in 3 .. 14, NEW cards, CardSeq(cards, n), NEW ranks,
         \A i \in nonJokerCards(cards) : sequenceRankToCardRank(ranks[i]) = cards[i].rank,
         NEW start \in 1 .. (15 - n), NEW order, Lays(order, cards, n, ranks, start)
  PROVE  InPlace(order, n, start)
<1> SUFFICES ASSUME NEW p \in nonJokerCards(order)
             PROVE  order[p].rank = sequenceRankToCardRank(start + p - 1)
  BY DEF InPlace
<1>1. p \in 1 .. n /\ ~IsJoker(order[p])
  BY DEF Lays, nonJokerCards
<1>2. \A i \in jokerCardIndices(cards) : IsJoker(cards[i])
  BY DEF jokerCardIndices
<1>3. \E i \in nonJokerCards(cards) : ranks[i] = start + p - 1 /\ order[p] = cards[i]
  BY <1>1, <1>2 DEF Lays
<1> QED BY <1>3

\* Ranks that have every natural card in place make a candidate that lays the cards out as
\* they are, but for the jokers, which are all alike.
LEMMA PlacedIsExact ==
  ASSUME NEW n \in 3 .. 14, NEW cards, CardSeq(cards, n),
         NEW ranks \in [nonJokerCards(cards) -> 1 .. 14], NEW s \in 1 .. (15 - n),
         \A p \in nonJokerCards(cards) : ranks[p] = s + p - 1
  PROVE  /\ candidateFits(cards, ranks, s)
         /\ \A m \in 1 .. n : cardsEqual(cards[m], candidateOrder(cards, ranks, s)[m])
<1> DEFINE real   == nonJokerCards(cards)
           jokers == jokerCardIndices(cards)
           gaps   == {k \in DOMAIN cards : s + k - 1 \notin {ranks[i] : i \in DOMAIN ranks}}
           order  == candidateOrder(cards, ranks, s)
<1>1. DOMAIN cards = 1 .. n /\ real \subseteq 1 .. n /\ jokers = (1 .. n) \ real
  <2>1. n \in Nat
    OBVIOUS
  <2> QED BY <2>1, CardPositions
<1>2. DOMAIN ranks = real /\ Len(cards) = n
  BY DEF CardSeq
<1>3. gaps = jokers
  <2>1. \A k \in 1 .. n : (s + k - 1 \in {ranks[i] : i \in DOMAIN ranks}) <=> k \in real
    BY <1>1, <1>2
  <2> QED BY <1>1, <2>1
<1>4. \A r \in {ranks[i] : i \in DOMAIN ranks} : r \in s .. (s + Len(cards) - 1)
  BY <1>1, <1>2
<1>5. candidateFits(cards, ranks, s)
  BY <1>3, <1>4 DEF candidateFits
<1>6. Lays(order, cards, n, ranks, s)
  BY <1>5, CandidateLays
<1>7. ASSUME NEW m \in 1 .. n
      PROVE  cardsEqual(cards[m], order[m])
  <2> HIDE DEF order
  <2>1. CASE m \in real
    <3>1. ranks[m] = s + m - 1
      BY <2>1
    <3>2. PICK i \in real : ranks[i] = s + m - 1 /\ order[m] = cards[i]
      BY <1>6, <2>1, <3>1 DEF Lays
    <3>3. i = m
      BY <1>1, <3>2
    <3> QED BY <3>2, <3>3 DEF cardsEqual
  <2>2. CASE m \notin real
    <3>1. \A i \in real : ranks[i] # s + m - 1
      BY <1>1, <2>2
    <3>2. PICK i \in jokers : order[m] = cards[i]
      BY <1>6, <3>1 DEF Lays
    <3>3. i \in 1 .. n /\ IsJoker(cards[i]) /\ m \in 1 .. n /\ IsJoker(cards[m])
      BY <1>1, <2>2, <3>2 DEF nonJokerCards
    <3>4. /\ cards[i].suit = 0 /\ cards[m].suit = 0
          /\ cards[i].rank = 0 /\ cards[m].rank = 0
      BY <3>3 DEF CardSeq, IsJoker
    <3> QED BY <3>2, <3>4 DEF cardsEqual
  <2> QED BY <2>1, <2>2
<1> QED BY <1>5, <1>7

\* The candidates that runOrderCandidates collects.
LEMMA Candidates ==
  ASSUME NEW n \in 3 .. 14, NEW cards, CardSeq(cards, n)
  PROVE  LET cs == runOrderCandidates(cards)
         IN  /\ DOMAIN cs = {k \in 1 .. (2 * (15 - n)) :
                               candidateFits(cards, RanksAt(cards, n, k), StartAt(n, k))}
             /\ \A k \in DOMAIN cs :
                  /\ cs[k].start = StartAt(n, k) /\ cs[k].ordered = OrderAt(cards, n, k)
                  /\ cs[k].matches = {i \in 1 .. n : cardsEqual(cards[i], OrderAt(cards, n, k)[i])}
<1> DEFINE cs == runOrderCandidates(cards)
           K  == {k \in 1 .. (2 * (15 - n)) : candidateFits(cards, RanksAt(cards, n, k), StartAt(n, k))}
<1>1. Len(cards) = n /\ DOMAIN cards = 1 .. n
  BY DEF CardSeq
<1>2. cs = [k \in K |-> runOrderCandidate(cards, StartAt(n, k), OrderAt(cards, n, k))]
  BY <1>1 DEF runOrderCandidates, RanksAt, StartAt, OrderAt
<1> HIDE DEF cs, K
<1>3. DOMAIN cs = K
  BY <1>2
<1>4. ASSUME NEW k \in K
      PROVE  /\ cs[k].start = StartAt(n, k) /\ cs[k].ordered = OrderAt(cards, n, k)
             /\ cs[k].matches = {i \in 1 .. n : cardsEqual(cards[i], OrderAt(cards, n, k)[i])}
  BY <1>1, <1>2 DEF runOrderCandidate
<1> QED BY <1>3, <1>4 DEF cs, K

\* The ranks of a candidate, and what it lays.
LEMMA CandidateRanks ==
  ASSUME NEW n \in 3 .. 14, NEW cards, CardSeq(cards, n), NEW k \in 1 .. (2 * (15 - n))
  PROVE  /\ RanksOf(RanksAt(cards, n, k), cards, k > 15 - n)
         /\ RanksAt(cards, n, k) \in [nonJokerCards(cards) -> 1 .. 14]
         /\ \A i \in nonJokerCards(cards) :
              sequenceRankToCardRank(RanksAt(cards, n, k)[i]) = cards[i].rank
         /\ StartAt(n, k) \in 1 .. (15 - n)
         /\ candidateFits(cards, RanksAt(cards, n, k), StartAt(n, k)) =>
              Lays(OrderAt(cards, n, k), cards, n, RanksAt(cards, n, k), StartAt(n, k))
<1>1. n \in Nat /\ (k > 15 - n) \in BOOLEAN
  OBVIOUS
<1>2. RanksOf(RanksAt(cards, n, k), cards, k > 15 - n)
  BY <1>1, SequenceRanks DEF RanksAt
<1>3. /\ RanksAt(cards, n, k) \in [nonJokerCards(cards) -> 1 .. 14]
      /\ \A i \in nonJokerCards(cards) :
           sequenceRankToCardRank(RanksAt(cards, n, k)[i]) = cards[i].rank
  BY <1>2 DEF RanksOf
<1>4. StartAt(n, k) \in 1 .. (15 - n)
  BY DEF StartAt
<1>5. candidateFits(cards, RanksAt(cards, n, k), StartAt(n, k)) =>
        Lays(OrderAt(cards, n, k), cards, n, RanksAt(cards, n, k), StartAt(n, k))
  BY <1>3, <1>4, CandidateLays DEF OrderAt
<1> QED BY <1>2, <1>3, <1>4, <1>5

\* Candidate k has the window that begins with s, and every natural card where it is.
PlacedBy(cards, n, s, k) ==
  /\ s \in 1 .. (15 - n) /\ k \in 1 .. (2 * (15 - n)) /\ StartAt(n, k) = s
  /\ \A p \in nonJokerCards(cards) : RanksAt(cards, n, k)[p] = s + p - 1

\* A run in place is a candidate for itself: the one with its window, aces high, or the first
\* one with aces low if it begins with its only ace.
LEMMA PlacedCandidate ==
  ASSUME NEW n \in 3 .. 14, NEW cards, CardSeq(cards, n), NEW s, InPlace(cards, n, s)
  PROVE  \E k : /\ PlacedBy(cards, n, s, k)
                /\ \/ k = s
                   \/ k = (15 - n) + 1 /\ acesOf(cards) = {1}
<1> DEFINE real == nonJokerCards(cards)
           aces == acesOf(cards)
           high == RanksAt(cards, n, s)
           low  == RanksAt(cards, n, (15 - n) + 1)
<1>1. /\ s \in 1 .. (15 - n)
      /\ \A p \in real : cards[p].rank = sequenceRankToCardRank(s + p - 1)
  BY DEF InPlace
<1>2. real \subseteq 1 .. n /\ aces = {p \in real : cards[p].rank = 1}
  <2>1. n \in Nat
    OBVIOUS
  <2> QED BY <2>1, CardPositions DEF acesOf, Ace
<1>3. \A p \in real : s + p - 1 \in 1 .. 14
  BY <1>1, <1>2
<1>4. \A p \in real : p \in aces <=> (s + p - 1 = 1 \/ s + p - 1 = 14)
  BY <1>1, <1>2, <1>3 DEF sequenceRankToCardRank, Ace
<1>5. \A p \in aces : (p = 1 /\ s = 1) \/ (p = n /\ s = 15 - n)
  BY <1>1, <1>2, <1>4
<1>6. /\ \A p \in real \ aces : high[p] = cards[p].rank
      /\ \A p \in aces : Cardinality(aces) # 2 => high[p] = 14
      /\ \A p \in aces : Cardinality(aces) = 2 => high[p] = IF \A q \in aces : p <= q THEN 1 ELSE 14
  <2>1. s \in 1 .. (2 * (15 - n)) /\ ~(s > 15 - n)
    BY <1>1
  <2>2. RanksOf(high, cards, s > 15 - n)
    BY <2>1, CandidateRanks
  <2> HIDE DEF high
  <2> QED BY <2>1, <2>2 DEF RanksOf
<1>7. /\ \A p \in real \ aces : low[p] = cards[p].rank
      /\ \A p \in aces : low[p] = 1
  <2>1. (15 - n) + 1 \in 1 .. (2 * (15 - n)) /\ (15 - n) + 1 > 15 - n
    OBVIOUS
  <2>2. RanksOf(low, cards, (15 - n) + 1 > 15 - n)
    BY <2>1, CandidateRanks
  <2> HIDE DEF low
  <2> QED BY <2>1, <2>2 DEF RanksOf
<1>8. IsFiniteSet(aces)
  <2>1. IsFiniteSet(1 .. n)
    BY FS_Interval
  <2> QED BY <1>2, <2>1, FS_Subset
<1>9. /\ s \in 1 .. (2 * (15 - n)) /\ StartAt(n, s) = s
      /\ (15 - n) + 1 \in 1 .. (2 * (15 - n)) /\ StartAt(n, (15 - n) + 1) = 1
  BY <1>1 DEF StartAt
<1> HIDE DEF real, aces, high, low
<1>10. \A p \in real \ aces : cards[p].rank = s + p - 1
  BY <1>1, <1>3, <1>4 DEF sequenceRankToCardRank
<1>11. CASE 1 \in aces /\ s = 1 /\ ~(14 \in aces /\ n = 14)
  <2>1. aces = {1}
    BY <1>1, <1>5, <1>11
  <2>2. \A p \in real : low[p] = s + p - 1
    BY <1>7, <1>10, <1>11, <2>1
  <2> QED BY <1>1, <1>9, <1>11, <2>1, <2>2 DEF PlacedBy, real, aces, low
<1>12. CASE 1 \in aces /\ s = 1 /\ 14 \in aces /\ n = 14
  <2>1. aces = {1, 14}
    BY <1>5, <1>12
  <2>2. Cardinality(aces) = 2
    BY <1>8, <2>1, PairCardinality
  <2>3. high[1] = 1 /\ high[14] = 14
    BY <1>6, <2>1, <2>2
  <2>4. \A p \in real : high[p] = s + p - 1
    BY <1>6, <1>10, <1>12, <2>1, <2>3
  <2> QED BY <1>1, <1>9, <2>4 DEF PlacedBy, real, aces, high
<1>13. CASE ~(1 \in aces /\ s = 1)
  <2>1. \A p \in aces : p = n /\ s = 15 - n
    BY <1>5, <1>13
  <2>2. Cardinality(aces) # 2
    <3>1. ~ \E p, q : p # q /\ aces = {p, q}
      BY <2>1
    <3> QED BY <1>8, <3>1, PairCardinality
  <2>3. \A p \in aces : high[p] = s + p - 1
    BY <1>6, <2>1, <2>2
  <2>4. \A p \in real : high[p] = s + p - 1
    BY <1>6, <1>10, <2>3
  <2> QED BY <1>1, <1>9, <2>4 DEF PlacedBy, real, aces, high
<1> QED BY <1>11, <1>12, <1>13

\* The order of the cards is the whole of what a found candidate lays out.
LEMMA OrdersFound ==
  ASSUME NEW n \in 3 .. 14, NEW cards, CardSeq(cards, n), nonJokerCards(cards) # {},
         NEW b \in bestRunOrder(cards)
  PROVE  \E k \in 1 .. (2 * (15 - n)) :
           /\ Lays(b.ordered, cards, n, RanksAt(cards, n, k), b.start)
           /\ b.start = StartAt(n, k) /\ b.ordered = OrderAt(cards, n, k)
           /\ b.exact => \A m \in 1 .. n : cardsEqual(cards[m], b.ordered[m])
<1> DEFINE cs    == runOrderCandidates(cards)
           exact == {k \in DOMAIN cs : cs[k].matches = DOMAIN cards}
<1>1. b \in foundOrders(cs, exact)
  BY DEF bestRunOrder
<1>2. /\ DOMAIN cs = {k \in 1 .. (2 * (15 - n)) :
                        candidateFits(cards, RanksAt(cards, n, k), StartAt(n, k))}
      /\ \A k \in DOMAIN cs :
           /\ cs[k].start = StartAt(n, k) /\ cs[k].ordered = OrderAt(cards, n, k)
           /\ cs[k].matches = {i \in 1 .. n : cardsEqual(cards[i], OrderAt(cards, n, k)[i])}
  BY Candidates
<1>3. DOMAIN cards = 1 .. n
  BY DEF CardSeq
<1>4. exact \subseteq DOMAIN cs /\ \A k \in exact : cs[k].matches = DOMAIN cards
  OBVIOUS
<1> HIDE DEF cs, exact
<1>5. PICK k \in chosenCandidates(cs, exact) :
        b = [start |-> cs[k].start, ordered |-> cs[k].ordered, exact |-> k \in exact]
  BY <1>1 DEF foundOrders
<1>6. k \in DOMAIN cs
  BY <1>4, <1>5 DEF chosenCandidates, bestCandidate
<1>7. /\ k \in 1 .. (2 * (15 - n)) /\ b.start = StartAt(n, k) /\ b.ordered = OrderAt(cards, n, k)
      /\ candidateFits(cards, RanksAt(cards, n, k), StartAt(n, k))
  BY <1>2, <1>5, <1>6
<1>8. Lays(b.ordered, cards, n, RanksAt(cards, n, k), b.start)
  BY <1>7, CandidateRanks
<1>9. ASSUME b.exact
      PROVE  \A m \in 1 .. n : cardsEqual(cards[m], b.ordered[m])
  <2>1. k \in exact
    BY <1>5, <1>9
  <2>2. {i \in 1 .. n : cardsEqual(cards[i], OrderAt(cards, n, k)[i])} = 1 .. n
    BY <1>2, <1>3, <1>4, <1>6, <2>1
  <2> QED BY <1>7, <2>2
<1> QED BY <1>7, <1>8, <1>9

\* An answer of bestRunOrder is in place, and so are the cards if it is exact.
LEMMA OrdersInPlace ==
  ASSUME NEW n \in 3 .. 14, NEW cards, CardSeq(cards, n), NEW b \in bestRunOrder(cards)
  PROVE  /\ InPlace(b.ordered, n, b.start)
         /\ b.exact => InPlace(cards, n, b.start) /\ \A m \in 1 .. n : cardsEqual(cards[m], b.ordered[m])
<1>1. CASE nonJokerCards(cards) = {}
  <2>1. b.start = 1 /\ b.ordered = cards
    BY <1>1 DEF bestRunOrder
  <2>2. 1 \in 1 .. (15 - n)
    OBVIOUS
  <2>3. InPlace(cards, n, 1)
    BY <1>1, <2>2 DEF InPlace
  <2> QED BY <2>1, <2>3 DEF cardsEqual
<1>2. CASE nonJokerCards(cards) # {}
  <2>1. PICK k \in 1 .. (2 * (15 - n)) :
          /\ Lays(b.ordered, cards, n, RanksAt(cards, n, k), b.start)
          /\ b.start = StartAt(n, k) /\ b.ordered = OrderAt(cards, n, k)
          /\ b.exact => \A m \in 1 .. n : cardsEqual(cards[m], b.ordered[m])
    BY <1>2, OrdersFound
  <2>2. /\ b.start \in 1 .. (15 - n)
        /\ \A i \in nonJokerCards(cards) :
             sequenceRankToCardRank(RanksAt(cards, n, k)[i]) = cards[i].rank
    BY <2>1, CandidateRanks
  <2>3. InPlace(b.ordered, n, b.start)
    BY <2>1, <2>2, CandidateInPlace
  <2>4. ASSUME b.exact
        PROVE  InPlace(cards, n, b.start)
    <3>1. \A m \in 1 .. n : cards[m].rank = b.ordered[m].rank
      BY <2>1, <2>4 DEF cardsEqual
    <3>2. DOMAIN cards = 1 .. n /\ DOMAIN b.ordered = 1 .. n
      BY <2>1 DEF CardSeq, Lays
    <3>3. \A p \in nonJokerCards(cards) : p \in nonJokerCards(b.ordered) /\ p \in 1 .. n
      BY <3>1, <3>2 DEF nonJokerCards, IsJoker
    <3> QED BY <2>3, <3>1, <3>3 DEF InPlace
  <2> QED BY <2>1, <2>3, <2>4
<1> QED BY <1>1, <1>2

\* The candidate that a run in place is for itself agrees with it everywhere.
LEMMA PlacedMatches ==
  ASSUME NEW n \in 3 .. 14, NEW cards, CardSeq(cards, n), NEW s, NEW k, PlacedBy(cards, n, s, k)
  PROVE  /\ k \in DOMAIN runOrderCandidates(cards)
         /\ runOrderCandidates(cards)[k].matches = DOMAIN cards
<1> DEFINE cs == runOrderCandidates(cards)
<1>0. /\ s \in 1 .. (15 - n) /\ k \in 1 .. (2 * (15 - n)) /\ StartAt(n, k) = s
      /\ \A p \in nonJokerCards(cards) : RanksAt(cards, n, k)[p] = s + p - 1
  BY DEF PlacedBy
<1>1. RanksAt(cards, n, k) \in [nonJokerCards(cards) -> 1 .. 14]
  BY <1>0, CandidateRanks
<1>2. /\ candidateFits(cards, RanksAt(cards, n, k), s)
      /\ \A m \in 1 .. n : cardsEqual(cards[m], OrderAt(cards, n, k)[m])
  BY <1>0, <1>1, PlacedIsExact DEF OrderAt
<1>3. /\ DOMAIN cs = {j \in 1 .. (2 * (15 - n)) :
                        candidateFits(cards, RanksAt(cards, n, j), StartAt(n, j))}
      /\ \A j \in DOMAIN cs :
           /\ cs[j].start = StartAt(n, j) /\ cs[j].ordered = OrderAt(cards, n, j)
           /\ cs[j].matches = {i \in 1 .. n : cardsEqual(cards[i], OrderAt(cards, n, j)[i])}
  BY Candidates
<1>4. DOMAIN cards = 1 .. n
  BY DEF CardSeq
<1> HIDE DEF cs
<1>5. k \in DOMAIN cs
  BY <1>0, <1>2, <1>3
<1>6. cs[k].matches = DOMAIN cards
  BY <1>2, <1>3, <1>4, <1>5
<1> QED BY <1>5, <1>6 DEF cs

\* Of a run in place only the run itself is an answer.
LEMMA PlacedOrdersAreExact ==
  ASSUME NEW n \in 3 .. 14, NEW cards, CardSeq(cards, n), NEW s, InPlace(cards, n, s),
         NEW b \in bestRunOrder(cards)
  PROVE  b.exact
<1> DEFINE cs    == runOrderCandidates(cards)
           exact == {k \in DOMAIN cs : cs[k].matches = DOMAIN cards}
<1>1. CASE nonJokerCards(cards) = {}
  BY <1>1 DEF bestRunOrder
<1>2. CASE nonJokerCards(cards) # {}
  <2>1. PICK k : PlacedBy(cards, n, s, k)
    BY PlacedCandidate
  <2>3. k \in exact
    <3>1. /\ k \in DOMAIN runOrderCandidates(cards)
          /\ runOrderCandidates(cards)[k].matches = DOMAIN cards
      BY <2>1, PlacedMatches
    <3> QED BY <3>1
  <2>4. b \in foundOrders(cs, exact)
    BY <1>2 DEF bestRunOrder
  <2> HIDE DEF cs, exact
  <2>5. PICK j \in chosenCandidates(cs, exact) : b.exact = (j \in exact)
    BY <2>4 DEF foundOrders
  <2>6. j \in exact
    BY <2>3, <2>5 DEF chosenCandidates
  <2> QED BY <2>5, <2>6
<1> QED BY <1>1, <1>2

\* What normalizeRunCards answers is in order, unless neither direction of the cards has an
\* answer: then it is the cards as they were, which have none.
LEMMA NormalizedIsExact ==
  ASSUME NEW S, \A c \in S : c.rank \in Int, NEW cards \in Seq(S), NEW n \in 3 .. 14,
         CardSeq(cards, n), NEW b \in bestRunOrder(normalizeRunCards(cards))
  PROVE  b.exact
<1> DEFINE forward  == bestRunOrder(cards)
           backward == bestRunOrder(Reverse(cards))
<1>0. n \in Nat
  OBVIOUS
<1>1. CardSeq(Reverse(cards), n)
  BY <1>0, PermutedReverse, PermutedCards
<1>2. CardSeq(normalizeRunCards(cards), n)
  BY <1>0, NormalizePermutes, PermutedCards
<1>3. CASE forward # {}
  <2> DEFINE d == CHOOSE d \in forward : TRUE
  <2>1. d \in forward /\ normalizeRunCards(cards) = d.ordered
    BY <1>3 DEF normalizeRunCards
  <2> HIDE DEF d
  <2>2. InPlace(normalizeRunCards(cards), n, d.start)
    BY <2>1, OrdersInPlace
  <2> QED BY <1>2, <2>2, PlacedOrdersAreExact
<1>4. CASE forward = {} /\ backward # {}
  <2> DEFINE d == CHOOSE d \in backward : TRUE
  <2>1. d \in backward /\ normalizeRunCards(cards) = d.ordered
    BY <1>4 DEF normalizeRunCards
  <2> HIDE DEF d
  <2>2. InPlace(normalizeRunCards(cards), n, d.start)
    BY <1>1, <2>1, OrdersInPlace
  <2> QED BY <1>2, <2>2, PlacedOrdersAreExact
<1>5. CASE forward = {} /\ backward = {}
  <2>1. normalizeRunCards(cards) = cards
    BY <1>5 DEF normalizeRunCards
  <2> QED BY <1>5, <2>1
<1> QED BY <1>3, <1>4, <1>5

\* The places at which candidate k agrees with the cards.
Agreement(cards, n, k) == {m \in 1 .. n : cardsEqual(cards[m], OrderAt(cards, n, k)[m])}

\* Before the window of a run in place with at most two jokers at most two other windows fit;
\* if two do, they agree with the run at different numbers of places.
LEMMA EarlyWindows ==
  ASSUME NEW n \in 3 .. 14, NEW cards, CardSeq(cards, n),
         NEW s \in 1 .. (15 - n), InPlace(cards, n, s),
         Cardinality(jokerCardIndices(cards)) <= 2,
         n >= 4 \/ Cardinality(jokerCardIndices(cards)) <= 1, PlacedBy(cards, n, s, s),
         NEW b \in 1 .. (15 - n), candidateFits(cards, RanksAt(cards, n, b), b),
         NEW j \in 1 .. (15 - n), candidateFits(cards, RanksAt(cards, n, j), j),
         b < j, j < s
  PROVE  Cardinality(Agreement(cards, n, b)) # Cardinality(Agreement(cards, n, j))
<1> DEFINE real   == nonJokerCards(cards)
           jokers == jokerCardIndices(cards)
           ranks  == sequenceRanksForCards(cards, FALSE)
           B == OrderAt(cards, n, b)
           J == OrderAt(cards, n, j)
           atB == {m \in 1 .. n : cardsEqual(cards[m], B[m])}
           atJ == {m \in 1 .. n : cardsEqual(cards[m], J[m])}
<1>12. s \in 1 .. (15 - n) /\ \A p \in real : RanksAt(cards, n, s)[p] = s + p - 1
  BY DEF PlacedBy
<1>13. ranks = RanksAt(cards, n, s) /\ ranks = RanksAt(cards, n, b) /\ ranks = RanksAt(cards, n, j)
  <2>1. ~(s > 15 - n) /\ ~(b > 15 - n) /\ ~(j > 15 - n)
    BY <1>12
  <2>2. (s > 15 - n) = FALSE /\ (b > 15 - n) = FALSE /\ (j > 15 - n) = FALSE
    BY <2>1
  <2> QED BY <2>2 DEF RanksAt
<1>14. StartAt(n, b) = b /\ StartAt(n, j) = j
  BY DEF StartAt
<1>0. n \in Nat /\ n \in 3 .. 14
  OBVIOUS
<1>1. DOMAIN cards = 1 .. n /\ IsFiniteSet(1 .. n) /\ real \subseteq 1 .. n /\ jokers = (1 .. n) \ real
  BY <1>0, CardPositions, FS_Interval
<1>2. Lays(B, cards, n, ranks, b) /\ Lays(J, cards, n, ranks, j)
  <2>1. b \in 1 .. (2 * (15 - n)) /\ j \in 1 .. (2 * (15 - n))
    OBVIOUS
  <2> QED BY <1>13, <1>14, <2>1, CandidateRanks
<1>15. \A p \in real : ranks[p] = s + p - 1
  BY <1>12, <1>13
<1>3. \A p \in real : s + p - 1 \in b .. (b + n - 1)
  <2>1. Len(cards) = n /\ DOMAIN ranks = real
    BY DEF CardSeq, sequenceRanksForCards
  <2>2. candidateFits(cards, ranks, b)
    BY <1>13
  <2> HIDE DEF ranks
  <2> QED BY <1>15, <2>1, <2>2 DEF candidateFits
<1>4. \A p \in 1 .. n : cards[p].rank \in 0 .. 13 /\ (p \in jokers <=> cards[p].rank = 0)
                          /\ (p \in jokers => cards[p].suit = 0)
  BY <1>1 DEF CardSeq, King, jokerCardIndices, IsJoker
<1>5. \A p \in real : cards[p].rank = sequenceRankToCardRank(s + p - 1)
  BY DEF InPlace
<1> HIDE DEF real, jokers, ranks, B, J
<1>6. {n - 1, n} = jokers /\ b = s - 2 /\ j = s - 1 /\ n >= 4
  <2>1. {n - 1, n} \subseteq jokers
    BY <1>1, <1>3
  <2>2. Cardinality({n - 1, n}) = 2 /\ IsFiniteSet({n - 1, n}) /\ IsFiniteSet(jokers)
    <3>1. {n - 1, n} \subseteq 1 .. n /\ jokers \subseteq 1 .. n /\ n - 1 # n
      BY <1>1
    <3>2. IsFiniteSet({n - 1, n}) /\ IsFiniteSet(jokers)
      BY <1>1, <3>1, FS_Subset
    <3> QED BY <3>1, <3>2, PairCardinality
  <2>3. Cardinality(jokers) = 2
    <3>1. Cardinality({n - 1, n}) <= Cardinality(jokers) /\ Cardinality(jokers) \in Nat
      BY <2>1, <2>2, FS_Subset, FS_CardinalityType
    <3>2. Cardinality(jokers) <= 2
      BY DEF jokers
    <3> QED BY <2>2, <3>1, <3>2
  <2>4. {n - 1, n} = jokers
    BY <2>1, <2>2, <2>3, FS_Subset
  <2>5. n - 2 \in real
    BY <1>1, <2>4
  <2>6. n >= 4
    BY <2>3 DEF jokers
  <2> QED BY <1>3, <2>4, <2>5, <2>6
<1>7. atB = {}
  <2> SUFFICES ASSUME NEW m \in 1 .. n
               PROVE  ~cardsEqual(cards[m], B[m])
    OBVIOUS
  <2>1. \/ \E i \in real : s + i - 1 = b + m - 1 /\ B[m] = cards[i]
        \/ /\ \A i \in real : s + i - 1 # b + m - 1
           /\ \E i \in jokers : B[m] = cards[i]
    BY <1>2, <1>15 DEF Lays, real, jokers
  <2>2. CASE m \in {n - 1, n}
    <3>1. m - 2 \in real /\ s + (m - 2) - 1 = b + m - 1
      BY <1>1, <1>6, <2>2
    <3>2. PICK i \in real : B[m] = cards[i]
      BY <2>1, <3>1
    <3>3. cards[m].rank = 0 /\ cards[i].rank # 0
      BY <1>1, <1>4, <1>6, <2>2, <3>2
    <3> QED BY <3>2, <3>3 DEF cardsEqual
  <2>3. CASE m \notin {n - 1, n}
    <3>1. m \in real /\ cards[m].rank # 0
      BY <1>1, <1>4, <1>6, <2>3
    <3>2. ASSUME NEW i \in jokers, B[m] = cards[i]
          PROVE  cards[m].rank # B[m].rank
      BY <1>1, <1>4, <3>1, <3>2
    <3>3. ASSUME NEW i \in real, s + i - 1 = b + m - 1, B[m] = cards[i]
          PROVE  cards[m].rank # B[m].rank
      <4>1. s + i - 1 = s + m - 3 /\ s + m - 1 \in 1 .. 14 /\ s + m - 3 \in 1 .. 14
        BY <1>1, <1>6, <3>3
      <4>2. sequenceRankToCardRank(s + m - 1) # sequenceRankToCardRank(s + m - 3)
        BY <4>1 DEF sequenceRankToCardRank, Ace
      <4> QED BY <1>5, <3>1, <3>3, <4>1, <4>2
    <3> QED BY <2>1, <3>2, <3>3 DEF cardsEqual
  <2> QED BY <2>2, <2>3
<1>8. n \in atJ
  <2>1. \A i \in real : s + i - 1 # j + n - 1
    BY <1>1, <1>6
  <2>4. n \in 1 .. n /\ \A i \in real : ranks[i] # j + n - 1
    BY <1>15, <2>1
  <2>2. PICK i \in jokers : J[n] = cards[i]
    BY <1>2, <2>4 DEF Lays, real, jokers
  <2>3. n \in 1 .. n /\ i \in 1 .. n /\ n \in jokers
    BY <1>1, <1>6, <2>2
  <2> QED BY <1>4, <2>2, <2>3 DEF cardsEqual
<1>9. IsFiniteSet(atJ)
  BY <1>1, FS_Subset
<1>10. Cardinality(atB) = 0 /\ Cardinality(atJ) # 0
  BY <1>7, <1>8, <1>9, FS_EmptySet
<1> QED BY <1>10 DEF Agreement, B, J

\* So a run in place with at most two jokers has an answer: itself.
LEMMA FewJokersHaveOrder ==
  ASSUME NEW n \in 3 .. 14, NEW cards, CardSeq(cards, n), NEW s, InPlace(cards, n, s),
         Cardinality(jokerCardIndices(cards)) <= 2,
         n >= 4 \/ s <= 2 \/ Cardinality(jokerCardIndices(cards)) <= 1
  PROVE  bestRunOrder(cards) # {}
<1> DEFINE cs    == runOrderCandidates(cards)
           exact == {k \in DOMAIN cs : cs[k].matches = DOMAIN cards}
           tied  == {k \in DOMAIN cs \ exact :
                       \E b \in bestCandidate(cs, {i \in DOMAIN cs : i < k}) : tiesWith(cs, k, b)}
<1>1. CASE nonJokerCards(cards) = {}
  BY <1>1 DEF bestRunOrder
<1>2. CASE nonJokerCards(cards) # {}
  <2>1. PICK K : PlacedBy(cards, n, s, K) /\ (K = s \/ (K = (15 - n) + 1 /\ acesOf(cards) = {1}))
    BY PlacedCandidate
  <2>2. /\ s \in 1 .. (15 - n) /\ K \in 1 .. (2 * (15 - n)) /\ StartAt(n, K) = s
        /\ \A p \in nonJokerCards(cards) : RanksAt(cards, n, K)[p] = s + p - 1
    BY <2>1 DEF PlacedBy
  <2>3. K \in exact
    BY <2>1, PlacedMatches
  <2>4. /\ DOMAIN cs = {k \in 1 .. (2 * (15 - n)) :
                          candidateFits(cards, RanksAt(cards, n, k), StartAt(n, k))}
        /\ \A k \in DOMAIN cs :
             /\ cs[k].start = StartAt(n, k) /\ cs[k].ordered = OrderAt(cards, n, k)
             /\ cs[k].matches = {i \in 1 .. n : cardsEqual(cards[i], OrderAt(cards, n, k)[i])}
    BY Candidates
  <2>5. exact \subseteq DOMAIN cs
    OBVIOUS
  <2> HIDE DEF cs
  <2>6. ASSUME NEW j \in tied, j < K
        PROVE  FALSE
    <3>1. PICK b \in bestCandidate(cs, {i \in DOMAIN cs : i < j}) : tiesWith(cs, j, b)
      OBVIOUS
    <3>2. j \in DOMAIN cs /\ b \in DOMAIN cs /\ b < j
      BY <3>1 DEF bestCandidate
    <3>3. Cardinality(cs[j].matches) = Cardinality(cs[b].matches)
      BY <3>1 DEF tiesWith
    <3>4. /\ j \in 1 .. (2 * (15 - n)) /\ candidateFits(cards, RanksAt(cards, n, j), StartAt(n, j))
          /\ b \in 1 .. (2 * (15 - n)) /\ candidateFits(cards, RanksAt(cards, n, b), StartAt(n, b))
      BY <2>4, <3>2
    <3>5. /\ j \in 1 .. (15 - n) /\ b \in 1 .. (15 - n)
          /\ StartAt(n, j) = j /\ StartAt(n, b) = b
      BY <2>1, <2>2, <2>6, <3>2, <3>4 DEF StartAt
    <3>6. CASE K = s
      <4>1. /\ PlacedBy(cards, n, s, s) /\ b < j /\ j < s
            /\ n >= 4 \/ Cardinality(jokerCardIndices(cards)) <= 1
        BY <2>1, <2>2, <2>6, <3>2, <3>5, <3>6
      <4>2. candidateFits(cards, RanksAt(cards, n, b), b) /\ candidateFits(cards, RanksAt(cards, n, j), j)
        BY <3>4, <3>5
      <4>3. Cardinality(Agreement(cards, n, b)) # Cardinality(Agreement(cards, n, j))
        BY <2>2, <3>5, <4>1, <4>2, EarlyWindows
      <4>4. cs[j].matches = Agreement(cards, n, j) /\ cs[b].matches = Agreement(cards, n, b)
        BY <2>4, <3>2 DEF Agreement
      <4> QED BY <3>3, <4>3, <4>4
    <3>7. CASE acesOf(cards) = {1}
      <4>1. Cardinality(acesOf(cards)) = 1
        BY <3>7, FS_Singleton
      <4>2. ASSUME NEW k \in 1 .. (15 - n), candidateFits(cards, RanksAt(cards, n, k), k)
            PROVE  k = 15 - n
        <5>1. RanksOf(RanksAt(cards, n, k), cards, k > 15 - n) /\ ~(k > 15 - n)
          <6>1. k \in 1 .. (2 * (15 - n)) /\ ~(k > 15 - n)
            BY <4>2
          <6> QED BY <6>1, CandidateRanks
        <5>2. RanksAt(cards, n, k)[1] = 14 /\ 1 \in DOMAIN RanksAt(cards, n, k)
          BY <3>7, <4>1, <5>1 DEF RanksOf, acesOf
        <5>3. 14 \in k .. (k + n - 1)
          <6>1. Len(cards) = n
            BY DEF CardSeq
          <6> QED BY <4>2, <5>2, <6>1 DEF candidateFits
        <5> QED BY <5>3
      <4>3. b = 15 - n /\ j = 15 - n
        BY <3>4, <3>5, <4>2
      <4> QED BY <3>2, <3>5, <4>3
    <3> QED BY <2>1, <3>6, <3>7
  <2> HIDE DEF exact, tied
  <2>7. PICK k \in exact : \A i \in exact : k <= i
    <3>1. exact \in SUBSET Nat /\ exact # {}
      BY <2>3, <2>4, <2>5
    <3> QED BY <3>1, NatMinimum
  <2>8. k \in chosenCandidates(cs, exact)
    <3>1. k <= K /\ K \in Nat /\ k \in Nat
      BY <2>2, <2>3, <2>4, <2>5, <2>7
    <3>2. \A i \in tied : i \in Nat
      BY <2>4 DEF tied
    <3>3. \A i \in tied : k <= i
      BY <2>6, <3>1, <3>2
    <3>4. chosenCandidates(cs, exact) = {i \in exact : \A h \in exact \cup tied : i <= h}
      BY <2>3 DEF chosenCandidates, tied
    <3> QED BY <2>7, <3>3, <3>4
  <2>9. foundOrders(cs, exact) # {}
    BY <2>8 DEF foundOrders
  <2> QED BY <1>2, <2>9 DEF bestRunOrder, cs, exact
<1> QED BY <1>1, <1>2

\* Cards of one suit in place are a run.
LEMMA PlacedIsValid ==
  ASSUME NEW n \in 3 .. 14, NEW cards, CardSeq(cards, n), NEW s, InPlace(cards, n, s),
         \A p, q \in nonJokerCards(cards) : cards[p].suit = cards[q].suit
  PROVE  isValidRun(cards)
<1> DEFINE real == nonJokerCards(cards)
           f    == [p \in real |-> s + p - 1]
<1>0. n \in Nat
  OBVIOUS
<1>1. /\ s \in 1 .. (15 - n) /\ real \subseteq 1 .. n
      /\ \A p \in real : cards[p].rank = sequenceRankToCardRank(s + p - 1)
  BY <1>0, CardPositions DEF InPlace
<1>2. f \in [real -> s .. (s + n - 1)]
  BY <1>1
<1>3. \A p \in real : sequenceRankToCardRank(f[p]) = cards[p].rank
  BY <1>1
<1>4. \A p, q \in real : f[p] = f[q] => p = q
  BY <1>1
<1> HIDE DEF f
<1>5. Reading(cards, n, f, s)
  BY <1>1, <1>2, <1>3, <1>4 DEF Reading
<1>6. LegalRun(cards)
  BY <1>0, <1>5, LegalIsRead
<1> QED BY <1>0, <1>6, ValidIsLegal

\* A composition on the table: valid, and if it is a run, in order or without an order.
OnTable(c) ==
  /\ c.variant \in Variants /\ c.cards \in Seq(Cards) /\ isValid(c.variant, c.cards)
  /\ c = [variant |-> c.variant, cards |-> c.cards]
  /\ c.variant = "run" => \A b \in bestRunOrder(c.cards) : b.exact

\* The card that the joker of a run stands for is in place where the joker was.
LEMMA ReclaimedInPlace ==
  ASSUME NEW n \in 3 .. 14, NEW c, OnTable(c), c.variant = "run", CardSeq(c.cards, n),
         NEW i \in 1 .. n, NEW r \in Cards, canReclaimJoker(c, i, r)
  PROVE  LET replaced == [c.cards EXCEPT ![i] = r]
         IN  /\ isValidRun(replaced) /\ CardSeq(replaced, n)
             /\ jokerCardIndices(replaced) = jokerCardIndices(c.cards) \ {i}
             /\ \E s : InPlace(replaced, n, s) /\ (nonJokerCards(c.cards) = {} => s = 1)
<1> DEFINE cards    == c.cards
           replaced == [cards EXCEPT ![i] = r]
           real     == nonJokerCards(cards)
           suit     == IF real = {} THEN 1 ELSE cards[Min(real)].suit
<1>0. n \in Nat
  OBVIOUS
<1>1. /\ i \in jokerCardIndices(cards) /\ ~IsJoker(r)
      /\ jokerRepresentations(c, i) = {Face(r.rank, r.suit)}
  BY DEF canReclaimJoker
<1>2. jokerRepresentations(c, i) =
        {Face(sequenceRankToCardRank(b.start + i - 1), suit) : b \in bestRunOrder(cards)}
  BY DEF jokerRepresentations
<1>3. PICK b \in bestRunOrder(cards) :
        Face(sequenceRankToCardRank(b.start + i - 1), suit) = Face(r.rank, r.suit)
  BY <1>1, <1>2
<1>4. r.rank = sequenceRankToCardRank(b.start + i - 1) /\ r.suit = suit
  BY <1>3 DEF Face
<1>5. InPlace(cards, n, b.start)
  BY <1>3, OrdersInPlace DEF OnTable
<1>6. real = {} => b.start = 1
  BY <1>3 DEF bestRunOrder
<1>7. /\ cards \in Seq(Cards) /\ Len(cards) = n /\ DOMAIN cards = 1 .. n
      /\ real \subseteq 1 .. n /\ jokerCardIndices(cards) = (1 .. n) \ real
      /\ \A p, q \in real : cards[p].suit = cards[q].suit
  <2>1. isValidRun(cards)
    BY DEF OnTable, isValid
  <2>2. \A p, q \in real : cards[p].suit = cards[q].suit
    BY <2>1 DEF isValidRun
  <2> QED BY <1>0, <2>2, CardPositions DEF OnTable, CardSeq
<1>8. /\ DOMAIN replaced = 1 .. n /\ replaced[i] = r
      /\ \A p \in (1 .. n) \ {i} : replaced[p] = cards[p]
  BY <1>7
<1>9. CardSeq(replaced, n)
  <2>1. replaced \in Seq(Cards) /\ Len(replaced) = n
    BY <1>7, ExceptSeq
  <2> QED BY <2>1, TableCards
<1> HIDE DEF replaced
<1>10. /\ nonJokerCards(replaced) = real \cup {i}
       /\ jokerCardIndices(replaced) = jokerCardIndices(cards) \ {i}
  BY <1>1, <1>7, <1>8 DEF nonJokerCards, jokerCardIndices
<1>11. \A p \in real : p # i
  BY <1>1, <1>7
<1>12. InPlace(replaced, n, b.start)
  BY <1>4, <1>5, <1>7, <1>8, <1>10, <1>11 DEF InPlace
<1>13. \A p \in real : cards[p].suit = r.suit
  <2>1. real # {} => Min(real) \in real
    BY <1>7, MinIsMember
  <2> QED BY <1>4, <1>7, <2>1
<1>14. \A p, q \in nonJokerCards(replaced) : replaced[p].suit = replaced[q].suit
  BY <1>7, <1>8, <1>10, <1>11, <1>13
<1>15. isValidRun(replaced)
  BY <1>9, <1>12, <1>14, PlacedIsValid
<1> QED BY <1>6, <1>9, <1>10, <1>12, <1>15 DEF replaced

\* In a set the card takes the suit that no other card has.
LEMMA ReclaimedSet ==
  ASSUME NEW n \in Nat, NEW c, OnTable(c), c.variant = "set", CardSeq(c.cards, n),
         NEW i \in 1 .. n, NEW r \in Cards, canReclaimJoker(c, i, r)
  PROVE  isValidSet([c.cards EXCEPT ![i] = r])
<1> DEFINE cards    == c.cards
           replaced == [cards EXCEPT ![i] = r]
           real     == nonJokerCards(cards)
           used     == {cards[k].suit : k \in real}
<1>1. /\ i \in jokerCardIndices(cards) /\ ~IsJoker(r)
      /\ jokerRepresentations(c, i) = {Face(r.rank, r.suit)}
  BY DEF canReclaimJoker
<1>2. jokerRepresentations(c, i) =
        IF real = {} THEN {Face(rank, s) : rank \in Ace..King, s \in Suits}
        ELSE {Face(cards[Min(real)].rank, s) : s \in Suits \ used}
  BY DEF jokerRepresentations
<1>3. real # {}
  <2> SUFFICES ASSUME real = {}
               PROVE  FALSE
    OBVIOUS
  <2>1. Face(1, 1) \in jokerRepresentations(c, i) /\ Face(2, 1) \in jokerRepresentations(c, i)
    BY <1>2 DEF Ace, King, Suits
  <2>2. Face(1, 1) = Face(2, 1)
    BY <1>1, <2>1
  <2> QED BY <2>2 DEF Face
<1>4. r.rank = cards[Min(real)].rank /\ r.suit \notin used
  <2>1. PICK s \in Suits \ used : Face(cards[Min(real)].rank, s) = Face(r.rank, r.suit)
    BY <1>1, <1>2, <1>3
  <2> QED BY <2>1 DEF Face
<1>5. /\ DOMAIN cards = 1 .. n /\ real \subseteq 1 .. n /\ jokerCardIndices(cards) = (1 .. n) \ real
      /\ Len(cards) = n
  BY CardPositions DEF CardSeq
<1>6. /\ Len(cards) \in 3..4
      /\ \A p, q \in real : p # q => cards[p].rank = cards[q].rank /\ cards[p].suit # cards[q].suit
  BY DEF OnTable, isValid, isValidSet
<1>7. \A p \in real : cards[p].rank = r.rank /\ cards[p].suit # r.suit
  <2>1. Min(real) \in real
    BY <1>3, <1>5, MinIsMember
  <2> QED BY <1>4, <1>6, <2>1
<1>8. /\ DOMAIN replaced = 1 .. n /\ replaced[i] = r
      /\ \A p \in (1 .. n) \ {i} : replaced[p] = cards[p]
  BY <1>5
<1>9. Len(replaced) = Len(cards)
  BY <1>5 DEF OnTable
<1> HIDE DEF replaced
<1>10. nonJokerCards(replaced) = real \cup {i} /\ i \notin real
  BY <1>1, <1>5, <1>8 DEF nonJokerCards, jokerCardIndices
<1>11. \A p, q \in nonJokerCards(replaced) :
         p # q => replaced[p].rank = replaced[q].rank /\ replaced[p].suit # replaced[q].suit
  BY <1>5, <1>6, <1>7, <1>8, <1>10
<1> QED BY <1>6, <1>9, <1>11 DEF isValidSet, replaced

\* What the table holds and what a client has last submitted.
TableInv ==
  /\ offer \in Seq(Cards)
  /\ comp = NoComposition \/ OnTable(comp)

\* What is made of valid cards is on the table as it should be.
LEMMA MadeIsOnTable ==
  ASSUME NEW cards \in Seq(Cards), NEW v \in Variants, NEW c \in newComposition(cards, v)
  PROVE  OnTable(c) /\ Permuted(cards, c.cards)
<1>1. MadeOf(c, v, cards)
  BY NewIsMade
<1>2. CASE v = "set"
  BY <1>1, <1>2 DEF MadeOf, OnTable
<1>3. CASE v = "run"
  <2>1. /\ c.cards = normalizeRunCards(cards) /\ isValidRun(cards)
    BY <1>3 DEF newComposition, isValid
  <2>2. Len(cards) \in Nat /\ CardSeq(cards, Len(cards))
    BY TableCards
  <2>3. Len(cards) \in 3 .. 14
    BY <2>1 DEF isValidRun
  <2>4. \A b \in bestRunOrder(c.cards) : b.exact
    BY <2>1, <2>2, <2>3, CardRanks, NormalizedIsExact
  <2> QED BY <1>1, <1>3, <2>4 DEF MadeOf, OnTable
<1> QED BY <1>2, <1>3 DEF Variants

\* So is what is laid down.
LEMMA LaidIsOnTable ==
  ASSUME NEW cards \in Seq(Cards), NEW c \in laidComposition(cards)
  PROVE  OnTable(c) /\ Permuted(cards, c.cards)
<1>1. PICK v \in Variants : MadeOf(c, v, cards)
  BY LaidIsMade
<1>2. CASE v = "set"
  BY <1>1, <1>2 DEF MadeOf, OnTable
<1>3. CASE v = "run"
  <2>1. PICK d \in inferComposition(cards) :
          c = [d EXCEPT !.cards = IF d.variant = "run" THEN normalizeRunCards(@) ELSE @]
    BY DEF laidComposition
  <2>2. PICK w \in Variants : d \in newComposition(cards, w)
    BY <2>1 DEF inferComposition, Variants
  <2>3. MadeOf(d, w, cards)
    BY <2>2, NewIsMade
  <2>4. w = "run" /\ c.cards = normalizeRunCards(d.cards) /\ d.cards \in Seq(Cards) /\ isValidRun(d.cards)
    BY <1>1, <1>3, <2>1, <2>3 DEF MadeOf, isValid
  <2>5. Len(d.cards) \in Nat /\ CardSeq(d.cards, Len(d.cards))
    BY <2>4, TableCards
  <2>6. Len(d.cards) \in 3 .. 14
    BY <2>4 DEF isValidRun
  <2>7. \A b \in bestRunOrder(c.cards) : b.exact
    BY <2>4, <2>5, <2>6, CardRanks, NormalizedIsExact
  <2> QED BY <1>1, <1>3, <2>7 DEF MadeOf, OnTable
<1> QED BY <1>2, <1>3 DEF Variants

\* What is submitted is a sequence of cards.
LEMMA SubmittedCards ==
  ASSUME NEW T \in SUBSET Cards, NEW m \in Nat, NEW t \in Submissions(T, m)
  PROVE  t \in Seq(Cards)
<1>1. PICK k \in 1 .. m : t \in [1 .. k -> T]
  BY DEF Submissions
<1>2. t \in [1 .. k -> Cards] /\ k \in Nat
  BY <1>1
<1> QED BY <1>2, SeqDef

\* A request to lay down cards has arrived, and nothing is on the table.
LEMMA TableInvInit == TableInit => TableInv
BY BoundsAssumption, SubmittedCards DEF TableInit, TableInv

\* Every play and every rebuild leaves the table as it should be.
LEMMA TableInvNext == TableInv /\ [TableNext]_tableVars => TableInv'
<1> SUFFICES ASSUME TableInv, [TableNext]_tableVars
             PROVE  TableInv'
  OBVIOUS
<1>0. /\ offer \in Seq(Cards) /\ comp.cards \in Seq(Cards)
      /\ comp # NoComposition => OnTable(comp) /\ comp.variant \in Variants
  <2>1. NoComposition.cards \in Seq(Cards)
    BY EmptySeq DEF NoComposition
  <2> QED BY <2>1 DEF TableInv, OnTable
<1>1. CASE LayDown
  BY <1>0, <1>1, LaidIsOnTable DEF LayDown, TableInv
<1>2. ASSUME NEW cards \in Submissions(Unlaid, MaxInserted), NEW at \in 0 .. Len(comp.cards),
             Insert(at, cards)
      PROVE  TableInv'
  <2>1. cards \in Seq(Cards)
    BY BoundsAssumption, SubmittedCards DEF Unlaid
  <2> DEFINE new == SubSeq(comp.cards, 1, at) \o cards
                      \o SubSeq(comp.cards, at + 1, Len(comp.cards))
  <2>2. new \in Seq(Cards)
    <3>1. Len(comp.cards) \in Nat /\ at \in Nat /\ at <= Len(comp.cards)
      BY <1>0, <1>2, LenProperties
    <3>2. SubSeq(comp.cards, 1, at) \in Seq(Cards) /\ SubSeq(comp.cards, at + 1, Len(comp.cards)) \in Seq(Cards)
      BY <1>0, <3>1, SubSeqProperties
    <3> QED BY <2>1, <3>2, ConcatProperties
  <2>3. offer' = new /\ comp' \in newComposition(new, comp.variant)
    BY <1>2 DEF Insert, WithInsertedCards
  <2> HIDE DEF new
  <2>4. comp.variant \in Variants
    BY <1>0, <1>2 DEF Insert
  <2> QED BY <2>2, <2>3, <2>4, MadeIsOnTable DEF TableInv
<1>3. ASSUME NEW r \in Unlaid, NEW i \in DOMAIN comp.cards, Reclaim(i, r)
      PROVE  TableInv'
  <2> DEFINE new == [comp.cards EXCEPT ![i] = r]
  <2>1. new \in Seq(Cards)
    <3>1. i \in 1 .. Len(comp.cards) /\ r \in Cards
      BY <1>0, <1>3, LenProperties DEF Unlaid
    <3> QED BY <1>0, <3>1, ExceptSeq
  <2>2. offer' = new /\ comp' \in newComposition(new, comp.variant)
    BY <1>3 DEF Reclaim, ReclaimJoker
  <2> HIDE DEF new
  <2>3. comp.variant \in Variants
    BY <1>0, <1>3 DEF Reclaim
  <2> QED BY <2>1, <2>2, <2>3, MadeIsOnTable DEF TableInv
<1>4. CASE Restore
  <2>1. comp' \in newComposition(comp.cards, comp.variant) /\ comp.variant \in Variants /\ offer' = comp.cards
    BY <1>0, <1>4 DEF Restore
  <2> QED BY <1>0, <2>1, MadeIsOnTable DEF TableInv
<1>5. CASE UNCHANGED tableVars
  BY <1>5 DEF TableInv, tableVars
<1> QED BY <1>1, <1>2, <1>3, <1>4, <1>5 DEF TableNext

\* Hence the table always is as it should be.
LEMMA TableInvCorrect == TableSpec => []TableInv
BY TableInvInit, TableInvNext, PTL DEF TableSpec

\* isValidRun accepts exactly the legal runs, whatever is submitted and in whatever order.
THEOREM RunValidityIsExactAlways == TableSpec => []RunValidityIsExact
<1>1. TableInv => RunValidityIsExact
  BY TableCards, ValidIsLegal DEF TableInv, RunValidityIsExact
<1> QED BY <1>1, TableInvCorrect, PTL

\* Whatever plays have made of a composition, it can be rebuilt from its cards, with the same
\* cards and the same value.
THEOREM RestoreNeverRefusesAlways == TableSpec => []RestoreNeverRefuses
<1>1. TableInv => RestoreNeverRefuses
  <2> SUFFICES ASSUME TableInv, comp # NoComposition
               PROVE  \E c \in newComposition(comp.cards, comp.variant) :
                        ToSet(c.cards) = ToSet(comp.cards) /\ Points(c) = Points(comp)
    BY DEF RestoreNeverRefuses
  <2>1. /\ OnTable(comp) /\ comp.variant \in Variants /\ comp.cards \in Seq(Cards)
        /\ isValid(comp.variant, comp.cards)
    BY DEF TableInv, OnTable
  <2>2. PICK c \in newComposition(comp.cards, comp.variant) : TRUE
    BY <2>1, NewIsMade
  <2>3. MadeOf(c, comp.variant, comp.cards)
    BY <2>1, NewIsMade
  <2>4. ToSet(c.cards) = ToSet(comp.cards)
    BY <2>1, <2>3, PermutedSeq DEF MadeOf
  <2>5. Points(c) = Points(comp)
    <3>1. CASE comp.variant = "set"
      <4>1. c.cards = comp.cards
        BY <2>1, <2>2, <3>1, NewIsMade
      <4> QED BY <2>3, <3>1, <4>1 DEF Points, MadeOf
    <3>2. CASE comp.variant = "run"
      <4>1. runPoints(c.cards) = runPoints(comp.cards)
        BY <2>1, <2>3, TableCards, PermutedPoints DEF MadeOf
      <4> QED BY <2>3, <3>2, <4>1 DEF Points, MadeOf
    <3> QED BY <2>1, <3>1, <3>2 DEF Variants
  <2> QED BY <2>4, <2>5
<1> QED BY <1>1, TableInvCorrect, PTL

\* In a run with at most three jokers no tie hides the order once a joker is replaced.
LEMMA ReclaimedRun ==
  ASSUME NEW n \in 3 .. 14, NEW c, OnTable(c), c.variant = "run", CardSeq(c.cards, n),
         NEW i \in 1 .. n, NEW r \in Cards, canReclaimJoker(c, i, r),
         Cardinality(jokerCardIndices(c.cards)) < 4
  PROVE  \A m \in 1 .. n :
           cardsEqual(normalizeRunCards([c.cards EXCEPT ![i] = r])[m], [c.cards EXCEPT ![i] = r][m])
<1> DEFINE cards    == c.cards
           replaced == [cards EXCEPT ![i] = r]
           real     == nonJokerCards(cards)
           jokers   == jokerCardIndices(cards)
<1>0. n \in Nat
  OBVIOUS
<1>1. PICK s : InPlace(replaced, n, s) /\ (real = {} => s = 1)
  BY ReclaimedInPlace
<1>2. CardSeq(replaced, n) /\ jokerCardIndices(replaced) = jokers \ {i}
  BY ReclaimedInPlace
<1>3. i \in jokers /\ jokers = (1 .. n) \ real /\ real \subseteq 1 .. n
  BY <1>0, CardPositions DEF canReclaimJoker
<1>4. IsFiniteSet(jokers) /\ Cardinality(jokers) \in Nat
  <2>1. IsFiniteSet(1 .. n)
    BY <1>0, FS_Interval
  <2>2. jokers \subseteq 1 .. n
    BY <1>3
  <2>3. IsFiniteSet(jokers)
    BY <2>1, <2>2, FS_Subset
  <2> QED BY <2>3, FS_CardinalityType
<1>5. /\ Cardinality(jokerCardIndices(replaced)) = Cardinality(jokers) - 1
      /\ Cardinality(jokerCardIndices(replaced)) <= 2
  <2> HIDE DEF jokers, replaced
  <2>1. Cardinality(jokers \ {i}) = Cardinality(jokers) - 1
    BY <1>3, <1>4, FS_RemoveElement
  <2>2. Cardinality(jokers) < 4
    BY DEF jokers
  <2> QED BY <1>2, <1>4, <2>1, <2>2
<1>6. n >= 4 \/ s <= 2 \/ Cardinality(jokerCardIndices(replaced)) <= 1
  <2>1. CASE real = {}
    BY <1>1, <2>1
  <2>2. CASE real # {} /\ n = 3
    <3>1. PICK p \in 1 .. n : p \notin jokers
      BY <1>3, <2>2
    <3>2. /\ IsFiniteSet(1 .. n) /\ Cardinality(1 .. n) = n
      BY <1>0, FS_Interval
    <3>3. Cardinality((1 .. n) \ {p}) = 2 /\ IsFiniteSet((1 .. n) \ {p})
      BY <2>2, <3>1, <3>2, FS_RemoveElement
    <3>4. jokers \subseteq (1 .. n) \ {p}
      BY <1>3, <3>1
    <3>5. Cardinality(jokers) <= 2
      BY <3>3, <3>4, FS_Subset
    <3> QED BY <1>4, <1>5, <3>5
  <2>3. CASE n # 3
    BY <2>3
  <2> QED BY <2>1, <2>2, <2>3
<1> HIDE DEF replaced
<1>7. bestRunOrder(replaced) # {}
  BY <1>1, <1>2, <1>5, <1>6, FewJokersHaveOrder
<1>8. PICK b \in bestRunOrder(replaced) : normalizeRunCards(replaced) = b.ordered
  BY <1>7 DEF normalizeRunCards
<1>9. b.exact
  BY <1>1, <1>2, <1>8, PlacedOrdersAreExact
<1>10. \A m \in 1 .. n : cardsEqual(replaced[m], b.ordered[m])
  BY <1>2, <1>8, <1>9, OrdersInPlace
<1>11. \A m \in 1 .. n : cardsEqual(normalizeRunCards(replaced)[m], replaced[m])
  BY <1>8, <1>10 DEF cardsEqual
<1> QED BY <1>11 DEF replaced

\* A card takes the place of the joker that stands for it, and with at most three jokers
\* the other cards keep theirs.
THEOREM ReclaimKeepsTheRestAlways == TableSpec => []ReclaimKeepsTheRest
<1>1. TableInv => ReclaimKeepsTheRest
  <2> SUFFICES ASSUME TableInv, NEW i \in DOMAIN comp.cards, NEW r \in Unlaid,
                      canReclaimJoker(comp, i, r)
               PROVE  \E c \in ReclaimJoker(comp, i, r) :
                        LET replaced == [comp.cards EXCEPT ![i] = r] IN
                        /\ ToSet(c.cards) = ToSet(replaced)
                        /\ Cardinality(jokerCardIndices(comp.cards)) < 4 =>
                             \A k \in DOMAIN replaced : cardsEqual(c.cards[k], replaced[k])
    BY DEF ReclaimKeepsTheRest
  <2> DEFINE replaced == [comp.cards EXCEPT ![i] = r]
             n        == Len(comp.cards)
  <2>1. comp # NoComposition
    BY DEF NoComposition
  <2>2. /\ OnTable(comp) /\ comp.variant \in Variants /\ comp.cards \in Seq(Cards) /\ r \in Cards
        /\ isValid(comp.variant, comp.cards)
    BY <2>1 DEF TableInv, OnTable, Unlaid
  <2>3. /\ n \in Nat /\ CardSeq(comp.cards, n) /\ DOMAIN comp.cards = 1 .. n /\ i \in 1 .. n
    BY <2>2, TableCards DEF CardSeq
  <2>4. replaced \in Seq(Cards) /\ DOMAIN replaced = 1 .. n
    BY <2>2, <2>3, ExceptSeq
  <2>5. ReclaimJoker(comp, i, r) = newComposition(replaced, comp.variant)
    BY DEF ReclaimJoker
  <2>6. CASE comp.variant = "set"
    <3>1. isValidSet(replaced)
      BY <2>2, <2>3, <2>6, ReclaimedSet
    <3>2. isValid("set", replaced)
      BY <3>1 DEF isValid
    <3> HIDE DEF replaced
    <3>3. newComposition(replaced, "set") = {[variant |-> "set", cards |-> replaced]}
      BY <2>4, <3>2, NewIsMade DEF Variants
    <3> DEFINE c == [variant |-> "set", cards |-> replaced]
    <3>4. c \in ReclaimJoker(comp, i, r) /\ c.cards = replaced
      BY <2>5, <2>6, <3>3
    <3>5. \A k \in DOMAIN replaced : cardsEqual(c.cards[k], replaced[k])
      BY <3>4 DEF cardsEqual
    <3> QED BY <3>4, <3>5 DEF replaced
  <2>7. CASE comp.variant = "run"
    <3>1. n \in 3 .. 14
      BY <2>2, <2>7 DEF isValid, isValidRun
    <3>2. isValidRun(replaced)
      BY <2>2, <2>3, <2>7, <3>1, ReclaimedInPlace
    <3>3. isValid("run", replaced)
      BY <3>2 DEF isValid
    <3>4. Cardinality(jokerCardIndices(comp.cards)) < 4 =>
            \A k \in 1 .. n : cardsEqual(normalizeRunCards(replaced)[k], replaced[k])
      BY <2>2, <2>3, <2>7, <3>1, ReclaimedRun
    <3> HIDE DEF replaced, n
    <3>5. PICK c \in newComposition(replaced, "run") : TRUE
      BY <2>4, <3>3, NewIsMade DEF Variants
    <3>6. c.cards = normalizeRunCards(replaced)
      BY <3>5 DEF newComposition
    <3>7. MadeOf(c, "run", replaced)
      BY <2>4, <3>5, NewIsMade DEF Variants
    <3>8. ToSet(c.cards) = ToSet(replaced)
      BY <2>4, <3>7, PermutedSeq DEF MadeOf
    <3>9. c \in ReclaimJoker(comp, i, r)
      BY <2>5, <2>7, <3>5
    <3> QED BY <2>4, <3>4, <3>6, <3>8, <3>9 DEF replaced
  <2> QED BY <2>2, <2>6, <2>7 DEF Variants
<1> QED BY <1>1, TableInvCorrect, PTL

\* No card is twice in what was submitted last, nor on the table.
EachOnce(s) == \A p, q \in DOMAIN s : s[p] = s[q] => p = q

\* That holds of the last request and of the table.
TableEachOnce == EachOnce(offer) /\ EachOnce(comp.cards)

\* A sequence without repetitions has as many entries as members.
LEMMA EachOnceCardinality ==
  ASSUME NEW S, NEW s \in Seq(S), EachOnce(s)
  PROVE  Cardinality(ToSet(s)) = Len(s)
<1>1. Len(s) \in Nat /\ DOMAIN s = 1 .. Len(s)
  BY LenProperties
<1>2. s \in Bijection(1 .. Len(s), ToSet(s))
  BY <1>1 DEF EachOnce, ToSet, Bijection, Injection, Surjection, IsInjective
<1>3. ExistsBijection(1 .. Len(s), ToSet(s))
  BY <1>2 DEF ExistsBijection
<1>4. IsFiniteSet(1 .. Len(s)) /\ Cardinality(1 .. Len(s)) = Len(s)
  BY <1>1, FS_Interval
<1> QED BY <1>3, <1>4, FS_Bijection

\* A permutation repeats nothing that was not repeated before.
LEMMA PermutedEachOnce ==
  ASSUME NEW s, EachOnce(s), NEW t, Permuted(s, t)
  PROVE  EachOnce(t)
<1>1. PICK f \in Bijection(DOMAIN s, DOMAIN s) : t = [i \in DOMAIN s |-> s[f[i]]]
  BY DEF Permuted
<1>2. /\ f \in [DOMAIN s -> DOMAIN s]
      /\ \A a, b \in DOMAIN s : f[a] = f[b] => a = b
  BY DEF Bijection, Injection, IsInjective
<1>3. DOMAIN t = DOMAIN s /\ \A p \in DOMAIN s : t[p] = s[f[p]]
  BY <1>1
<1> QED BY <1>2, <1>3 DEF EachOnce

\* Cards that are not in a sequence can be inserted anywhere without repeating one.
LEMMA InsertedEachOnce ==
  ASSUME NEW S, NEW s \in Seq(S), NEW t \in Seq(S), NEW at \in 0 .. Len(s),
         EachOnce(s), EachOnce(t), \A q \in DOMAIN t : t[q] \notin ToSet(s)
  PROVE  EachOnce(SubSeq(s, 1, at) \o t \o SubSeq(s, at + 1, Len(s)))
<1> DEFINE a == SubSeq(s, 1, at)
           b == SubSeq(s, at + 1, Len(s))
           n == Len(s)
           k == Len(t)
<1>1. n \in Nat /\ k \in Nat /\ at \in 0 .. n /\ DOMAIN s = 1 .. n /\ DOMAIN t = 1 .. k
  BY LenProperties
<1>2. /\ a \in Seq(S) /\ Len(a) = at
      /\ \A p \in 1 .. at : a[p] = s[p]
  <2>1. \A p \in 1 .. at : s[p] \in S
    BY <1>1, ElementOfSeq
  <2>2. 1 \in Int /\ at \in Int
    BY <1>1
  <2>3. /\ a \in Seq(S) /\ Len(a) = IF 1 <= at THEN at - 1 + 1 ELSE 0
        /\ \A p \in 1 .. at - 1 + 1 : a[p] = s[1 + p - 1]
    BY <2>1, <2>2, SubSeqProperties
  <2> HIDE DEF a, n
  <2> QED BY <1>1, <2>3
<1>3. /\ b \in Seq(S) /\ Len(b) = n - at
      /\ \A p \in 1 .. n - at : b[p] = s[at + p]
  <2>1. \A p \in (at + 1) .. n : s[p] \in S
    BY <1>1, ElementOfSeq
  <2>2. n \in Int /\ at + 1 \in Int
    BY <1>1
  <2>3. /\ b \in Seq(S) /\ Len(b) = IF at + 1 <= n THEN n - (at + 1) + 1 ELSE 0
        /\ \A p \in 1 .. n - (at + 1) + 1 : b[p] = s[(at + 1) + p - 1]
    BY <2>1, <2>2, SubSeqProperties
  <2> HIDE DEF b, n
  <2> QED BY <1>1, <2>3
<1> DEFINE u == a \o t
           v == u \o b
<1>4. /\ u \in Seq(S) /\ Len(u) = at + k
      /\ \A p \in 1 .. at + k : u[p] = IF p <= at THEN a[p] ELSE t[p - at]
  BY <1>2, ConcatProperties
<1>5. /\ v \in Seq(S) /\ Len(v) = (at + k) + (n - at)
      /\ \A p \in 1 .. (at + k) + (n - at) : v[p] = IF p <= at + k THEN u[p] ELSE b[p - (at + k)]
  <2>1. Len(u) = at + k /\ Len(b) = n - at
    BY <1>3, <1>4
  <2>2. u \in Seq(S) /\ b \in Seq(S)
    BY <1>3, <1>4
  <2> HIDE DEF u, b, k, n
  <2>3. /\ v \in Seq(S) /\ Len(v) = Len(u) + Len(b)
        /\ \A p \in 1 .. Len(u) + Len(b) : v[p] = IF p <= Len(u) THEN u[p] ELSE b[p - Len(u)]
    BY <2>2, ConcatProperties
  <2> HIDE DEF v
  <2> QED BY <2>1, <2>3
<1>6. DOMAIN v = 1 .. (at + k) + (n - at)
  <2> HIDE DEF v, k, n
  <2> QED BY <1>5, LenProperties
<1>7. \A q \in 1 .. k, p \in 1 .. n : t[q] # s[p]
  BY <1>1 DEF ToSet
<1>8. /\ \A p, q \in 1 .. n : s[p] = s[q] => p = q
      /\ \A p, q \in 1 .. k : t[p] = t[q] => p = q
  BY <1>1 DEF EachOnce
<1>9. \A p \in 1 .. n + k :
        v[p] = IF p <= at THEN s[p] ELSE IF p <= at + k THEN t[p - at] ELSE s[p - k]
  <2> HIDE DEF a, b, u, v, k, n
  <2> QED BY <1>1, <1>2, <1>3, <1>4, <1>5
<1> HIDE DEF a, b, u, v, k, n
<1>10. \A p, q \in 1 .. n + k : v[p] = v[q] => p = q
  <2> SUFFICES ASSUME NEW p \in 1 .. n + k, NEW q \in 1 .. n + k, v[p] = v[q]
               PROVE  p = q
    OBVIOUS
  <2>1. CASE p <= at
    BY <1>1, <1>7, <1>8, <1>9, <2>1
  <2>2. CASE at < p /\ p <= at + k
    BY <1>1, <1>7, <1>8, <1>9, <2>2
  <2>3. CASE at + k < p
    BY <1>1, <1>7, <1>8, <1>9, <2>3
  <2> QED BY <1>1, <2>1, <2>2, <2>3
<1>11. EachOnce(v)
  BY <1>1, <1>6, <1>10 DEF EachOnce
<1> QED BY <1>11 DEF v, u, a, b, n

\* Nothing that is submitted repeats a card, and all of it is from the given cards.
LEMMA SubmittedOnce ==
  ASSUME NEW T, NEW m \in Nat, NEW t \in Submissions(T, m)
  PROVE  EachOnce(t) /\ \A q \in DOMAIN t : t[q] \in T
BY DEF Submissions, EachOnce

\* At the start nothing is on the table.
LEMMA TableEachOnceInit == TableInit => TableEachOnce
<1>1. EachOnce(NoComposition.cards)
  BY DEF EachOnce, NoComposition
<1> QED BY <1>1, BoundsAssumption, SubmittedOnce DEF TableInit, TableEachOnce

\* Every step keeps the table without repeated cards.
LEMMA TableEachOnceNext == TableInv /\ TableEachOnce /\ [TableNext]_tableVars => TableEachOnce'
<1> SUFFICES ASSUME TableInv, TableEachOnce, [TableNext]_tableVars
             PROVE  TableEachOnce'
  OBVIOUS
<1>0. /\ offer \in Seq(Cards) /\ comp.cards \in Seq(Cards)
      /\ comp # NoComposition => comp.variant \in Variants
  <2>1. NoComposition.cards \in Seq(Cards)
    BY EmptySeq DEF NoComposition
  <2> QED BY <2>1 DEF TableInv, OnTable
<1>1. CASE LayDown
  <2>1. comp' \in laidComposition(offer) /\ offer' = offer
    BY <1>1 DEF LayDown
  <2>2. Permuted(offer, comp'.cards)
    BY <1>0, <2>1, LaidIsOnTable
  <2> QED BY <2>1, <2>2, PermutedEachOnce DEF TableEachOnce
<1>2. ASSUME NEW cards \in Submissions(Unlaid, MaxInserted), NEW at \in 0 .. Len(comp.cards),
             Insert(at, cards)
      PROVE  TableEachOnce'
  <2>1. cards \in Seq(Cards)
    BY BoundsAssumption, SubmittedCards DEF Unlaid
  <2>2. EachOnce(cards) /\ \A q \in DOMAIN cards : cards[q] \notin ToSet(comp.cards)
    BY BoundsAssumption, SubmittedOnce DEF Unlaid
  <2> DEFINE new == SubSeq(comp.cards, 1, at) \o cards
                      \o SubSeq(comp.cards, at + 1, Len(comp.cards))
  <2>3. EachOnce(new)
    BY <1>0, <2>1, <2>2, InsertedEachOnce DEF TableEachOnce
  <2>4. offer' = new /\ comp' \in newComposition(new, comp.variant) /\ comp # NoComposition
    BY <1>2 DEF Insert, WithInsertedCards
  <2>5. new \in Seq(Cards)
    <3>1. Len(comp.cards) \in Nat /\ at \in Nat /\ at <= Len(comp.cards)
      BY <1>0, <1>2, LenProperties
    <3>2. SubSeq(comp.cards, 1, at) \in Seq(Cards) /\ SubSeq(comp.cards, at + 1, Len(comp.cards)) \in Seq(Cards)
      BY <1>0, <3>1, SubSeqProperties
    <3> QED BY <2>1, <3>2, ConcatProperties
  <2> HIDE DEF new
  <2>6. Permuted(new, comp'.cards)
    BY <1>0, <2>4, <2>5, MadeIsOnTable
  <2> QED BY <2>3, <2>4, <2>6, PermutedEachOnce DEF TableEachOnce
<1>3. ASSUME NEW r \in Unlaid, NEW i \in DOMAIN comp.cards, Reclaim(i, r)
      PROVE  TableEachOnce'
  <2> DEFINE new == [comp.cards EXCEPT ![i] = r]
  <2>1. new \in Seq(Cards)
    <3>1. i \in 1 .. Len(comp.cards) /\ r \in Cards
      BY <1>0, <1>3, LenProperties DEF Unlaid
    <3> QED BY <1>0, <3>1, ExceptSeq
  <2>2. offer' = new /\ comp' \in newComposition(new, comp.variant) /\ comp # NoComposition
    BY <1>3 DEF Reclaim, ReclaimJoker
  <2>3. \A p \in DOMAIN comp.cards : comp.cards[p] # r
    BY <1>0, <1>3 DEF Unlaid, ToSet
  <2>4. EachOnce(new)
    BY <2>3 DEF TableEachOnce, EachOnce
  <2> HIDE DEF new
  <2>5. Permuted(new, comp'.cards)
    BY <1>0, <2>1, <2>2, MadeIsOnTable
  <2> QED BY <2>2, <2>4, <2>5, PermutedEachOnce DEF TableEachOnce
<1>4. CASE Restore
  <2>1. comp' \in newComposition(comp.cards, comp.variant) /\ comp # NoComposition /\ offer' = comp.cards
    BY <1>4 DEF Restore
  <2>2. Permuted(comp.cards, comp'.cards)
    BY <1>0, <2>1, MadeIsOnTable
  <2> QED BY <2>1, <2>2, PermutedEachOnce DEF TableEachOnce
<1>5. CASE UNCHANGED tableVars
  BY <1>5 DEF TableEachOnce, tableVars
<1> QED BY <1>1, <1>2, <1>3, <1>4, <1>5 DEF TableNext

\* The table holds cards of the game, each once: no play and no restore copies or invents a card.
THEOREM TableTypeCorrect == TableSpec => []TableTypeOK
<1>1. TableSpec => []TableEachOnce
  <2>1. TableInv /\ TableInv' /\ TableEachOnce /\ [TableNext]_tableVars => TableEachOnce'
    BY TableEachOnceNext
  <2> QED BY <2>1, TableEachOnceInit, TableInvCorrect, PTL DEF TableSpec
<1>2. TableInv /\ TableEachOnce => TableTypeOK
  <2> SUFFICES ASSUME TableInv, TableEachOnce
               PROVE  TableTypeOK
    OBVIOUS
  <2>1. comp.cards \in Seq(Cards) /\ (comp = NoComposition \/ comp.variant \in Variants)
    <3>1. NoComposition.cards \in Seq(Cards)
      BY EmptySeq DEF NoComposition
    <3> QED BY <3>1 DEF TableInv, OnTable
  <2>2. ToSet(comp.cards) \subseteq Cards
    BY <2>1, LenProperties, ElementOfSeq DEF ToSet
  <2>3. Cardinality(ToSet(comp.cards)) = Len(comp.cards)
    BY <2>1, EachOnceCardinality DEF TableEachOnce
  <2> QED BY <2>1, <2>2, <2>3 DEF TableTypeOK
<1> QED BY <1>1, <1>2, TableInvCorrect, PTL
================================================================================
