----------------------------- MODULE BoardDrafts -----------------------------
(***************************************************************************)
(* The board of one player: useGameBoardController of game-board-view.tsx, *)
(* its drag and drop handlers, and the server that answers it.             *)
(*                                                                         *)
(* The player drags cards between the hand, drafts of new compositions and *)
(* the table, and plays all drafts by dropping another card on the discard *)
(* pile.  Requests travel to the server in order; the snapshot that shows  *)
(* their effect arrives at any later moment, in the middle of a drag too.  *)
(* DraftPlan says what the board makes of its state.                       *)
(*                                                                         *)
(* Left out: sounds, the guidance of the tutorial, the drafts other        *)
(* players are shown (the same view, sent on every change), and            *)
(* submitDraftCompositions, which no control calls.                        *)
(***************************************************************************)
EXTENDS DraftPlan

CONSTANTS
  Starts,      \* the turns it may start with: hand, table, opened, stage
  DeckCards,   \* the cards that may be drawn
  MaxDrags,    \* bound on drags
  MaxOvers,    \* bound on targets passed over in all drags
  MaxTurns     \* bound on turns of this player

ASSUME BoardBounds == MaxDrags \in Nat /\ MaxOvers \in Nat /\ MaxTurns \in Nat \ {0}

VARIABLES
  server,    \* the game as it is: hand, table, opened, turn and stage
  game,      \* the game as the last snapshot shows it
  order,     \* the hand order, kept across reloads
  drafting,  \* draftCompositionState: scope, drafts, hand order before them
  drag,      \* activeDrag with the last target it was over
  sent,      \* requests on their way to the server
  marked,    \* showDraftValidation
  nextId,    \* nextDraftIdRef
  used       \* drags and targets so far

vars == <<server, game, order, drafting, drag, sent, marked, nextId, used>>

(* Where a card can be dropped is <<kind, key, number, edge or joker>>. *)
Target(kind) == <<kind, noKey, 0, 0>>

noDrag == [type |-> "none", key |-> noKey, entries |-> <<>>, drafts |-> <<>>,
           reordered |-> FALSE, over |-> Target("nowhere")]

----------------------------------------------------------------------------
(* What a render computes. *)

(* Edges of a composition are named by their ends. *)
Edges == {"start", "end"}

isMyTurn == game.stage \in {"draw", "discard"}
canDraw == game.stage = "draw"
canCompose == game.stage = "discard"

rawHandEntries == buildHandEntries(game.hand)
handEntries == applyHandEntryOrder(rawHandEntries, order)

draftScopeKey == IF isMyTurn THEN game.turn ELSE 0

scopedDraftCompositions ==
  IF drafting.scope = draftScopeKey THEN drafting.drafts ELSE <<>>

draftResolution ==
  resolveDraftViews(game.table, scopedDraftCompositions, handEntries)

stagedHandKeys(drafts) == UNION {ToSet(drafts[i].keys) : i \in DOMAIN drafts}

availableHandEntries(view) ==
  SelectSeq(view.all, LAMBDA k : k \notin stagedHandKeys(view.drafts))

(* The draft a key is staged in: none or one. *)
draftsWith(drafts, key) == {d \in ToSet(drafts) : Staged(d, key)}

(* activeDrawEntry: the card a draw has brought, once a snapshot shows it. *)
activeDrawEntry == newHandEntries(drag.entries,
                                  applyHandEntryOrder(rawHandEntries, drag.entries))

(* createBoardCollisionDetection never gives the hand itself while it      *)
(* shows cards, and the discard pile and the board take cards only when    *)
(* the player may compose.  A composition's row is a target without use.   *)
dropTargets(view) ==
  LET shown == availableHandEntries(view)
  IN  {Target("nowhere")}
      \cup {Target("row") : i \in DOMAIN game.table}
      \cup (IF shown = <<>> THEN {Target("hand")} ELSE {})
      \cup (IF canCompose THEN {Target("discard"), Target("new")} ELSE {})
      \cup {<<"card", k, 0, 0>> : k \in ToSet(view.all)}
      \cup {<<"container", noKey, d.id, 0>> : d \in {d \in ToSet(view.drafts) : d.table = 0}}
      \cup UNION {{<<"start", noKey, t, 0>>, <<"end", noKey, t, 0>>} : t \in DOMAIN game.table}
      \cup (IF canCompose
            THEN UNION {{<<"joker", noKey, t, j>> : j \in jokerCardIndices(game.table[t].cards)} :
                          t \in DOMAIN game.table}
            ELSE {})

----------------------------------------------------------------------------
(* State changes the handlers share. *)

commitDraftCompositionState(drafts, baseline) ==
  drafting' = [scope |-> draftScopeKey, drafts |-> drafts, baseline |-> baseline]

(* The order of the hand before the first draft of the turn is remembered  *)
(* for a reset.                                                            *)
updateDraftCompositions(next) ==
  LET kept == IF drafting.scope = draftScopeKey THEN drafting.baseline ELSE <<>>
  IN  /\ marked' = FALSE
      /\ commitDraftCompositionState(next,
           IF kept # <<>> THEN kept
           ELSE IF scopedDraftCompositions = <<>> /\ next # <<>> THEN handEntries
           ELSE <<>>)

finishReturningHandKey(key) ==
  LET next == removeHandKeyFromDrafts(scopedDraftCompositions, key)
  IN  commitDraftCompositionState(next, IF next # <<>> THEN drafting.baseline ELSE <<>>)

restoreBaseline ==
  /\ order' = drag.entries
  /\ commitDraftCompositionState(drag.drafts, drafting.baseline)

NoDraftChange == UNCHANGED <<drafting, marked>>

----------------------------------------------------------------------------
(* handleDragStart. *)

DragStartDraw ==
  /\ drag = noDrag /\ canDraw /\ used.drags < MaxDrags
  /\ drag' = [noDrag EXCEPT !.type = "draw", !.entries = handEntries]
  /\ sent' = Append(sent, [kind |-> "draw"])
  /\ used' = [used EXCEPT !.drags = @ + 1]
  /\ UNCHANGED <<server, game, order, drafting, marked, nextId>>

DragStartHand ==
  /\ drag = noDrag /\ used.drags < MaxDrags
  /\ LET view == draftResolution
     IN  \E key \in ToSet(view.all) :
           drag' = [noDrag EXCEPT !.type = "hand", !.key = key,
                                  !.entries = handEntries, !.drafts = view.drafts]
  /\ used' = [used EXCEPT !.drags = @ + 1]
  /\ UNCHANGED <<server, game, order, drafting, sent, marked, nextId>>

----------------------------------------------------------------------------
(* handleDragOver: a target counts once in a row, and a draw that no       *)
(* snapshot has shown yet has no card to move.                             *)

OverDraw(target) ==
  /\ NoDraftChange
  /\ order' = IF target[1] \in {"nowhere", "discard"} THEN drag.entries
              ELSE moveHandEntry(handEntries, Head(activeDrawEntry), target[2])

(* A card of the hand moves among the cards it passes; a staged card that  *)
(* passes the hand leaves its draft; and a card that first enters the      *)
(* draft of a new composition takes a place in it.                         *)
startedInDraft(key) == draftsWith(drag.drafts, key) # {}
overHandCard(view, target) ==
  target[1] = "card" /\ target[2] \in ToSet(availableHandEntries(view))
reordersHand(view, target) ==
  ~startedInDraft(drag.key) /\ overHandCard(view, target) /\ drag.key # target[2]

targetDrafts(view, target) ==
  IF target[1] = "card" THEN draftsWith(view.drafts, target[2])
  ELSE {d \in ToSet(view.drafts) : target[1] = "container" /\ d.id = target[3]}

OverHand(view, target) ==
  IF reordersHand(view, target)
  THEN order' = moveHandEntry(handEntries, drag.key, target[2]) /\ NoDraftChange
  ELSE IF ~canCompose THEN UNCHANGED order /\ NoDraftChange
  ELSE IF startedInDraft(drag.key) /\ (target[1] = "hand" \/ overHandCard(view, target))
  THEN /\ updateDraftCompositions(removeHandKeyFromDrafts(scopedDraftCompositions, drag.key))
       /\ order' = IF overHandCard(view, target)
                   THEN moveHandEntry(handEntries, drag.key, target[2]) ELSE order
  ELSE /\ UNCHANGED order
       /\ IF \E d \in targetDrafts(view, target) : d.table = 0 /\ ~Staged(d, drag.key)
          THEN \E d \in targetDrafts(view, target) :
                 updateDraftCompositions(
                   insertHandKeyIntoDraft(scopedDraftCompositions, drag.key, d.id, target[2]))
          ELSE NoDraftChange

DragOver ==
  /\ drag.type # "none" /\ used.overs < MaxOvers
  /\ used' = [used EXCEPT !.overs = @ + 1]
  /\ LET view == draftResolution
     IN  \E target \in dropTargets(view) :
           /\ target # drag.over
           /\ drag' = [drag EXCEPT !.over = target,
                         !.reordered = @ \/ (drag.type = "hand" /\ reordersHand(view, target))]
           /\ IF drag.type = "draw" /\ activeDrawEntry # <<>> THEN OverDraw(target)
              ELSE IF drag.type = "draw" THEN UNCHANGED order /\ NoDraftChange
              ELSE IF target[1] = "nowhere" THEN UNCHANGED order /\ NoDraftChange
              ELSE OverHand(view, target)
  /\ UNCHANGED <<server, game, sent, nextId>>

----------------------------------------------------------------------------
(* handleDragEnd: the card is dropped on the last target it passed, unless *)
(* that is gone.                                                           *)

(* A drawn card that is dropped on the hand stays where it was put. *)
EndDraw(target) ==
  /\ order' = IF activeDrawEntry # <<>> /\ target[1] \notin {"nowhere", "discard"}
              THEN order ELSE drag.entries
  /\ UNCHANGED <<drafting, marked, sent, nextId>>

(* A drop on the discard pile sends the drafts with the card, or the card  *)
(* alone; nothing that is staged, virtual or no longer held is sent.       *)
DropOnDiscard(view) ==
  /\ UNCHANGED <<order, drafting, marked, nextId>>
  /\ IF \/ draftsWith(view.drafts, drag.key) # {} \/ isVirtual(drag.key)
        \/ drag.key \notin ToSet(view.all)
        \/ /\ view.drafts # <<>>
           /\ handIndexAfterSubmittedDrafts(rawHandEntries, drag.key, view.drafts) = {}
     THEN UNCHANGED sent
     ELSE sent' = Append(sent,
            IF view.drafts = <<>>
            THEN [kind |-> "discard", card |-> cardOf(drag.key)]
            ELSE [kind |-> "play", card |-> cardOf(drag.key),
                  req |-> buildTablePlayRequest(game.table, view.drafts)])

(* A table composition has one draft, which the first card begins. *)
StageOnTable(t, at, Choose(_, _)) ==
  LET here == {d \in ToSet(scopedDraftCompositions) : d.table = t}
      fresh == [newDraft(nextId, drag.key) EXCEPT !.table = t, !.at = at]
  IN  updateDraftCompositions(
        IF here # {}
        THEN Choose(insertHandKeyIntoDraft(scopedDraftCompositions, drag.key,
                                           (CHOOSE d \in here : TRUE).id, noKey),
                    (CHOOSE d \in here : TRUE).id)
        ELSE Choose(Append(removeHandKeyFromDrafts(scopedDraftCompositions, drag.key),
                           fresh), nextId))

DropOnEdge(t, edge) ==
  LET at == tableCompositionInsertIndexForEdge(game.table[t], edge)
  IN  StageOnTable(t, at, LAMBDA ds, id : setDraftCardInsertIndex(ds, id, drag.key, at))

DropOnJoker(t, j) ==
  StageOnTable(t, Len(game.table[t].cards),
               LAMBDA ds, id : setDraftCardReclaimTarget(ds, id, drag.key, j))

DropOnNew ==
  updateDraftCompositions(
    Append(removeHandKeyFromDrafts(scopedDraftCompositions, drag.key),
           newDraft(nextId, drag.key)))

DropOnDraft(view, target) ==
  \E d \in targetDrafts(view, target) :
    updateDraftCompositions(
      insertHandKeyIntoDraft(scopedDraftCompositions, drag.key, d.id, target[2]))

(* Dropped on the hand a card leaves its draft, unless it had left it on   *)
(* the way, and takes its place unless it had taken it on the way.         *)
DropOnHand(view, target) ==
  /\ finishReturningHandKey(drag.key) /\ UNCHANGED marked
  /\ order' =
       IF target[1] = "card" /\ drag.key # target[2] /\ ~drag.reordered
          /\ ~(startedInDraft(drag.key) /\ draftsWith(view.drafts, drag.key) = {})
       THEN moveHandEntry(handEntries, drag.key, target[2]) ELSE order

EndHand(view, target) ==
  \/ /\ target[1] = "nowhere"
     /\ restoreBaseline /\ UNCHANGED <<marked, sent, nextId>>
  \/ target[1] = "discard" /\ DropOnDiscard(view)
  \/ /\ target[1] \notin {"nowhere", "discard"} /\ ~canCompose
     /\ order' = IF overHandCard(view, target) /\ drag.key # target[2] /\ ~drag.reordered
                 THEN moveHandEntry(handEntries, drag.key, target[2]) ELSE order
     /\ UNCHANGED <<drafting, marked, sent, nextId>>
  \/ /\ target[1] \in Edges \cup {"joker", "new"} /\ canCompose
     /\ target[1] = "new" \/ drag.key \in ToSet(view.all)
     /\ \/ target[1] \in Edges /\ DropOnEdge(target[3], target[1])
        \/ target[1] = "joker" /\ DropOnJoker(target[3], target[4])
        \/ target[1] = "new" /\ DropOnNew
     /\ nextId' = nextId + 1
     /\ UNCHANGED <<order, sent>>
  \/ /\ targetDrafts(view, target) # {} /\ canCompose
     /\ DropOnDraft(view, target)
     /\ UNCHANGED <<order, sent, nextId>>
  \/ /\ target[1] = "hand" \/ overHandCard(view, target)
     /\ canCompose
     /\ DropOnHand(view, target)
     /\ UNCHANGED <<sent, nextId>>
  \/ /\ canCompose
     /\ \/ target[1] = "row"
        \/ target[1] \in Edges \cup {"joker"} /\ drag.key \notin ToSet(view.all)
     /\ UNCHANGED <<order, drafting, marked, sent, nextId>>

DragEnd ==
  /\ drag.type # "none"
  /\ drag' = noDrag
  /\ LET view == draftResolution
     IN  \E target \in {drag.over, Target("nowhere")} \cap dropTargets(view) :
           \/ drag.type = "draw" /\ EndDraw(target)
           \/ drag.type = "hand" /\ EndHand(view, target)
  /\ UNCHANGED <<server, game, used>>

DragCancel ==
  /\ drag.type # "none"
  /\ drag' = noDrag
  /\ \/ drag.type = "draw" /\ order' = drag.entries /\ UNCHANGED drafting
     \/ drag.type = "hand" /\ restoreBaseline
  /\ UNCHANGED <<server, game, sent, marked, nextId, used>>

(* The reset button: no drafts, and the hand as it was before them. *)
resetDraftCompositions ==
  /\ draftResolution.drafts # <<>> /\ drag = noDrag
  /\ marked' = FALSE
  /\ order' = IF drafting.scope = draftScopeKey /\ drafting.baseline # <<>>
              THEN drafting.baseline ELSE order
  /\ commitDraftCompositionState(<<>>, <<>>)
  /\ UNCHANGED <<server, game, drag, sent, nextId, used>>

----------------------------------------------------------------------------
(* The server. *)

endOfTurn(s, hand) ==
  [s EXCEPT !.hand = hand, !.stage = IF hand = <<>> THEN "over" ELSE "away"]

drawCard(s) ==
  IF s.stage # "draw" THEN {}
  ELSE {[s EXCEPT !.hand = Append(@, c), !.stage = "discard"] : c \in DeckCards}

discardCard(s, card) ==
  IF s.stage # "discard" THEN {}
  ELSE {endOfTurn(s, h) : h \in RemoveCard(s.hand, card)}

(* playTableAndDiscard: an opening needs a composition of the hand alone   *)
(* and forty points; completed compositions leave the table.               *)
opens(s, req, points) ==
  s.opened \/ (points >= 40 /\ \E i \in DOMAIN req.comps :
                                 RemoveCards(s.hand, req.comps[i]) # {})

playTableAndDiscard(s, req, card) ==
  IF s.stage # "discard" THEN {}
  ELSE UNION {
    {[endOfTurn(s, h) EXCEPT !.opened = TRUE,
        !.table = SelectSeq(p.table, LAMBDA c : ~isComplete(c))] :
       h \in OnEach(handAfterPlay(s.hand, p.freed, req), LAMBDA h : RemoveCard(h, card))} :
    p \in {p \in applyTablePlayRequest(s.table, req) : opens(s, req, p.points)}}

serverAnswers(s, m) ==
  CASE m.kind = "draw" -> drawCard(s)
    [] m.kind = "discard" -> discardCard(s, m.card)
    [] m.kind = "play" -> playTableAndDiscard(s, m.req, m.card)

snapshotOf(s) ==
  [s EXCEPT !.table = [t \in DOMAIN @ |-> CompositionSnapshot(@[t])]]

(* A request is carried out or refused; a refused play shows what is wrong *)
(* with the drafts.                                                        *)
ServerHandles ==
  /\ sent # <<>>
  /\ sent' = Tail(sent)
  /\ LET answers == serverAnswers(server, Head(sent))
     IN  \/ server' \in answers /\ UNCHANGED marked
         \/ /\ answers = {} /\ UNCHANGED server
            /\ marked' = (marked \/ Head(sent).kind = "play")
  /\ UNCHANGED <<game, order, drafting, drag, nextId, used>>

Snapshot ==
  /\ game # snapshotOf(server)
  /\ game' = snapshotOf(server)
  /\ UNCHANGED <<server, order, drafting, drag, sent, marked, nextId, used>>

(* The other players take their turns and leave the table as it is. *)
OthersPlay ==
  /\ server.stage = "away" /\ server.turn < MaxTurns
  /\ server' = [server EXCEPT !.stage = "draw", !.turn = @ + 1]
  /\ UNCHANGED <<game, order, drafting, drag, sent, marked, nextId, used>>

----------------------------------------------------------------------------
Init ==
  /\ \E s \in Starts :
       server = [hand |-> s.hand, table |-> s.table, opened |-> s.opened,
                 stage |-> s.stage, turn |-> 1]
  /\ game = snapshotOf(server)
  /\ order = <<>>
  /\ drafting = [scope |-> 0, drafts |-> <<>>, baseline |-> <<>>]
  /\ drag = noDrag /\ sent = <<>> /\ marked = FALSE
  /\ nextId = 1 /\ used = [drags |-> 0, overs |-> 0]

Next ==
  \/ DragStartDraw \/ DragStartHand \/ DragOver \/ DragEnd \/ DragCancel
  \/ resetDraftCompositions
  \/ ServerHandles \/ Snapshot \/ OthersPlay

Spec == Init /\ [][Next]_vars

----------------------------------------------------------------------------
(* Properties. *)

IsKey(k) == Len(k) = 3 /\ \A i \in 1 .. 3 : k[i] \in Nat

TypeOK ==
  /\ game.stage \in {"draw", "discard", "away", "over"}
  /\ marked \in BOOLEAN /\ nextId \in Nat \ {0}
  /\ used.drags \in 0 .. MaxDrags /\ used.overs \in 0 .. MaxOvers
  /\ drag.type \in {"none", "draw", "hand"}
  /\ \A k \in ToSet(order) : IsKey(k)
  /\ drafting.scope \in 0 .. MaxTurns
  /\ \A d \in ToSet(drafting.drafts) :
       /\ d.keys # <<>> /\ \A k \in ToSet(d.keys) : IsKey(k)
       /\ DOMAIN d.cardAt \cap DOMAIN d.reclaim = {}

(* Whatever is dragged where, and whatever snapshot arrives meanwhile, a   *)
(* card is staged in one place at most, a composition of the table has one *)
(* draft at most, and the hand shows every card once: reordering while     *)
(* dragging, drawing and returning cards never hides or doubles one.       *)
EachCardOnce ==
  LET ds == drafting.drafts
  IN  /\ \A i \in DOMAIN ds : IsInjective(ds[i].keys)
      /\ \A i, j \in DOMAIN ds : i # j =>
           /\ ToSet(ds[i].keys) \cap ToSet(ds[j].keys) = {}
           /\ ds[i].table = 0 \/ ds[i].table # ds[j].table
           /\ ds[i].id # ds[j].id
      /\ Len(handEntries) = Len(game.hand)
      /\ ToSet(handEntries) = ToSet(rawHandEntries)

Count(cards, c) == Cardinality({i \in DOMAIN cards : cardsEqual(cards[i], c)})
SameCards(a, b) == \A c \in ToSet(a) \cup ToSet(b) : Count(a, c) = Count(b, c)

(* The request built from the drafts plays the staged cards, each of them  *)
(* once.  If the server accepts the drafts on the table, the table has the *)
(* cards the board showed, complete if it showed them so, and the player   *)
(* gets the jokers it offered: the two agree on what reclaims whom,        *)
(* although the server applies the changes one after the other, with       *)
(* positions that move.                                                    *)
PlayIsAsShown ==
  LET view == draftResolution
      req == buildTablePlayRequest(game.table, view.drafts)
      Shown(comp, cards) ==
        /\ SameCards(comp.cards, cards)
        /\ isCompleteDraftComposition(cards, {comp.variant}) = isComplete(comp)
  IN  /\ SameCards(playedCards(req),
                   FlattenSeq([i \in DOMAIN view.drafts |-> cardsOf(view.drafts[i].keys)]))
      /\ \A p \in applyTablePlayRequest(game.table, [req EXCEPT !.comps = <<>>]) :
           /\ p.freed = Cardinality({k \in ToSet(view.all) : isVirtual(k)})
           /\ \A d \in {d \in ToSet(view.drafts) : d.table # 0} :
                Shown(p.table[d.table], cardsAfterTableDraft(game.table[d.table], d))

(* Drafts that add cards at one edge of a composition, and of which a      *)
(* refused play would mark no card, are accepted by the server.  (Of two   *)
(* edges it takes one first, and refuses a run with a gap the other would  *)
(* have closed.)                                                           *)
UnmarkedIsAccepted ==
  LET OneEdge(d) == Cardinality({insertIndexOf(d, k) : k \in ToSet(d.keys)}) = 1
      ds == SelectSeq(draftResolution.drafts, LAMBDA d : d.table # 0 /\ OneEdge(d))
  IN  validateDraftedCompositions(game.table, ds).entries = {}
        => applyTablePlayRequest(game.table, buildTablePlayRequest(game.table, ds)) # {}

(* The total the board shows is the one the server holds against the forty *)
(* points of an opening, as long as no joker is reclaimed.                 *)
TotalWithoutReclaims ==
  LET ds == SelectSeq(draftResolution.drafts,
                      LAMBDA d : draftReclaims(game.table, d) = <<>>)
  IN  \A p \in applyTablePlayRequest(game.table, buildTablePlayRequest(game.table, ds)),
         shown \in visibleDraftPointsTotal(game.table, ds) : shown = p.points

(* The same with jokers that are reclaimed. *)
TotalShownIsCounted ==
  LET ds == draftResolution.drafts
  IN  \A p \in applyTablePlayRequest(game.table, buildTablePlayRequest(game.table, ds)),
         shown \in visibleDraftPointsTotal(game.table, ds) : shown = p.points

(* A card dropped on an edge or a joker of a composition, or on the board, *)
(* is staged there.                                                        *)
DropStages ==
  [][drag.type = "hand" /\ drag' = noDrag /\ nextId' = nextId + 1
       => \E d \in ToSet(drafting'.drafts) : Staged(d, drag.key)]_vars
==============================================================================
