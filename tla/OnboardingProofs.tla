--------------------------- MODULE OnboardingProofs ---------------------------
(***************************************************************************)
(* The tutorial ends only with the lesson learnt, and the app opens only   *)
(* to a player the server knows to be done, however many detours and       *)
(* faults there are.                                                       *)
(***************************************************************************)
EXTENDS Onboarding, TLAPS

-----------------------------------------------------------------------------
(***************************************************************************)
(* The invariant.                                                          *)
(***************************************************************************)
\* Drafts that can lie on the board: none is empty, and every card is a card of
\* the hand and in one of them only.
Tidy(ds, hand) ==
  /\ ds \subseteq Drafts
  /\ \A d \in ds : d.cards \subseteq hand
  /\ \A d, e \in ds : d # e => d.cards \cap e.cards = {}

\* The cards of the hand before the last stage.
DealtCards == IF game.hasDrawn THEN Cards ELSE Cards \ {"7"}

\* The hand is the one dealt until the run is played from it, and by then the
\* card of the deck is drawn.
HandOK ==
  /\ stage \in {"compose", "discard", "complete"} => game.hasDrawn
  /\ stage # "complete" => game.hand = DealtCards
  /\ stage = "complete" => drafts = {}
  /\ LessonHolds

\* A drag can always be undone: what it started from still fits the hand.
DragOK ==
  /\ drag = DrawDrag => game.hasDrawn
  /\ Dragging => drag.card \in game.hand /\ Tidy(drag.baseline, game.hand)

\* The page takes the server's word only.
RecordOK ==
  /\ request = "ok" => recorded
  /\ provider.completedInSession => recorded

LessonInv == TypeOK /\ HandOK /\ DragOK /\ RecordOK

-----------------------------------------------------------------------------
(***************************************************************************)
(* What moving a card between drafts makes of tidy drafts.                 *)
(***************************************************************************)
\* A new draft is a draft.
LEMMA DraftFields ==
  ASSUME NEW cards \in (SUBSET Cards) \ {{}}, NEW isTable \in BOOLEAN
  PROVE  /\ Draft(cards, isTable) \in Drafts
         /\ Draft(cards, isTable).cards = cards
         /\ Draft(cards, isTable).table = isTable
  BY DEF Draft, Drafts

\* A card taken out of its draft.
LEMMA RemoveTidy ==
  ASSUME NEW ds, NEW hand \in SUBSET Cards, Tidy(ds, hand), NEW c
  PROVE  /\ Tidy(removeHandKeyFromDrafts(ds, c), hand)
         /\ \A e \in removeHandKeyFromDrafts(ds, c) :
              \E d \in ds : e.cards = d.cards \ {c}
<1> DEFINE rs == removeHandKeyFromDrafts(ds, c)
<1>1. \A e \in rs : \E d \in ds : e = Draft(d.cards \ {c}, d.table) /\ e.cards # {}
  BY DEF removeHandKeyFromDrafts
<1>2. \A d \in ds : /\ d.cards \in SUBSET Cards /\ d.table \in BOOLEAN
                    /\ d.cards \subseteq hand
  BY DEF Tidy, Drafts
<1>3. \A d \in ds : Draft(d.cards \ {c}, d.table).cards = d.cards \ {c}
  BY DEF Draft
<1> HIDE DEF rs
<1>4. \A e \in rs : \E d \in ds : e.cards = d.cards \ {c}
  BY <1>1, <1>3
<1>5. rs \subseteq Drafts
  <2> SUFFICES ASSUME NEW e \in rs
               PROVE  e \in Drafts
    OBVIOUS
  <2>1. PICK d \in ds : e = Draft(d.cards \ {c}, d.table) /\ e.cards # {}
    BY <1>1
  <2>2. d.cards \ {c} \in (SUBSET Cards) \ {{}}
    BY <1>2, <1>3, <2>1
  <2> QED BY <1>2, <2>1, <2>2, DraftFields
<1>6. \A e \in rs : e.cards \subseteq hand
  BY <1>2, <1>4
<1>7. \A e, f \in rs : e # f => e.cards \cap f.cards = {}
  <2> SUFFICES ASSUME NEW e \in rs, NEW f \in rs, e # f
               PROVE  e.cards \cap f.cards = {}
    OBVIOUS
  <2>1. PICK d \in ds : e = Draft(d.cards \ {c}, d.table)
    BY <1>1
  <2>2. PICK g \in ds : f = Draft(g.cards \ {c}, g.table)
    BY <1>1
  <2>3. d.cards \cap g.cards = {}
    BY <2>1, <2>2 DEF Tidy
  <2>4. e.cards = d.cards \ {c} /\ f.cards = g.cards \ {c}
    BY <1>3, <2>1, <2>2
  <2> QED BY <2>3, <2>4
<1> QED BY <1>4, <1>5, <1>6, <1>7 DEF Tidy, rs

\* One more draft beside those that have none of its cards.
LEMMA AddTidy ==
  ASSUME NEW ds, NEW hand \in SUBSET Cards, Tidy(ds, hand), NEW n \in Drafts,
         n.cards \subseteq hand, \A e \in ds : e.cards \cap n.cards = {}
  PROVE  Tidy(ds \cup {n}, hand)
  BY DEF Tidy

\* A card laid by itself.
LEMMA SingleTidy ==
  ASSUME NEW ds, NEW hand \in SUBSET Cards, Tidy(ds, hand), NEW c \in hand,
         NEW isTable \in BOOLEAN
  PROVE  Tidy(removeHandKeyFromDrafts(ds, c) \cup {Draft({c}, isTable)}, hand)
<1> DEFINE rs == removeHandKeyFromDrafts(ds, c)
           n == Draft({c}, isTable)
<1>1. {c} \in (SUBSET Cards) \ {{}}
  OBVIOUS
<1>2. n \in Drafts /\ n.cards = {c}
  BY <1>1, DraftFields
<1>3. Tidy(rs, hand) /\ \A e \in rs : \E d \in ds : e.cards = d.cards \ {c}
  BY RemoveTidy
<1> HIDE DEF rs, n
<1>4. \A e \in rs : e.cards \cap n.cards = {}
  BY <1>2, <1>3
<1>5. Tidy(rs \cup {n}, hand)
  BY <1>2, <1>3, <1>4, AddTidy
<1> QED BY <1>5 DEF rs, n

\* A card put to others.
LEMMA InsertTidy ==
  ASSUME NEW ds, NEW hand \in SUBSET Cards, Tidy(ds, hand), NEW c \in hand, NEW d \in ds
  PROVE  Tidy(insertHandKeyIntoDraft(ds, c, d), hand)
<1>1. CASE d.cards = {c}
  BY <1>1, RemoveTidy DEF insertHandKeyIntoDraft
<1>2. CASE d.cards # {c}
  <2> DEFINE os == ds \ {d}
             rs == removeHandKeyFromDrafts(os, c)
             n == Draft(d.cards \cup {c}, d.table)
  <2>1. Tidy(os, hand)
    BY DEF Tidy
  <2>2. /\ d.cards \in SUBSET Cards /\ d.table \in BOOLEAN /\ d.cards \subseteq hand
        /\ \A e \in os : e.cards \cap d.cards = {}
    BY DEF Tidy, Drafts
  <2>3. d.cards \cup {c} \in (SUBSET Cards) \ {{}}
    BY <2>2
  <2>4. n \in Drafts /\ n.cards = d.cards \cup {c}
    BY <2>2, <2>3, DraftFields
  <2>5. Tidy(rs, hand) /\ \A e \in rs : \E f \in os : e.cards = f.cards \ {c}
    BY <2>1, RemoveTidy
  <2>6. insertHandKeyIntoDraft(ds, c, d) = rs \cup {n}
    BY <1>2 DEF insertHandKeyIntoDraft
  <2> HIDE DEF os, rs, n
  <2>7. \A e \in rs : e.cards \cap n.cards = {}
    BY <2>2, <2>4, <2>5
  <2>8. n.cards \subseteq hand
    BY <2>2, <2>4
  <2> QED BY <2>4, <2>5, <2>6, <2>7, <2>8, AddTidy
<1> QED BY <1>1, <1>2

\* A card put on the composition of the table.
LEMMA TableTidy ==
  ASSUME NEW ds, NEW hand \in SUBSET Cards, Tidy(ds, hand), NEW c \in hand
  PROVE  Tidy(tableDraft(ds, c), hand)
<1> DEFINE existing == {d \in ds : d.table}
           chosen == CHOOSE d \in existing : TRUE
<1>1. CASE existing = {}
  BY <1>1, SingleTidy DEF tableDraft
<1>2. CASE existing # {}
  <2>1. chosen \in ds
    BY <1>2
  <2>2. tableDraft(ds, c) = insertHandKeyIntoDraft(ds, c, chosen)
    BY <1>2 DEF tableDraft
  <2> HIDE DEF chosen
  <2> QED BY <2>1, <2>2, InsertTidy
<1> QED BY <1>1, <1>2

-----------------------------------------------------------------------------
(***************************************************************************)
(* The steps.                                                              *)
(***************************************************************************)
\* Steps of the tutorial do not touch what the provider knows, and the provider's
\* do not touch the tutorial.
ProviderKept == UNCHANGED <<provider, request, recorded, faults>>

\* Counting on below a bound.
LEMMA OneMore ==
  ASSUME NEW bound \in Nat, NEW n \in 0 .. bound
  PROVE  n < bound => n + 1 \in 0 .. bound
  OBVIOUS

\* What holds of a drag of a card.
LEMMA DraggedCard ==
  ASSUME LessonInv, Dragging
  PROVE  /\ drag.card \in game.hand /\ game.hand \in SUBSET Cards
         /\ Tidy(drag.baseline, game.hand) /\ Tidy(drafts, game.hand)
         /\ stage # "complete" /\ drag # DrawDrag /\ drag # NoDrag
<1>1. drag.card \in game.hand
  BY DEF LessonInv, DragOK
<1>2. stage # "complete"
  BY <1>1 DEF LessonInv, HandOK, LessonHolds
<1> QED BY <1>1, <1>2 DEF LessonInv, DragOK, TypeOK, Tidy, Dragging, DrawDrag, NoDrag

\* A step that changes the drafts, the stage with them, and may end the drag.
LEMMA BoardKeeps ==
  ASSUME LessonInv, Dragging, ProviderKept, game' = game,
         detours' \in 0 .. MaxDetours, drag' \in {drag, NoDrag}, Tidy(drafts', game.hand),
         stage' = stage \/ (stage \in {"compose", "discard"} /\ stage' \in {"compose", "discard"})
  PROVE  LessonInv'
<1>1. stage # "complete" /\ drag # DrawDrag /\ drag # NoDrag
  BY DraggedCard
<1>2. TypeOK'
  BY DEF LessonInv, TypeOK, Tidy, ProviderKept, TUTORIAL_STAGES
<1>3. HandOK'
  BY <1>1 DEF LessonInv, HandOK, LessonHolds, DealtCards
<1>4. DragOK'
  BY <1>1 DEF LessonInv, DragOK, Dragging, NoDrag, DrawDrag
<1>5. RecordOK'
  BY DEF LessonInv, RecordOK, ProviderKept
<1> QED BY <1>2, <1>3, <1>4, <1>5 DEF LessonInv

\* The tutorial hears of the new drafts.
LEMMA ReportKeeps ==
  ASSUME LessonInv, Dragging, ProviderKept, game' = game,
         detours' \in 0 .. MaxDetours, drag' \in {drag, NoDrag},
         NEW ds, Tidy(ds, game.hand), NEW isDraggingCard \in BOOLEAN,
         updateDraftCompositions(ds, isDraggingCard)
  PROVE  LessonInv'
<1>1. drafts' = ds
  BY DEF updateDraftCompositions
<1>2. stage' = stage \/ (stage \in {"compose", "discard"} /\ stage' \in {"compose", "discard"})
  BY DEF updateDraftCompositions, onDraftStateChange
<1> QED BY <1>1, <1>2, BoardKeeps

\* A card is dropped on drafts that are tidy.
LEMMA DropKeeps ==
  ASSUME LessonInv, NEW ds, Dragging => Tidy(ds, game.hand), DropOn(ds),
         detours' \in 0 .. MaxDetours
  PROVE  LessonInv'
<1>1. /\ Dragging /\ drag' = NoDrag /\ game' = game /\ ProviderKept
      /\ updateDraftCompositions(ds, FALSE)
  BY DEF DropOn, ProviderKept, serverVars
<1> QED BY <1>1, ReportKeeps

\* DropOnHand, DropOnNew, DropOnTable and DropOnDraft.
LEMMA DropsKeep ==
  ASSUME LessonInv, detours' \in 0 .. MaxDetours,
         \/ DropOnHand \/ DropOnNew \/ DropOnTable
         \/ \E d \in drafts : DropOnDraft(d)
  PROVE  LessonInv'
<1>1. Dragging => /\ drag.card \in game.hand /\ game.hand \in SUBSET Cards
                  /\ Tidy(drafts, game.hand)
  BY DraggedCard
<1>2. CASE DropOnHand
  <2>1. Dragging => Tidy(removeHandKeyFromDrafts(drafts, drag.card), game.hand)
    BY <1>1, RemoveTidy
  <2> QED BY <1>2, <2>1, DropKeeps DEF DropOnHand
<1>3. CASE DropOnNew
  <2>1. Dragging => Tidy(newDraft(drafts, drag.card), game.hand)
    BY <1>1, SingleTidy DEF newDraft
  <2> QED BY <1>3, <2>1, DropKeeps DEF DropOnNew
<1>4. CASE DropOnTable
  <2>1. Dragging => Tidy(tableDraft(drafts, drag.card), game.hand)
    BY <1>1, TableTidy
  <2> QED BY <1>4, <2>1, DropKeeps DEF DropOnTable
<1>5. ASSUME NEW d \in drafts, DropOnDraft(d)
      PROVE  LessonInv'
  <2>1. Dragging => Tidy(insertHandKeyIntoDraft(drafts, drag.card, d), game.hand)
    BY <1>1, InsertTidy
  <2> QED BY <1>5, <2>1, DropKeeps DEF DropOnDraft
<1> QED BY <1>2, <1>3, <1>4, <1>5

\* OverHand and OverDraft.
LEMMA OverKeeps ==
  ASSUME LessonInv, detours' \in 0 .. MaxDetours,
         OverHand \/ \E d \in drafts : OverDraft(d)
  PROVE  LessonInv'
<1>1. CASE OverHand
  <2>1. /\ Dragging /\ drag' = drag /\ game' = game /\ ProviderKept
        /\ updateDraftCompositions(removeHandKeyFromDrafts(drafts, drag.card), TRUE)
    BY <1>1 DEF OverHand, ProviderKept, serverVars
  <2>2. Tidy(removeHandKeyFromDrafts(drafts, drag.card), game.hand)
    BY <2>1, DraggedCard, RemoveTidy
  <2> QED BY <2>1, <2>2, ReportKeeps
<1>2. ASSUME NEW d \in drafts, OverDraft(d)
      PROVE  LessonInv'
  <2>1. /\ Dragging /\ drag' = drag /\ game' = game /\ ProviderKept
        /\ updateDraftCompositions(insertHandKeyIntoDraft(drafts, drag.card, d), TRUE)
    BY <1>2 DEF OverDraft, ProviderKept, serverVars
  <2>2. Tidy(insertHandKeyIntoDraft(drafts, drag.card, d), game.hand)
    BY <2>1, DraggedCard, InsertTidy
  <2> QED BY <2>1, <2>2, ReportKeeps
<1> QED BY <1>1, <1>2

\* DropNowhere and DropEarly.
LEMMA UndoKeeps ==
  ASSUME LessonInv, detours' \in 0 .. MaxDetours, DropNowhere \/ DropEarly
  PROVE  LessonInv'
<1>1. CASE DropNowhere
  <2>1. /\ Dragging /\ drag' = NoDrag /\ game' = game /\ ProviderKept
        /\ updateDraftCompositions(drag.baseline, FALSE)
    BY <1>1 DEF DropNowhere, ProviderKept, serverVars
  <2>2. Tidy(drag.baseline, game.hand)
    BY <2>1, DraggedCard
  <2> QED BY <2>1, <2>2, ReportKeeps
<1>2. CASE DropEarly
  <2>1. /\ Dragging /\ drag' = NoDrag /\ game' = game /\ ProviderKept
        /\ drafts' = drafts /\ stage' = stage
    BY <1>2 DEF DropEarly, ProviderKept, serverVars
  <2>2. Tidy(drafts, game.hand)
    BY <2>1, DraggedCard
  <2> QED BY <2>1, <2>2, BoardKeeps
<1> QED BY <1>1, <1>2

\* A drop on the discard pile: the play is accepted only with the run drafted by
\* itself, and then leaves nothing in the hand.
LEMMA PileKeeps ==
  ASSUME LessonInv, detours' \in 0 .. MaxDetours, DropOnPile
  PROVE  LessonInv'
<1>1. Dragging /\ drag' = NoDrag /\ ProviderKept
  BY DEF DropOnPile, ProviderKept, serverVars
<1>2. CASE UNCHANGED <<stage, game, drafts>>
  BY <1>1, <1>2, DraggedCard, BoardKeeps
<1>3. CASE ~UNCHANGED <<stage, game, drafts>>
  <2>1. hasExpectedPlay /\ playTableAndDiscard
    BY <1>3 DEF DropOnPile
  <2>2. /\ stage = "discard" /\ drag.card = "Q"
        /\ \E d \in drafts : drafts = {d} /\ d.cards = Run
    BY <2>1 DEF hasExpectedPlay, isTutorialDraftComplete, isTutorialRun
  <2>3. UNION {d.cards : d \in drafts} = Run
    BY <2>2
  <2>4. game.hand = Cards
    BY <2>2 DEF LessonInv, HandOK, DealtCards
  <2>5. (game.hand \ UNION {d.cards : d \in drafts}) \ {drag.card} = {}
    BY <2>2, <2>3, <2>4 DEF Cards
  <2>6. game \in [hand : SUBSET Cards, hasDrawn : BOOLEAN,
                  played : SUBSET Cards, discarded : SUBSET Cards]
        /\ game.hasDrawn
    BY <2>2 DEF LessonInv, TypeOK, HandOK
  <2>7. /\ stage' = "complete" /\ drafts' = {}
        /\ game' = [game EXCEPT !.hand = {}, !.played = Run, !.discarded = {"Q"}]
    BY <2>1, <2>2, <2>3, <2>5 DEF playTableAndDiscard
  <2>8. /\ game' \in [hand : {{}}, hasDrawn : {TRUE}, played : {Run}, discarded : {{"Q"}}]
    BY <2>6, <2>7
  <2>9. TypeOK'
    BY <1>1, <2>7, <2>8
       DEF LessonInv, TypeOK, ProviderKept, TUTORIAL_STAGES, Cards, Run
  <2>10. HandOK'
    BY <2>7, <2>8 DEF HandOK, LessonHolds
  <2>11. DragOK'
    BY <1>1 DEF DragOK, Dragging, NoDrag, DrawDrag
  <2>12. RecordOK'
    BY <1>1 DEF LessonInv, RecordOK, ProviderKept
  <2> QED BY <2>9, <2>10, <2>11, <2>12 DEF LessonInv
<1> QED BY <1>2, <1>3

\* PickUp.
LEMMA PickUpKeeps ==
  ASSUME LessonInv, detours' \in 0 .. MaxDetours, NEW c, PickUp(c)
  PROVE  LessonInv'
<1>1. /\ c \in game.hand /\ drag' = HandDrag(c) /\ ProviderKept
      /\ stage' = stage /\ game' = game /\ drafts' = drafts
  BY DEF PickUp, ProviderKept, serverVars
<1>2. c \in Cards /\ drafts \subseteq Drafts /\ Tidy(drafts, game.hand)
  BY <1>1 DEF LessonInv, TypeOK, Tidy
<1>3. /\ drag' \in [type : {"hand"}, card : {c}, baseline : {drafts}]
  BY <1>1 DEF HandDrag
<1>4. TypeOK'
  BY <1>1, <1>2, <1>3 DEF LessonInv, TypeOK, ProviderKept
<1>5. HandOK'
  BY <1>1 DEF LessonInv, HandOK, LessonHolds, DealtCards
<1>6. DragOK'
  BY <1>1, <1>2, <1>3 DEF DragOK, DrawDrag
<1>7. RecordOK'
  BY <1>1 DEF LessonInv, RecordOK, ProviderKept
<1> QED BY <1>4, <1>5, <1>6, <1>7 DEF LessonInv

\* DrawStart.
LEMMA DrawStartKeeps ==
  ASSUME LessonInv, DrawStart
  PROVE  LessonInv'
<1>1. /\ stage = "draw" /\ ~game.hasDrawn /\ drag' = DrawDrag
      /\ game' = [game EXCEPT !.hand = @ \cup {"7"}, !.hasDrawn = TRUE]
      /\ stage' = stage /\ drafts' = drafts /\ detours' = detours /\ ProviderKept
  BY DEF DrawStart, ProviderKept, serverVars
<1>2. game \in [hand : {Cards \ {"7"}}, hasDrawn : BOOLEAN,
                played : SUBSET Cards, discarded : SUBSET Cards]
  BY <1>1 DEF LessonInv, TypeOK, HandOK, DealtCards
<1>3. (Cards \ {"7"}) \cup {"7"} = Cards
  BY DEF Cards, Run
<1>4. game' \in [hand : {Cards}, hasDrawn : {TRUE},
                 played : SUBSET Cards, discarded : SUBSET Cards]
  BY <1>1, <1>2, <1>3
<1>5. TypeOK'
  BY <1>1, <1>2, <1>4 DEF LessonInv, TypeOK, ProviderKept
<1>6. HandOK'
  BY <1>1, <1>4 DEF HandOK, LessonHolds, DealtCards
<1>7. DragOK'
  BY <1>1, <1>4 DEF DragOK, Dragging, DrawDrag
<1>8. RecordOK'
  BY <1>1 DEF LessonInv, RecordOK, ProviderKept
<1> QED BY <1>5, <1>6, <1>7, <1>8 DEF LessonInv

\* DrawDrop and CancelDraw.
LEMMA DrawEndKeeps ==
  ASSUME LessonInv, detours' \in 0 .. MaxDetours, DrawDrop \/ CancelDraw
  PROVE  LessonInv'
<1>1. /\ drag = DrawDrag /\ drag' = NoDrag /\ onDrawSettled
      /\ game' = game /\ drafts' = drafts /\ ProviderKept
  BY DEF DrawDrop, CancelDraw, ProviderKept, serverVars
<1>2. stage' = stage \/ (stage = "draw" /\ stage' = "compose")
  BY <1>1 DEF onDrawSettled
<1>3. game.hasDrawn
  BY <1>1 DEF LessonInv, DragOK
<1>4. TypeOK'
  BY <1>1, <1>2 DEF LessonInv, TypeOK, ProviderKept, TUTORIAL_STAGES
<1>5. HandOK'
  BY <1>1, <1>2, <1>3 DEF LessonInv, HandOK, LessonHolds, DealtCards
<1>6. DragOK'
  BY <1>1 DEF DragOK, Dragging, NoDrag, DrawDrag
<1>7. RecordOK'
  BY <1>1 DEF LessonInv, RecordOK, ProviderKept
<1> QED BY <1>4, <1>5, <1>6, <1>7 DEF LessonInv

\* ResetDrafts.
LEMMA ResetKeeps ==
  ASSUME LessonInv, detours' \in 0 .. MaxDetours, ResetDrafts
  PROVE  LessonInv'
<1>1. /\ drag = NoDrag /\ drag' = drag /\ drafts' = {} /\ stage' = stage
      /\ game' = game /\ ProviderKept
  BY DEF ResetDrafts, atRest, ProviderKept, serverVars
<1>2. TypeOK'
  BY <1>1 DEF LessonInv, TypeOK, ProviderKept
<1>3. HandOK'
  BY <1>1 DEF LessonInv, HandOK, LessonHolds, DealtCards
<1>4. DragOK'
  BY <1>1 DEF DragOK, Dragging, NoDrag, DrawDrag
<1>5. RecordOK'
  BY <1>1 DEF LessonInv, RecordOK, ProviderKept
<1> QED BY <1>2, <1>3, <1>4, <1>5 DEF LessonInv

\* A step of the provider or the server leaves the tutorial as it is.
LEMMA TutorialKept ==
  ASSUME LessonInv, UNCHANGED tutorialVars
  PROVE  /\ HandOK' /\ DragOK' /\ stage' \in TUTORIAL_STAGES
         /\ game' \in [hand : SUBSET Cards, hasDrawn : BOOLEAN,
                       played : SUBSET Cards, discarded : SUBSET Cards]
         /\ Tidy(drafts', game'.hand)
         /\ drag' \in {NoDrag, DrawDrag}
              \cup [type : {"hand"}, card : Cards, baseline : SUBSET Drafts]
<1>1. stage' = stage /\ game' = game /\ drafts' = drafts /\ drag' = drag
  BY DEF tutorialVars
<1> QED BY <1>1 DEF LessonInv, TypeOK, Tidy, HandOK, LessonHolds, DealtCards, DragOK, Dragging

\* A tutorial as it is mounted.
LEMMA MountIsTidy ==
  ASSUME Mount
  PROVE  /\ HandOK' /\ DragOK' /\ stage' \in TUTORIAL_STAGES
         /\ game' \in [hand : SUBSET Cards, hasDrawn : BOOLEAN,
                       played : SUBSET Cards, discarded : SUBSET Cards]
         /\ Tidy(drafts', game'.hand)
         /\ drag' \in {NoDrag, DrawDrag}
              \cup [type : {"hand"}, card : Cards, baseline : SUBSET Drafts]
<1>1. stage' = "intro" /\ drafts' = {} /\ drag' = NoDrag
      /\ game' = createTutorialGame
  BY DEF Mount
<1>2. {"5", "6", "Q"} = Cards \ {"7"}
  BY DEF Cards, Run
<1>3. game' \in [hand : {Cards \ {"7"}}, hasDrawn : {FALSE}, played : {{}}, discarded : {{}}]
  BY <1>1, <1>2 DEF createTutorialGame
<1>4. HandOK'
  BY <1>1, <1>3 DEF HandOK, LessonHolds, DealtCards
<1>5. DragOK'
  BY <1>1 DEF DragOK, Dragging, NoDrag, DrawDrag
<1> QED BY <1>1, <1>3, <1>4, <1>5 DEF TUTORIAL_STAGES, Tidy

\* Continue.
LEMMA ContinueKeeps ==
  ASSUME LessonInv, Continue
  PROVE  LessonInv'
<1>1. UNCHANGED <<game, drafts, drag, recorded, detours, faults>>
  BY DEF Continue
<1>2. CASE stage \in {"intro", "orientation"}
  <2>1. stage' \in {"orientation", "draw"} /\ provider' = provider /\ request' = request
    BY <1>2 DEF Continue
  <2>2. TypeOK'
    BY <1>1, <2>1 DEF LessonInv, TypeOK, TUTORIAL_STAGES
  <2>3. HandOK'
    BY <1>1, <1>2, <2>1 DEF LessonInv, HandOK, LessonHolds, DealtCards
  <2>4. DragOK'
    BY <1>1 DEF LessonInv, DragOK, Dragging
  <2>5. RecordOK'
    BY <1>1, <2>1 DEF LessonInv, RecordOK
  <2> QED BY <2>2, <2>3, <2>4, <2>5 DEF LessonInv
<1>3. CASE stage = "complete"
  <2>1. completeTutorial /\ UNCHANGED tutorialVars
    BY <1>1, <1>3 DEF Continue, tutorialVars
  <2>2. provider \in [required : BOOLEAN, completedInSession : BOOLEAN,
                      replay : BOOLEAN, isCompleting : BOOLEAN]
    BY DEF LessonInv, TypeOK
  <2>3. /\ provider' \in [required : BOOLEAN, completedInSession : BOOLEAN,
                          replay : BOOLEAN, isCompleting : BOOLEAN]
        /\ provider'.completedInSession = provider.completedInSession
        /\ request' \in {request, "sent"}
    BY <2>1, <2>2 DEF completeTutorial
  <2>4. TypeOK'
    BY <1>1, <2>1, <2>3, TutorialKept DEF LessonInv, TypeOK, Tidy
  <2>5. RecordOK'
    BY <1>1, <2>3 DEF LessonInv, RecordOK
  <2> QED BY <2>1, <2>4, <2>5, TutorialKept DEF LessonInv
<1> QED BY <1>2, <1>3 DEF Continue

\* handleCompleteOnboarding, Completed and CompletionFailed.
LEMMA RequestKeeps ==
  ASSUME LessonInv, handleCompleteOnboarding \/ Completed \/ CompletionFailed
  PROVE  LessonInv'
<1>1. UNCHANGED tutorialVars /\ detours' = detours
  BY DEF handleCompleteOnboarding, Completed, CompletionFailed
<1>2. /\ provider \in [required : BOOLEAN, completedInSession : BOOLEAN,
                       replay : BOOLEAN, isCompleting : BOOLEAN]
      /\ request \in {"none", "sent", "ok", "failed"} /\ recorded \in BOOLEAN
      /\ detours \in 0 .. MaxDetours /\ faults \in 0 .. MaxFaults
  BY DEF LessonInv, TypeOK
<1>3. /\ provider' \in [required : BOOLEAN, completedInSession : BOOLEAN,
                        replay : BOOLEAN, isCompleting : BOOLEAN]
      /\ request' \in {"none", "sent", "ok", "failed"} /\ recorded' \in BOOLEAN
      /\ faults' \in 0 .. MaxFaults /\ RecordOK'
  <2>1. CASE handleCompleteOnboarding
    <3>1. provider' = provider
      BY <2>1 DEF handleCompleteOnboarding
    <3>2. \/ recorded' = TRUE /\ request' = "ok" /\ faults' = faults
          \/ /\ faults < MaxFaults /\ faults' = faults + 1 /\ request' = "failed"
             /\ recorded' \in {recorded, TRUE}
      BY <2>1 DEF handleCompleteOnboarding
    <3>3. faults' \in 0 .. MaxFaults
      BY <1>2, <3>2, BoundsAssumption, OneMore
    <3> QED BY <1>2, <3>1, <3>2, <3>3 DEF LessonInv, RecordOK
  <2>2. CASE Completed
    BY <1>2, <2>2 DEF Completed, LessonInv, RecordOK
  <2>3. CASE CompletionFailed
    BY <1>2, <2>3 DEF CompletionFailed, LessonInv, RecordOK
  <2> QED BY <2>1, <2>2, <2>3
<1>4. TypeOK'
  BY <1>1, <1>2, <1>3, TutorialKept DEF TypeOK, Tidy
<1> QED BY <1>1, <1>3, <1>4, TutorialKept DEF LessonInv

\* startTutorial and Reload.
LEMMA MountKeeps ==
  ASSUME LessonInv, startTutorial \/ Reload
  PROVE  LessonInv'
<1>1. Mount
  BY DEF startTutorial, Reload
<1>2. /\ provider \in [required : BOOLEAN, completedInSession : BOOLEAN,
                       replay : BOOLEAN, isCompleting : BOOLEAN]
      /\ request \in {"none", "sent", "ok", "failed"} /\ recorded \in BOOLEAN
      /\ detours \in 0 .. MaxDetours /\ faults \in 0 .. MaxFaults
  BY DEF LessonInv, TypeOK
<1>3. /\ provider' \in [required : BOOLEAN, completedInSession : BOOLEAN,
                        replay : BOOLEAN, isCompleting : BOOLEAN]
      /\ request' \in {"none", "sent", "ok", "failed"} /\ recorded' \in BOOLEAN
      /\ detours' \in 0 .. MaxDetours /\ faults' \in 0 .. MaxFaults /\ RecordOK'
  <2>1. CASE startTutorial
    <3>1. detours' \in 0 .. MaxDetours
      BY <1>2, <2>1, BoundsAssumption, OneMore DEF startTutorial
    <3> QED BY <1>2, <2>1, <3>1 DEF startTutorial, serverVars, LessonInv, RecordOK
  <2>2. CASE Reload
    <3>1. faults' \in 0 .. MaxFaults
      BY <1>2, <2>2, BoundsAssumption, OneMore DEF Reload
    <3> QED BY <1>2, <2>2, <3>1 DEF Reload, newProvider, RecordOK
  <2> QED BY <2>1, <2>2
<1>4. TypeOK'
  BY <1>1, <1>3, MountIsTidy DEF TypeOK, Tidy
<1> QED BY <1>1, <1>3, <1>4, MountIsTidy DEF LessonInv

\* A step that changes nothing.
LEMMA StutterKeeps ==
  ASSUME LessonInv, UNCHANGED vars
  PROVE  LessonInv'
<1>1. UNCHANGED tutorialVars
  BY DEF vars, tutorialVars
<1>2. TypeOK' /\ RecordOK'
  BY DEF LessonInv, TypeOK, RecordOK, vars
<1> QED BY <1>1, <1>2, TutorialKept DEF LessonInv

\* CoachedDrop is one of the drops.
LEMMA CoachedDropKeeps ==
  ASSUME LessonInv, CoachedDrop
  PROVE  LessonInv'
<1>1. detours' \in 0 .. MaxDetours
  BY DEF CoachedDrop, LessonInv, TypeOK
<1>2. \/ DropEarly \/ DropOnPile \/ DropOnHand \/ DropOnNew
      \/ \E d \in Ours : DropOnDraft(d)
  <2> HIDE DEF Ours
  <2> QED BY DEF CoachedDrop
<1>3. ASSUME NEW d \in Ours, DropOnDraft(d)
      PROVE  d \in drafts /\ DropOnDraft(d)
  BY <1>3 DEF DropOnDraft
<1>4. \/ DropEarly \/ DropOnPile \/ DropOnHand \/ DropOnNew
      \/ \E d \in drafts : DropOnDraft(d)
  BY <1>2, <1>3
<1> QED BY <1>1, <1>4, UndoKeeps, PileKeeps, DropsKeep

-----------------------------------------------------------------------------
(***************************************************************************)
(* The invariant holds, and what follows from it.                          *)
(***************************************************************************)
LEMMA InitialLesson == Init => LessonInv
<1> SUFFICES ASSUME Init
             PROVE  LessonInv
  OBVIOUS
<1>1. {"5", "6", "Q"} = Cards \ {"7"}
  BY DEF Cards, Run
<1>2. game \in [hand : {Cards \ {"7"}}, hasDrawn : {FALSE}, played : {{}}, discarded : {{}}]
  BY <1>1 DEF Init, createTutorialGame
<1>3. TypeOK
  <2>1. detours \in 0 .. MaxDetours /\ faults \in 0 .. MaxFaults
    BY BoundsAssumption DEF Init
  <2>2. provider \in [required : BOOLEAN, completedInSession : BOOLEAN,
                      replay : BOOLEAN, isCompleting : BOOLEAN]
    BY DEF Init, newProvider
  <2> QED BY <1>2, <2>1, <2>2 DEF Init, TypeOK, TUTORIAL_STAGES
<1>4. HandOK
  BY <1>2 DEF Init, HandOK, LessonHolds, DealtCards
<1>5. DragOK
  BY DEF Init, DragOK, Dragging, NoDrag, DrawDrag
<1>6. RecordOK
  BY DEF Init, RecordOK, newProvider
<1> QED BY <1>3, <1>4, <1>5, <1>6 DEF LessonInv

\* Every step of the tutorial, the page and the server keeps the invariant.
LEMMA NextKeeps ==
  ASSUME LessonInv, [Next]_vars
  PROVE  LessonInv'
<1>0. detours \in 0 .. MaxDetours /\ MaxDetours \in Nat
  BY BoundsAssumption DEF LessonInv, TypeOK
<1>1. CASE Coached
  <2>1. CASE Continue
    BY <2>1, ContinueKeeps
  <2>2. CASE DrawStart
    BY <2>2, DrawStartKeeps
  <2>3. CASE DrawDrop
    <3>1. detours' = detours
      BY <2>3 DEF DrawDrop
    <3> QED BY <1>0, <2>3, <3>1, DrawEndKeeps
  <2>4. CASE CoachedPickUp
    <3>1. PICK c \in Wanted : PickUp(c)
      BY <2>4 DEF CoachedPickUp
    <3>2. detours' = detours
      BY <2>4 DEF CoachedPickUp
    <3> QED BY <1>0, <3>1, <3>2, PickUpKeeps
  <2>5. CASE CoachedDrop
    BY <2>5, CoachedDropKeeps
  <2> QED BY <1>1, <2>1, <2>2, <2>3, <2>4, <2>5 DEF Coached
<1>2. CASE Detour
  <2>0. detours' \in 0 .. MaxDetours
    BY <1>0, <1>2 DEF Detour
  <2>1. CASE \E c \in Cards : PickUp(c)
    BY <2>0, <2>1, PickUpKeeps
  <2>2. CASE OverHand \/ \E d \in drafts : OverDraft(d)
    BY <2>0, <2>2, OverKeeps
  <2>3. CASE DropNowhere
    BY <2>0, <2>3, UndoKeeps
  <2>4. CASE CancelDraw
    BY <2>0, <2>4, DrawEndKeeps
  <2>5. CASE ResetDrafts
    BY <2>0, <2>5, ResetKeeps
  <2>6. CASE \/ DropOnHand \/ DropOnNew \/ DropOnTable
             \/ \E d \in drafts : DropOnDraft(d)
    BY <2>0, <2>6, DropsKeep
  <2>7. CASE DropOnPile
    BY <2>0, <2>7, PileKeeps
  <2> QED BY <1>2, <2>1, <2>2, <2>3, <2>4, <2>5, <2>6, <2>7 DEF Detour
<1>3. CASE handleCompleteOnboarding \/ Completed \/ CompletionFailed
  BY <1>3, RequestKeeps
<1>4. CASE startTutorial \/ Reload
  BY <1>4, MountKeeps
<1>5. CASE UNCHANGED vars
  BY <1>5, StutterKeeps
<1> QED BY <1>1, <1>2, <1>3, <1>4, <1>5 DEF Next

\* The practice game, the drag over it and the provider's record fit together.
THEOREM LessonCorrect == Spec => []LessonInv
<1>1. Init => LessonInv
  BY InitialLesson
<1>2. LessonInv /\ [Next]_vars => LessonInv'
  BY NextKeeps
<1> QED BY <1>1, <1>2, PTL DEF Spec

\* A drafted card of the practice game is a card of the hand, in one draft only, and
\* the state of the tutorial and its provider has its types.
THEOREM TutorialTypeCorrect == Spec => []TypeOK
<1>1. LessonInv => TypeOK
  BY DEF LessonInv
<1> QED BY <1>1, LessonCorrect, PTL

\* TutorialGame reaches its last stage only with the run on the table, the queen on
\* the pile and an empty hand.
THEOREM LessonIsLearnt == Spec => []LessonHolds
<1>1. LessonInv => LessonHolds
  BY DEF LessonInv, HandOK
<1> QED BY <1>1, LessonCorrect, PTL

\* GameOnboardingProvider uncovers the app for a player who had to complete the
\* tutorial only once the server has recorded it.
THEOREM AppOpensOnRecord == Spec => []AppNeedsRecord
<1>1. LessonInv => AppNeedsRecord
  BY DEF LessonInv, RecordOK, AppNeedsRecord, open, mustComplete
<1> QED BY <1>1, LessonCorrect, PTL
=============================================================================
